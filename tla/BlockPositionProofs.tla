------------------------- MODULE BlockPositionProofs -------------------------
(***************************************************************************)
(* Source positions: every closed block's end was measured on the line it  *)
(* ends on, a paragraph's text is a run of consecutive lines, and siblings *)
(* cover disjoint ranges of lines within those of the block they stand in, *)
(* for every set of lines, nesting limit, padding budget and size of       *)
(* arena.                                                                  *)
(***************************************************************************)
EXTENDS BlockStructureProofs, SequenceTheorems

(***************************************************************************)
(* Runs of lines                                                           *)
(***************************************************************************)
IsSeq(s) == \E A : s \in Seq(A)

\* The text of a paragraph: a sequence of entries on consecutive lines.
IsRun(c) ==
  /\ IsSeq(c)
  /\ \A i \in 1..Len(c) : "at" \in DOMAIN c[i] /\ c[i].at \in Nat
  /\ \A i \in 1..(Len(c) - 1) : c[i+1].at = c[i].at + 1

LEMMA EmptyRun == IsRun(<<>>)
<1>1. <<>> \in Seq({})
  OBVIOUS
<1>. QED
  BY <1>1 DEF IsRun, IsSeq

LEMMA RunAppend ==
  ASSUME NEW c, IsRun(c), NEW e, "at" \in DOMAIN e, e.at \in Nat,
         c # <<>> => Last(c).at + 1 = e.at
  PROVE  /\ IsRun(Append(c, e)) /\ Append(c, e) # <<>> /\ Last(Append(c, e)) = e
         /\ Len(Append(c, e)) = Len(c) + 1
<1>1. PICK A : c \in Seq(A)
  BY DEF IsRun, IsSeq
<1>. DEFINE B == A \cup {e}
            d == Append(c, e)
<1>2. c \in Seq(B)
  <2>1. Len(c) \in Nat /\ c = [i \in 1..Len(c) |-> c[i]] /\ \A i \in 1..Len(c) : c[i] \in B
    BY <1>1
  <2>. HIDE DEF B
  <2>. QED
    BY <1>1, <2>1
<1>3. e \in B
  OBVIOUS
<1>. HIDE DEF B
<1>4. /\ d \in Seq(B) /\ Len(d) = Len(c) + 1 /\ d[Len(d)] = e /\ Len(c) \in Nat
      /\ \A i \in 1..Len(c) : d[i] = c[i]
  BY <1>2, <1>3
<1>5. IsSeq(d)
  BY <1>4 DEF IsSeq
<1>. HIDE DEF d
<1>6. Last(d) = e /\ d # <<>>
  BY <1>4 DEF Last
<1>7. \A i \in 1..Len(d) : "at" \in DOMAIN d[i] /\ d[i].at \in Nat
  BY <1>4 DEF IsRun
<1>8. \A i \in 1..(Len(d) - 1) : d[i+1].at = d[i].at + 1
  <2>. TAKE i \in 1..(Len(d) - 1)
  <2>1. CASE i < Len(c)
    <3>1. i \in 1..(Len(c) - 1) /\ i \in 1..Len(c) /\ i + 1 \in 1..Len(c)
      BY <1>4, <2>1
    <3>2. d[i] = c[i] /\ d[i+1] = c[i+1]
      BY <1>4, <3>1
    <3>3. c[i+1].at = c[i].at + 1
      BY <3>1 DEF IsRun
    <3>. QED
      BY <3>2, <3>3
  <2>2. CASE i = Len(c)
    <3>1. c # <<>> /\ d[i] = Last(c) /\ d[i+1] = e
      BY <1>4, <2>2 DEF Last
    <3>. QED
      BY <3>1
  <2>. QED
    BY <1>4, <2>1, <2>2
<1>9. IsRun(d)
  BY <1>5, <1>7, <1>8 DEF IsRun
<1>. QED
  BY <1>4, <1>6, <1>9 DEF d

LEMMA RunTail ==
  ASSUME NEW c, IsRun(c), NEW k \in 0..Len(c)
  PROVE  LET s == SubSeq(c, k + 1, Len(c))
         IN  /\ IsRun(s) /\ Len(s) = Len(c) - k /\ \A i \in 1..Len(s) : s[i] = c[i + k]
             /\ s # <<>> => c # <<>> /\ Last(s) = Last(c)
<1>. DEFINE s == SubSeq(c, k + 1, Len(c))
<1>1. PICK A : c \in Seq(A)
  BY DEF IsRun, IsSeq
<1>2. /\ s \in Seq(A) /\ Len(s) = Len(c) - k /\ Len(c) \in Nat
      /\ \A i \in 1..Len(s) : s[i] = c[i + k]
  BY <1>1
<1>. HIDE DEF s
<1>3. IsSeq(s)
  BY <1>2 DEF IsSeq
<1>4. IsRun(s)
  <2>1. \A i \in 1..Len(s) : "at" \in DOMAIN s[i] /\ s[i].at \in Nat
    BY <1>2 DEF IsRun
  <2>2. \A i \in 1..(Len(s) - 1) : s[i+1].at = s[i].at + 1
    <3>. TAKE i \in 1..(Len(s) - 1)
    <3>1. i + k \in 1..(Len(c) - 1) /\ s[i] = c[i + k] /\ s[i+1] = c[(i + k) + 1]
      BY <1>2, SMTT(20)
    <3>. QED
      BY <3>1 DEF IsRun
  <2>. QED
    BY <1>3, <2>1, <2>2 DEF IsRun
<1>5. s # <<>> => c # <<>> /\ Last(s) = Last(c)
  <2>1. s # <<>> => Len(s) > 0
    BY <1>2
  <2>. QED
    BY <1>1, <1>2, <2>1 DEF Last
<1>. QED
  BY <1>2, <1>4, <1>5 DEF s

LEMMA RunFront ==
  ASSUME NEW c, IsRun(c), Len(c) > 0
  PROVE  /\ IsRun(Front(c)) /\ Len(Front(c)) = Len(c) - 1
         /\ \A i \in 1..(Len(c) - 1) : Front(c)[i] = c[i]
         /\ Front(c) # <<>> => Last(Front(c)).at = Last(c).at - 1
<1>. DEFINE s == Front(c)
<1>1. PICK A : c \in Seq(A)
  BY DEF IsRun, IsSeq
<1>2. /\ s \in Seq(A) /\ Len(s) = Len(c) - 1 /\ Len(c) \in Nat
      /\ \A i \in 1..Len(s) : s[i] = c[i]
  <2>1. s = SubSeq(c, 1, Len(c) - 1)
    BY DEF Front
  <2>2. Len(c) \in Nat /\ 1 \in 1..(Len(c) + 1) /\ Len(c) - 1 \in 0..Len(c)
    BY <1>1
  <2>. HIDE DEF s
  <2>3. /\ s \in Seq(A) /\ Len(s) = IF 1 <= Len(c) - 1 THEN Len(c) - 1 - 1 + 1 ELSE 0
        /\ \A i \in 1..(Len(c) - 1 - 1 + 1) : s[i] = c[1 + i - 1]
    BY <1>1, <2>1, <2>2, SubSeqProperties
  <2>4. Len(s) = Len(c) - 1
    <3>. DEFINE L == Len(c)
    <3>1. L \in Nat /\ L > 0 /\ Len(s) = IF 1 <= L - 1 THEN L - 1 - 1 + 1 ELSE 0
      BY <2>2, <2>3
    <3>. HIDE DEF L
    <3>2. Len(s) = L - 1
      BY <3>1
    <3>. QED
      BY <3>2 DEF L
  <2>5. ASSUME NEW i \in 1..Len(s) PROVE s[i] = c[i]
    <3>1. 1 + i - 1 = i /\ i \in 1..(Len(c) - 1 - 1 + 1)
      BY <2>2, <2>4
    <3>. QED
      BY <2>3, <3>1
  <2>. QED
    BY <2>2, <2>3, <2>4, <2>5
<1>. HIDE DEF s
<1>3. IsRun(s)
  BY <1>2, SMTT(20) DEF IsRun, IsSeq
<1>4. s # <<>> => Last(s).at = Last(c).at - 1
  <2>1. s # <<>> => Len(s) > 0
    BY <1>2
  <2>2. SUFFICES ASSUME Len(s) > 0 PROVE s[Len(s)].at = c[Len(c)].at - 1
    BY <1>1, <2>1 DEF Last
  <2>3. Len(s) \in 1..(Len(c) - 1) /\ s[Len(s)] = c[Len(s)] /\ Len(s) + 1 = Len(c)
    BY <1>2, <2>2
  <2>4. c[Len(s) + 1].at = c[Len(s)].at + 1 /\ c[Len(s)].at \in Nat
    BY <1>2, <2>3 DEF IsRun
  <2>. QED
    BY <2>3, <2>4
<1>. QED
  BY <1>2, <1>3, <1>4 DEF s

\* Dropping the task marker leaves the lines of a text in their places.
LEMMA RunUnmarked ==
  ASSUME NEW c, IsRun(c), c # <<>>, NEW toks
  PROVE  \A d : d = [c EXCEPT ![1].toks = toks] =>
                   IsRun(d) /\ d # <<>> /\ Last(d).at = Last(c).at
<1>. DEFINE e == [c[1] EXCEPT !.toks = toks]
            d == [c EXCEPT ![1] = e]
<1>1. PICK A : c \in Seq(A)
  BY DEF IsRun, IsSeq
<1>2. "at" \in DOMAIN c[1]
  BY <1>1 DEF IsRun
<1>3. "at" \in DOMAIN e /\ e.at = c[1].at
  BY <1>2
<1>. HIDE DEF e
<1>. DEFINE L == Len(c)
            B == A \cup {e}
<1>4. L \in Nat /\ L > 0 /\ c = [i \in 1..L |-> c[i]] /\ \A i \in 1..L : c[i] \in A
  BY <1>1
<1>. HIDE DEF L
<1>5. d = [i \in 1..L |-> IF i = 1 THEN e ELSE c[i]]
  BY <1>4
<1>. HIDE DEF d
<1>6. d \in [1..L -> B] /\ 1 \in 1..L /\ L \in 1..L
  BY <1>4, <1>5
<1>. HIDE DEF B
<1>7. d \in Seq(B) /\ Len(d) = L
  BY <1>4, <1>6
<1>8. \A i \in 1..L : "at" \in DOMAIN d[i] /\ d[i].at = c[i].at
  BY <1>3, <1>5 DEF IsRun, L
<1>9. IsRun(d)
  <2>1. \A i \in 1..(L - 1) : c[i+1].at = c[i].at + 1
    BY DEF IsRun, L
  <2>2. ASSUME NEW i \in 1..(L - 1) PROVE d[i+1].at = d[i].at + 1
    <3>1. i \in 1..L /\ i + 1 \in 1..L
      BY <1>4
    <3>. QED
      BY <1>8, <2>1, <3>1
  <2>3. \A i \in 1..L : d[i].at \in Nat
    BY <1>4, <1>8 DEF IsRun, L
  <2>. QED
    BY <1>7, <1>8, <2>2, <2>3 DEF IsRun, IsSeq
<1>10. d # <<>> /\ Last(d).at = Last(c).at
  BY <1>4, <1>6, <1>7, <1>8 DEF Last, L
<1>. QED
  BY <1>9, <1>10 DEF d, e

\* There is a first line of a text that is no definition, or none.
LEMMA DefinitionsBound ==
  ASSUME NEW c, IsRun(c)
  PROVE  /\ Definitions(c) \in 0..Len(c)
         /\ \A i \in 1..Definitions(c) : IsDefinition(c[i].toks)
<1>. DEFINE P(k) == /\ \A i \in 1..k : IsDefinition(c[i].toks)
                    /\ k < Len(c) => ~IsDefinition(c[k+1].toks)
            T    == {k \in 0..Len(c) : k < Len(c) => ~IsDefinition(c[k+1].toks)}
<1>1. Len(c) \in Nat
  BY DEF IsRun, IsSeq
<1>2. T \subseteq Nat /\ Len(c) \in T
  BY <1>1
<1>3. PICK k \in T : \A j \in T : k <= j
  <2>. HIDE DEF T
  <2>. QED
    BY <1>2, LeastNatural
<1>4. k \in 0..Len(c) /\ P(k)
  <2>1. ASSUME NEW i \in 1..k PROVE IsDefinition(c[i].toks)
    <3>1. k \in 0..Len(c)
      BY <1>3
    <3>2. i - 1 \in 0..Len(c) /\ i - 1 < Len(c) /\ (i - 1) + 1 = i /\ ~(k <= i - 1)
      BY <1>1, <2>1, <3>1
    <3>3. i - 1 \notin T
      BY <1>3, <3>2
    <3>4. IsDefinition(c[(i - 1) + 1].toks)
      BY <3>2, <3>3
    <3>. QED
      BY <3>2, <3>4
  <2>. QED
    BY <1>3, <2>1
<1>5. Definitions(c) = CHOOSE j \in 0..Len(c) : P(j)
  BY DEF Definitions
<1>. HIDE DEF P
<1>6. Definitions(c) \in 0..Len(c) /\ P(Definitions(c))
  BY <1>4, <1>5
<1>. QED
  BY <1>6 DEF P

(***************************************************************************)
(* Closing                                                                 *)
(***************************************************************************)
\* The fields of a node that a step which touches it elsewhere leaves alone.
SameText(n) == /\ blk'[n].start = blk[n].start /\ blk'[n].end = blk[n].end
               /\ blk'[n].of = blk[n].of /\ blk'[n].content = blk[n].content

\* What finalize_block does to the tip's dates and text, and to nothing else.
LEMMA ClosingEffect ==
  ASSUME Shape, tip # Nil, BlkFields,
         NEW content, NEW at, NEW of, FinalizeWith(tip, content, at, of)
  PROVE  /\ open' = open \ {tip} /\ tip' = tree.parent[tip] /\ UNCHANGED <<type, used>>
         /\ tree' = tree \/ (type[tip] = "para" /\ tree' = Unlink(tree, tip))
         /\ \A n \in Node : n # tip => SameText(n)
         /\ blk'[tip].start = blk[tip].start
         /\ blk'[tip].end = EndOf(tip, at, of)[1] /\ blk'[tip].of = EndOf(tip, at, of)[2]
         /\ type[tip] = "para" =>
              blk'[tip].content = AfterDefinitions(content, Definitions(content))
<1>. DEFINE k     == IF type[tip] = "para" THEN Definitions(content) ELSE 0
            e     == EndOf(tip, at, of)
            left  == AfterDefinitions(content, k)
            dated == [blk EXCEPT ![tip].end = e[1], ![tip].of = e[2], ![tip].content = left]
            rows  == BodyRows(tip).rows
            child == tree.first[tip]
<1>1. /\ open' = open \ {tip} /\ tip' = tree.parent[tip] /\ UNCHANGED <<type, used>>
      /\ tree' = tree \/ (type[tip] = "para" /\ tree' = Unlink(tree, tip))
      /\ \/ type[tip] # "para" /\ blk' = [dated EXCEPT ![tip].rows = rows, ![tip].content = <<>>]
         \/ type[tip] # "para" /\ blk' = [dated EXCEPT ![tip].tight = FALSE, ![child].tight = FALSE]
         \/ blk' = dated
  BY DEF FinalizeWith, Vanishes
<1>2. type[tip] = "para" => left = AfterDefinitions(content, Definitions(content))
  OBVIOUS
<1>. HIDE DEF k, e, left, rows, child
<1>3. tip \in Node /\ DOMAIN blk = Node /\ \A n \in Node : Kept \subseteq DOMAIN blk[n]
  BY OpenFacts DEF BlkFields
<1>4. /\ DOMAIN dated = Node /\ \A n \in Node : n # tip => dated[n] = blk[n]
      /\ \A n \in Node : Kept \subseteq DOMAIN dated[n]
      /\ dated[tip].start = blk[tip].start /\ dated[tip].end = e[1] /\ dated[tip].of = e[2]
      /\ dated[tip].content = left
  BY <1>3 DEF Kept
<1>. HIDE DEF dated
<1>. SUFFICES /\ \A n \in Node : n # tip => SameText(n)
              /\ blk'[tip].start = blk[tip].start /\ blk'[tip].end = e[1] /\ blk'[tip].of = e[2]
              /\ type[tip] = "para" => blk'[tip].content = left
  BY <1>1, <1>2 DEF e
<1>5. CASE blk' = dated
  BY <1>4, <1>5 DEF SameText
<1>6. CASE type[tip] # "para" /\ blk' = [dated EXCEPT ![tip].rows = rows, ![tip].content = <<>>]
  BY <1>3, <1>4, <1>6 DEF SameText, Kept
<1>7. CASE type[tip] # "para" /\ blk' = [dated EXCEPT ![tip].tight = FALSE, ![child].tight = FALSE]
  <2>. DEFINE f    == [dated EXCEPT ![tip].tight = FALSE]
              g(n) == [f[n] EXCEPT !.tight = FALSE]
  <2>1. DOMAIN f = Node /\ \A n \in Node : n # tip => f[n] = blk[n]
    BY <1>3, <1>4
  <2>2. /\ f[tip].start = blk[tip].start /\ f[tip].end = e[1] /\ f[tip].of = e[2]
        /\ Kept \subseteq DOMAIN f[tip]
    BY <1>3, <1>4 DEF Kept
  <2>3. blk' = [f EXCEPT ![child] = g(child)]
    BY <1>7
  <2>4. \A n \in Node : Kept \subseteq DOMAIN f[n] =>
          /\ g(n).start = f[n].start /\ g(n).end = f[n].end
          /\ g(n).of = f[n].of /\ g(n).content = f[n].content
    BY DEF Kept
  <2>. HIDE DEF f, g
  <2>5. \A n \in Node : /\ blk'[n].start = f[n].start /\ blk'[n].end = f[n].end
                        /\ blk'[n].of = f[n].of /\ blk'[n].content = f[n].content
    <3>. TAKE n \in Node
    <3>1. Kept \subseteq DOMAIN f[n]
      BY <1>3, <2>1, <2>2
    <3>2. blk'[n] = f[n] \/ blk'[n] = g(n)
      BY <2>1, <2>3
    <3>. QED
      BY <2>4, <3>1, <3>2
  <2>6. \A n \in Node : n # tip => SameText(n)
    BY <2>1, <2>5 DEF SameText
  <2>7. blk'[tip].start = blk[tip].start /\ blk'[tip].end = e[1] /\ blk'[tip].of = e[2]
    BY <1>3, <2>2, <2>5
  <2>. QED
    BY <1>7, <2>6, <2>7
<1>. QED
  BY <1>1, <1>5, <1>6, <1>7

(***************************************************************************)
(* The strengthening                                                       *)
(***************************************************************************)
\* The parser is between the first and the last step of incorporate_line.
Mid == pc \in {"walk", "starts", "close", "setext", "table", "add", "text", "body", "line"}

\* The fields last_line_length and the length kept for prev_line_length name
\* the last line taken to its end.
Lengths ==
  /\ input \in Seq(Lines)
  /\ pc \in {"read", "finish"} => lastLen = lineNo
  /\ Mid => lineNo > 0 /\ lastLen = lineNo - 1 /\ lenBefore = lineNo - 1

\* While the tip is a paragraph, prev_line_length is that of the line before
\* the last.
ParaLengths ==
  tip # Nil /\ type[tip] = "para" =>
    /\ pc = "read" => prevLen = lineNo - 1
    /\ pc \in {"walk", "starts", "close", "setext", "table", "text"} => prevLen = lineNo - 2

\* A paragraph is opened for the line at hand, and only then.
NoParaEarly ==
  Opening => \A i \in 1..Len(pend) :
               pend[i].type = "para" => after = "line" /\ pend[i].blk.content = <<>>

AtBody == pc = "body" => tip = cont

\* A paragraph at the tip ends with the last line taken to its end.
TipText ==
  tip # Nil /\ type[tip] = "para" /\ blk[tip].content # <<>> =>
    Last(blk[tip].content).at = IF Mid THEN lineNo - 1 ELSE lineNo

\* The text of every paragraph, in the tree or not.
Runs ==
  \A n \in Node : type[n] = "para" =>
    /\ IsRun(blk[n].content)
    /\ n \notin open /\ blk[n].content # <<>> => blk[n].end = Last(blk[n].content).at

Clock == Lengths /\ ParaLengths /\ NoParaEarly /\ AtBody /\ TipText

DatedIInv == ClosedIInv /\ Clock /\ EndsDated /\ Runs

LEMMA DatedFacts ==
  ASSUME DatedIInv
  PROVE  /\ Shape /\ Pointers /\ ContainedIInv /\ BlkFields /\ PendFields /\ AtTip
         /\ lineNo \in Nat /\ input \in Seq(Lines)
  BY DEF DatedIInv, ClosedIInv, ContainedIInv, SpineIInv, Clock, Lengths, lineNo

\* Closing the tip dates it with one line, and a paragraph with its last one.
LEMMA CloseDated ==
  ASSUME DatedIInv, tip # Nil, NEW content, NEW at, FinalizeWith(tip, content, at, at),
         type[tip] = "para" =>
           IsRun(content) /\ (content # <<>> => Last(content).at = at)
  PROVE  /\ EndsDated' /\ Runs' /\ UNCHANGED type
         /\ tip' # Nil => tip' \in Node /\ type[tip'] # "para"
<1>1. /\ Shape /\ BlkFields /\ EndsDated /\ Runs /\ tip \in Node /\ 1..used \subseteq Node
      /\ used \in Node /\ tree \in Tree /\ LinksAgree /\ type[Doc] = "doc"
  BY DatedFacts, OpenFacts DEF DatedIInv, Shape
<1>2. /\ open' = open \ {tip} /\ tip' = tree.parent[tip] /\ UNCHANGED <<type, used>>
      /\ tree' = tree \/ (type[tip] = "para" /\ tree' = Unlink(tree, tip))
      /\ \A n \in Node : n # tip => SameText(n)
      /\ blk'[tip].end = EndOf(tip, at, at)[1] /\ blk'[tip].of = EndOf(tip, at, at)[2]
      /\ type[tip] = "para" =>
           blk'[tip].content = AfterDefinitions(content, Definitions(content))
  BY <1>1, ClosingEffect
<1>3. Linked' \subseteq Linked
  <2>1. CASE tree' = tree
    BY <1>2, <2>1 DEF Linked
  <2>2. CASE type[tip] = "para" /\ tree' = Unlink(tree, tip)
    <3>1. tip # Doc /\ tree.parent[tip] # Nil /\ tree.next[tip] = Nil
      BY <1>1, <2>2, OpenFacts
    <3>2. tree'.parent = [tree.parent EXCEPT ![tip] = Nil]
      BY <1>1, <2>2, <3>1, UnlinkLast
    <3>3. DOMAIN tree.parent = Node
      BY <1>1 DEF Tree
    <3>. QED
      BY <1>1, <1>2, <3>2, <3>3 DEF Linked
  <2>. QED
    BY <1>2, <2>1, <2>2
<1>4. EndOf(tip, at, at)[1] = EndOf(tip, at, at)[2]
  <2>. DEFINE child == tree.last[tip]
  <2>1. child # Nil => child \in Linked \ open
    <3>1. child # Nil => child \in Node /\ tree.parent[child] = tip
      BY <1>1 DEF Tree, Link, LinksAgree
    <3>2. child \notin open
      BY <1>1 DEF Shape, SpineInv
    <3>3. child # Nil => child \in 1..used
      BY <1>1, <3>1, NodeFacts DEF LinksAgree, Node
    <3>. QED
      BY <1>1, <3>1, <3>2, <3>3, NodeFacts DEF Linked
  <2>2. child # Nil => blk[child].end = blk[child].of
    BY <1>1, <2>1 DEF EndsDated
  <2>. QED
    BY <2>2 DEF EndOf
<1>5. EndsDated'
  <2>. SUFFICES ASSUME NEW n \in Linked' \ open' PROVE blk'[n].of = blk'[n].end
    BY DEF EndsDated
  <2>1. n \in Linked /\ n \in Node
    BY <1>1, <1>3 DEF Linked
  <2>2. CASE n = tip
    BY <1>2, <1>4, <2>2
  <2>3. CASE n # tip
    BY <1>1, <1>2, <2>1, <2>3 DEF EndsDated, SameText
  <2>. QED
    BY <2>2, <2>3
<1>6. Runs'
  <2>. SUFFICES ASSUME NEW n \in Node, type'[n] = "para"
                PROVE  /\ IsRun(blk'[n].content)
                       /\ n \notin open' /\ blk'[n].content # <<>> =>
                            blk'[n].end = Last(blk'[n].content).at
    BY DEF Runs
  <2>1. CASE n = tip
    <3>. DEFINE k == Definitions(content)
    <3>1. type[tip] = "para" /\ IsRun(content)
      BY <1>2, <2>1
    <3>2. k \in 0..Len(content)
      BY <3>1, DefinitionsBound
    <3>. HIDE DEF k
    <3>3. blk'[tip].content = SubSeq(content, k + 1, Len(content))
      BY <1>2, <3>1 DEF AfterDefinitions, k
    <3>4. /\ IsRun(blk'[tip].content)
          /\ blk'[tip].content # <<>> => content # <<>> /\ Last(blk'[tip].content) = Last(content)
      BY <3>1, <3>2, <3>3, RunTail
    <3>5. EndOf(tip, at, at)[1] = at
      BY <3>1 DEF EndOf
    <3>. QED
      BY <1>2, <2>1, <3>1, <3>4, <3>5
  <2>2. CASE n # tip
    BY <1>1, <1>2, <2>2 DEF Runs, SameText
  <2>. QED
    BY <2>1, <2>2
<1>7. tip' # Nil => tip' \in Node /\ type[tip'] # "para"
  <2>1. tip # Doc => tip' \in OnSpine /\ tree.last[tip'] = tip /\ tip' \in Node
    BY <1>1, <1>2, TipBelow
  <2>2. tip = Doc => tip' = Nil
    BY <1>1, <1>2 DEF Shape
  <2>. QED
    BY <1>1, <2>1, <2>2, NodeFacts DEF Shape, LeavesAreBare, Containers
<1>. QED
  BY <1>2, <1>5, <1>6, <1>7

\* A step that touches no block's place, dates or text.
LEMMA NothingDated ==
  ASSUME DatedIInv, UNCHANGED <<tree, type, open, blk, used>>
  PROVE  EndsDated' /\ Runs'
<1>1. EndsDated'
  BY DEF DatedIInv, EndsDated, Linked
<1>2. Runs'
  BY DEF DatedIInv, Runs
<1>. QED
  BY <1>1, <1>2

(***************************************************************************)
(* The steps                                                               *)
(***************************************************************************)
\* What a step of the block phase owes to the clock and to the dates.
Dated == Clock' /\ EndsDated' /\ Runs'

LEMMA WalkDated ==
  ASSUME DatedIInv, Walk
  PROVE  Dated
<1>1. /\ pc = "walk" /\ Shape /\ Pointers /\ tip # Nil /\ cont \in OnSpine /\ lineNo \in Nat
      /\ Mid /\ Lengths /\ ParaLengths /\ TipText /\ Runs
  <2>1. pc = "walk"
    BY DEF Walk, ContinueMatched, ContinueNotMatched, NoMoreOpen, CloseFence
  <2>. QED
    BY <2>1, DatedFacts DEF DatedIInv, Clock, Pointers, Mid
<1>2. CASE ContinueMatched \/ ContinueNotMatched \/ NoMoreOpen
  <2>1. /\ UNCHANGED <<tree, type, open, blk, used, tip, input, lastLen, prevLen, lenBefore>>
        /\ pc' \in {"walk", "starts", "text"}
    BY <1>1, <1>2 DEF ContinueMatched, ContinueNotMatched, NoMoreOpen, WalkEnds, treeVars, lenVars
  <2>2. Mid' /\ lineNo' = lineNo
    BY <2>1 DEF Mid, lineNo
  <2>3. Lengths'
    BY <1>1, <2>1, <2>2 DEF Lengths, Mid
  <2>4. ParaLengths'
    BY <1>1, <2>1, <2>2 DEF ParaLengths
  <2>5. TipText'
    BY <1>1, <2>1, <2>2 DEF TipText
  <2>6. NoParaEarly' /\ AtBody'
    BY <2>1 DEF NoParaEarly, AtBody, Opening
  <2>. QED
    BY <2>1, <2>3, <2>4, <2>5, <2>6, NothingDated DEF Dated, Clock
<1>3. CASE CloseFence
  <2>. DEFINE child == NextOpen(cont)
  <2>1. /\ child # Nil /\ type[child] = "code" /\ Finalize(child, lineNo, lineNo)
        /\ pc' = "read" /\ lastLen' = lineNo /\ UNCHANGED <<prevLen, lenBefore, input>>
    BY <1>3 DEF CloseFence, ClosesCode, Fenced
  <2>2. child = tip
    BY <1>1, <2>1, DatedFacts, WalkFacts, LeafIsTip DEF Containers, ContainedIInv
  <2>3. FinalizeWith(tip, blk[tip].content, lineNo, lineNo) /\ type[tip] = "code"
    BY <2>1, <2>2 DEF Finalize
  <2>. HIDE DEF child
  <2>4. EndsDated' /\ Runs' /\ (tip' # Nil => type'[tip'] # "para")
    BY <1>1, <2>3, CloseDated
  <2>5. lineNo' = lineNo /\ ~Mid' /\ ~Opening'
    BY <2>1 DEF lineNo, Mid, Opening
  <2>6. Lengths'
    BY <1>1, <2>1, <2>5 DEF Lengths
  <2>7. ParaLengths' /\ TipText' /\ NoParaEarly' /\ AtBody'
    BY <2>1, <2>4, <2>5 DEF ParaLengths, TipText, NoParaEarly, AtBody
  <2>. QED
    BY <2>4, <2>6, <2>7 DEF Dated, Clock
<1>. QED
  BY <1>2, <1>3 DEF Walk

LEMMA StartDated ==
  ASSUME DatedIInv, Start
  PROVE  Dated
<1>1. /\ pc = "starts" /\ pc' \in {"close", "text"}
      /\ UNCHANGED <<tree, type, open, blk, used, tip, input, lastLen, prevLen, lenBefore>>
      /\ \/ pc' = "text" \/ goal' # "add"
         \/ \E b : pend' = <<b>> /\ b.type # "para"
         \/ \E b, c : pend' = <<b, c>> /\ b.type # "para" /\ c.type # "para"
  <2>1. CASE StartQuote \/ StartHeading \/ StartFence \/ StartHtml
    BY <2>1 DEF StartQuote, StartHeading, StartFence, StartHtml, Begin, treeVars, lenVars, Block
  <2>2. CASE StartBreak \/ StartIndentedCode
    BY <2>2 DEF StartBreak, StartIndentedCode, Begin, treeVars, lenVars, Block
  <2>3. CASE StartItem
    <3>. DEFINE n    == NextNonspace(line, cur)
                m    == ListMarker(line, n)
                data == [NewBlk EXCEPT !.mark = ListMark(Tok(line, n.pos)), !.indent = m.indent]
                b    == Block("list", data)
                c    == Block("item", data)
    <3>1. /\ pc = "starts" /\ pc' = "close"
          /\ UNCHANGED <<tree, type, open, blk, used, tip, input, lastLen, prevLen, lenBefore>>
          /\ pend' = IF SameList(n) THEN <<c>> ELSE <<b, c>>
      BY <2>3 DEF StartItem, Begin, treeVars, lenVars
    <3>2. b.type = "list" /\ c.type = "item"
      BY DEF Block
    <3>. HIDE DEF b, c, n
    <3>. QED
      BY <3>1, <3>2
  <2>4. CASE StartSetext \/ StartTable
    BY <2>4 DEF StartSetext, StartTable, Begin, treeVars, lenVars
  <2>5. CASE NoStart
    BY <2>5 DEF NoStart, treeVars, lenVars
  <2>. QED
    BY <2>1, <2>2, <2>3, <2>4, <2>5 DEF Start
<1>2. Mid /\ Mid' /\ lineNo' = lineNo
  BY <1>1 DEF Mid, lineNo
<1>3. Lengths' /\ AtBody'
  BY <1>1, <1>2 DEF DatedIInv, Clock, Lengths, AtBody
<1>4. ParaLengths'
  BY <1>1, <1>2 DEF DatedIInv, Clock, ParaLengths
<1>5. TipText'
  BY <1>1, <1>2 DEF DatedIInv, Clock, TipText
<1>6. NoParaEarly'
  BY <1>1 DEF NoParaEarly, Opening
<1>. QED
  BY <1>1, <1>3, <1>4, <1>5, <1>6, NothingDated DEF Dated, Clock

LEMMA ReadLineDated ==
  ASSUME DatedIInv, ReadLine
  PROVE  Dated
<1>1. /\ pc = "read" /\ pc' = "walk" /\ lenBefore' = lastLen
      /\ UNCHANGED <<tree, type, open, blk, used, tip, lastLen, prevLen>>
  BY DEF ReadLine, treeVars
<1>2. input' \in Seq(Lines) /\ lineNo' = lineNo + 1 /\ lineNo \in Nat
  <2>1. PICK ln \in Lines : input' = Append(input, ln)
    BY DEF ReadLine
  <2>. QED
    BY <2>1, DatedFacts DEF lineNo
<1>3. ~Mid /\ Mid'
  BY <1>1 DEF Mid
<1>4. Lengths' /\ AtBody' /\ NoParaEarly'
  BY <1>1, <1>2, <1>3 DEF DatedIInv, Clock, Lengths, AtBody, NoParaEarly, Opening
<1>5. ParaLengths'
  BY <1>1, <1>2 DEF DatedIInv, Clock, ParaLengths
<1>6. TipText'
  BY <1>1, <1>2, <1>3 DEF DatedIInv, Clock, TipText
<1>. QED
  BY <1>1, <1>4, <1>5, <1>6, NothingDated DEF Dated, Clock

LEMMA OpenDated ==
  ASSUME DatedIInv, Open
  PROVE  Dated
<1>1. /\ Shape /\ Pointers /\ tip # Nil /\ pc \in {"close", "add"} /\ lineNo \in Nat /\ Mid
      /\ Lengths /\ ParaLengths /\ NoParaEarly /\ TipText /\ Runs /\ AtTip
      /\ lastLen = lineNo - 1 /\ tip \in Node
  <2>1. pc \in {"close", "add"}
    BY DEF Open, CloseOne, AllClosed, MakeRoom, AddChild
  <2>2. Mid /\ tip # Nil
    BY <2>1, DatedFacts DEF Mid, Pointers
  <2>. QED
    BY <2>1, <2>2, DatedFacts, OpenFacts DEF DatedIInv, Clock, Lengths
<1>2. CASE CloseOne \/ MakeRoom
  <2>1. /\ FinalizeWith(tip, blk[tip].content, lineNo - 1, lineNo - 1)
        /\ UNCHANGED <<pend, goal, after, pc, input, lastLen, prevLen, lenBefore>>
    BY <1>1, <1>2 DEF CloseOne, MakeRoom, Finalize, Pointers, LineAbove, startVars, lenVars
  <2>2. type[tip] = "para" =>
          IsRun(blk[tip].content) /\ (blk[tip].content # <<>> =>
                                        Last(blk[tip].content).at = lineNo - 1)
    BY <1>1 DEF Runs, TipText
  <2>3. EndsDated' /\ Runs' /\ (tip' # Nil => type'[tip'] # "para")
    BY <1>1, <2>1, <2>2, CloseDated
  <2>4. lineNo' = lineNo /\ (Mid' <=> Mid) /\ (Opening' <=> Opening)
    BY <2>1 DEF lineNo, Mid, Opening
  <2>5. Lengths'
    BY <1>1, <2>1, <2>4 DEF Lengths
  <2>6. ParaLengths' /\ TipText'
    BY <2>3 DEF ParaLengths, TipText
  <2>7. NoParaEarly' /\ AtBody'
    BY <1>1, <2>1, <2>4 DEF NoParaEarly, AtBody
  <2>. QED
    BY <2>3, <2>5, <2>6, <2>7 DEF Dated, Clock
<1>3. CASE AllClosed
  <2>1. /\ UNCHANGED <<tree, type, open, blk, used, tip, cont, pend, goal, after, input,
                       lastLen, prevLen, lenBefore>>
        /\ pc = "close" /\ pc' = goal /\ goal \in {"add", "setext", "table", "body"}
        /\ allClosed \/ oldtip = lmc
    BY <1>1, <1>3 DEF AllClosed, treeVars, startVars, lenVars, Pointers
  <2>2. tip = cont
    BY <1>1, <2>1 DEF AtTip, Pointers
  <2>3. lineNo' = lineNo /\ Mid'
    BY <2>1 DEF lineNo, Mid
  <2>4. Lengths'
    BY <1>1, <2>1, <2>3 DEF Lengths, Mid
  <2>5. ParaLengths'
    BY <1>1, <2>1, <2>3 DEF ParaLengths
  <2>6. TipText'
    BY <1>1, <2>1, <2>3 DEF TipText
  <2>7. NoParaEarly' /\ AtBody'
    BY <1>1, <2>1, <2>2 DEF NoParaEarly, AtBody, Opening
  <2>. QED
    BY <2>1, <2>4, <2>5, <2>6, <2>7, NothingDated DEF Dated, Clock
<1>4. CASE AddChild
  <2>. DEFINE new    == used + 1
              start  == IF pend[1].type = "table" THEN lineNo - 1 ELSE lineNo
              opened == [pend[1].blk EXCEPT !.start = start]
  <2>1. /\ pc = "add" /\ used < MaxNodes /\ tree' = AppendChild(tree, tip, new)
        /\ open' = open \cup {new} /\ blk' = [blk EXCEPT ![new] = opened]
        /\ type' = [type EXCEPT ![new] = pend[1].type] /\ used' = new /\ tip' = new
        /\ pend' = Tail(pend) /\ pc' = IF Len(pend) = 1 THEN after ELSE "add"
        /\ after \in {"starts", "text", "line"}
        /\ UNCHANGED <<goal, after, input, lastLen, prevLen, lenBefore>>
    BY <1>1, <1>4 DEF AddChild, Pointers, lenVars
  <2>2. (\E b : pend = <<b>>) \/ (\E b, c : pend = <<b, c>>)
    BY <2>1, DatedFacts DEF ContainedIInv, ListsForItems, Opening
  <2>3. /\ pend[1].type = "para" => after = "line" /\ pend[1].blk.content = <<>>
        /\ Kept \subseteq DOMAIN pend[1].blk
        /\ NoParaEarly'
        /\ pend[1].type = "para" => pc' \in {"line", "add"}
    <3>1. \A i \in 1..Len(pend) : /\ pend[i].type = "para" => after = "line"
                                                             /\ pend[i].blk.content = <<>>
                                  /\ Kept \subseteq DOMAIN pend[i].blk
      BY <1>1, <2>1, DatedFacts DEF NoParaEarly, PendFields, Opening
    <3>2. CASE \E b : pend = <<b>>
      <4>1. PICK b : pend = <<b>>
        BY <3>2
      <4>2. pc' # "add" /\ pc' # "close" /\ Len(pend) = 1
        BY <2>1, <4>1
      <4>. QED
        BY <2>1, <3>1, <4>2 DEF NoParaEarly, Opening
    <3>3. CASE \E b, c : pend = <<b, c>>
      <4>1. PICK b, c : pend = <<b, c>>
        BY <3>3
      <4>2. Len(pend) = 2 /\ pend' = <<c>> /\ c = pend[2] /\ after' = after
        BY <2>1, <4>1
      <4>3. \A i \in 1..Len(pend') : pend'[i].type = "para" => after' = "line"
                                                            /\ pend'[i].blk.content = <<>>
        BY <3>1, <4>2
      <4>. QED
        BY <2>1, <3>1, <4>2, <4>3 DEF NoParaEarly
    <3>. QED
      BY <2>2, <3>2, <3>3
  <2>4. opened.content = pend[1].blk.content
    BY <2>3 DEF Kept
  <2>. HIDE DEF opened
  <2>5. /\ new \in Node /\ new \notin 1..used /\ 1..used \subseteq Node /\ used \in Node
        /\ tip \in Node /\ tip # new /\ DOMAIN blk = Node /\ DOMAIN type = Node
        /\ open \subseteq 1..used /\ new \notin open
    BY <1>1, <2>1, OpenFacts, DatedFacts, MaxNodesAssumption DEF Node, Shape, BlkFields
  <2>6. tree'.parent = [tree.parent EXCEPT ![new] = tip] /\ DOMAIN tree.parent = Node
    <3>1. /\ tree \in Tree /\ tree.parent[new] = Nil /\ tree.prev[new] = Nil
          /\ tree.next[new] = Nil
      BY <1>1, <2>5, NodeFacts DEF Shape, LinksAgree, Node
    <3>. QED
      BY <2>1, <2>5, <3>1, AppendFresh DEF Tree
  <2>7. EndsDated'
    <3>1. \A n \in Linked' \ open' : n \in Linked \ open /\ blk'[n] = blk[n]
      <4>. TAKE n \in Linked' \ open'
      <4>1. n \in 1..used' /\ n # new /\ (n = Doc \/ tree'.parent[n] # Nil) /\ n \notin open
        BY <2>1 DEF Linked
      <4>2. n \in 1..used
        BY <2>1, <2>5, <4>1 DEF Node
      <4>. QED
        BY <2>1, <2>5, <2>6, <4>1, <4>2 DEF Linked
    <3>. QED
      BY <3>1 DEF EndsDated, DatedIInv
  <2>8. Runs'
    <3>. SUFFICES ASSUME NEW n \in Node, type'[n] = "para"
                  PROVE  /\ IsRun(blk'[n].content)
                         /\ n \notin open' /\ blk'[n].content # <<>> =>
                              blk'[n].end = Last(blk'[n].content).at
      BY DEF Runs
    <3>1. CASE n = new
      <4>1. blk'[n].content = <<>>
        BY <2>1, <2>3, <2>4, <2>5, <3>1
      <4>. QED
        BY <4>1, EmptyRun
    <3>2. CASE n # new
      BY <1>1, <2>1, <2>5, <3>2 DEF Runs
    <3>. QED
      BY <3>1, <3>2
  <2>9. lineNo' = lineNo /\ Mid'
    BY <2>1 DEF lineNo, Mid
  <2>10. Lengths'
    BY <1>1, <2>1, <2>9 DEF Lengths, Mid
  <2>11. type'[tip'] = "para" => blk'[tip'].content = <<>> /\ pc' \in {"line", "add"}
    BY <2>1, <2>3, <2>4, <2>5
  <2>12. ParaLengths' /\ TipText'
    BY <2>11 DEF ParaLengths, TipText
  <2>13. AtBody'
    BY <2>1 DEF AtBody
  <2>. QED
    BY <2>3, <2>7, <2>8, <2>10, <2>12, <2>13 DEF Dated, Clock
<1>. QED
  BY <1>2, <1>3, <1>4 DEF Open

LEMMA FinishDated ==
  ASSUME DatedIInv, Finish
  PROVE  Dated
<1>1. /\ Shape /\ lineNo \in Nat /\ Lengths /\ ParaLengths /\ TipText /\ Runs
  BY DatedFacts DEF DatedIInv, Clock
<1>2. CASE EndOfInput
  <2>1. /\ UNCHANGED <<tree, type, open, blk, used, tip, input, lastLen, prevLen, lenBefore>>
        /\ pc = "read" /\ pc' = "finish"
    BY <1>2 DEF EndOfInput, treeVars, lenVars
  <2>2. ~Mid /\ ~Mid' /\ lineNo' = lineNo /\ ~Opening'
    BY <2>1 DEF Mid, lineNo, Opening
  <2>3. Lengths' /\ AtBody' /\ NoParaEarly' /\ ParaLengths'
    BY <1>1, <2>1, <2>2 DEF Lengths, AtBody, NoParaEarly, ParaLengths
  <2>4. TipText'
    BY <1>1, <2>1, <2>2 DEF TipText
  <2>. QED
    BY <2>1, <2>3, <2>4, NothingDated DEF Dated, Clock
<1>3. CASE FinishOne
  <2>1. /\ tip # Nil /\ FinalizeWith(tip, blk[tip].content, lineNo, lastLen) /\ pc = "finish"
        /\ UNCHANGED <<input, lastLen, prevLen, lenBefore, pc>>
    <3>1. pc = "finish"
      BY <1>3 DEF FinishOne
    <3>. QED
      BY <1>3, <3>1 DEF FinishOne, Finalize, lenVars
  <2>2. ~Mid /\ ~Mid' /\ lineNo' = lineNo /\ ~Opening' /\ lastLen = lineNo
    BY <1>1, <2>1 DEF Mid, lineNo, Opening, Lengths
  <2>3. type[tip] = "para" =>
          IsRun(blk[tip].content) /\ (blk[tip].content # <<>> =>
                                        Last(blk[tip].content).at = lineNo)
    BY <1>1, <2>1, <2>2, OpenFacts DEF Runs, TipText
  <2>4. EndsDated' /\ Runs' /\ (tip' # Nil => type'[tip'] # "para")
    BY <2>1, <2>2, <2>3, CloseDated
  <2>5. Lengths' /\ AtBody' /\ NoParaEarly'
    BY <1>1, <2>1, <2>2 DEF Lengths, AtBody, NoParaEarly
  <2>6. ParaLengths' /\ TipText'
    BY <2>4 DEF ParaLengths, TipText
  <2>. QED
    BY <2>4, <2>5, <2>6 DEF Dated, Clock
<1>4. CASE MarkTasks
  <2>. DEFINE firsts    == {tree.first[m] : m \in Tasks}
              marked(n) == [blk[n] EXCEPT !.task = TRUE]
              text(n)   == LET toks == blk[n].content[1].toks
                           IN  Rest(toks, NextNonspace(toks, [off |-> 1, col |-> 1,
                                                              part |-> FALSE]).pos)
              bare(n)   == [blk[n] EXCEPT !.content[1].toks = text(n)]
  <2>1. /\ pc' = "done" /\ tip = Nil /\ pc = "finish"
        /\ UNCHANGED <<tree, type, open, used, tip, input>>
        /\ blk' = IF ~Gfm THEN blk
                  ELSE [n \in Node |-> CASE n \in Tasks -> marked(n)
                                         [] n \in firsts -> bare(n)
                                         [] OTHER -> blk[n]]
    BY <1>4 DEF MarkTasks
  <2>2. \A n \in firsts : blk[n].content # <<>> /\ type[n] = "para"
    BY DEF Tasks
  <2>3. /\ \A n \in Node : /\ Kept \subseteq DOMAIN blk[n]
                           /\ type[n] = "para" => IsRun(blk[n].content)
        /\ DOMAIN blk = Node
    BY <1>1, DatedFacts DEF BlkFields, Runs
  <2>4. \A n \in Node : /\ marked(n).content = blk[n].content
                        /\ marked(n).end = blk[n].end /\ marked(n).of = blk[n].of
    BY <2>3 DEF Kept
  <2>5. \A n \in Node : /\ bare(n).end = blk[n].end /\ bare(n).of = blk[n].of
                        /\ bare(n).content = [blk[n].content EXCEPT ![1].toks = text(n)]
    BY <2>3 DEF Kept
  <2>. HIDE DEF marked, bare, firsts, text
  <2>6. \A n \in Node : /\ blk'[n].end = blk[n].end /\ blk'[n].of = blk[n].of
                        /\ \/ blk'[n].content = blk[n].content
                           \/ /\ type[n] = "para" /\ blk[n].content # <<>>
                              /\ blk'[n].content = [blk[n].content EXCEPT ![1].toks = text(n)]
    <3>1. \A n \in Node : blk'[n] \in {blk[n], marked(n)} \/ (n \in firsts /\ blk'[n] = bare(n))
      BY <2>1, <2>3
    <3>. QED
      BY <2>2, <2>4, <2>5, <3>1
  <2>7. EndsDated'
    <3>1. Linked' = Linked /\ Linked \subseteq Node
      BY <1>1, <2>1, NodeFacts DEF Linked, Shape
    <3>. SUFFICES ASSUME NEW n \in Linked \ open PROVE blk'[n].of = blk'[n].end
      BY <2>1, <3>1 DEF EndsDated
    <3>. QED
      BY <2>6, <3>1 DEF EndsDated, DatedIInv
  <2>8. Runs'
    <3>. SUFFICES ASSUME NEW n \in Node, type[n] = "para"
                  PROVE  /\ IsRun(blk'[n].content)
                         /\ n \notin open /\ blk'[n].content # <<>> =>
                              blk'[n].end = Last(blk'[n].content).at
      BY <2>1 DEF Runs
    <3>1. CASE blk'[n].content = blk[n].content
      BY <1>1, <2>6, <3>1 DEF Runs
    <3>2. CASE /\ blk[n].content # <<>>
               /\ blk'[n].content = [blk[n].content EXCEPT ![1].toks = text(n)]
      <4>1. /\ IsRun(blk'[n].content) /\ blk'[n].content # <<>>
            /\ Last(blk'[n].content).at = Last(blk[n].content).at
        BY <2>3, <3>2, RunUnmarked
      <4>. QED
        BY <1>1, <2>6, <3>2, <4>1 DEF Runs
    <3>. QED
      BY <2>6, <3>1, <3>2
  <2>9. ~Mid' /\ ~Opening'
    BY <2>1 DEF Mid, Opening
  <2>10. Clock'
    BY <1>1, <2>1, <2>9 DEF Clock, Lengths, AtBody, NoParaEarly, ParaLengths, TipText
  <2>. QED
    BY <2>7, <2>8, <2>10 DEF Dated
<1>. QED
  BY <1>2, <1>3, <1>4 DEF Finish

LEMMA ConvertDated ==
  ASSUME DatedIInv, Convert
  PROVE  Dated
<1>1. /\ pc \in {"setext", "table"} /\ Shape /\ Pointers /\ type[cont] = "para"
      /\ cont \in OnSpine /\ tip # Nil /\ lineNo \in Nat /\ Mid
      /\ Lengths /\ ParaLengths /\ TipText /\ Runs /\ EndsDated
  <2>1. pc \in {"setext", "table"}
    BY DEF Convert, SetextFalls, SetextHeading, SplitParagraph, ReplaceParagraph, OpenTable
  <2>. QED
    BY <2>1, DatedFacts DEF DatedIInv, Clock, Pointers, Mid
<1>2. cont = tip /\ tip # Doc
  BY <1>1, LeafIsTip DEF Containers
<1>3. /\ tip \in Node /\ tip \in open /\ 1..used \subseteq Node /\ DOMAIN blk = Node
      /\ tree.parent[tip] \in Node /\ tree.parent[tip] # Nil /\ tree.next[tip] = Nil
      /\ tree \in Tree /\ LinksAgree /\ DOMAIN tree.parent = Node /\ DOMAIN type = Node
      /\ used \in Node /\ IsRun(blk[tip].content)
      /\ \A n \in Node : Kept \subseteq DOMAIN blk[n]
  BY <1>1, <1>2, OpenFacts, DatedFacts DEF Shape, Tree, BlkFields, Runs
<1>4. type[tree.parent[tip]] # "para"
  BY <1>1, <1>2, <1>3, TipBelow, NodeFacts DEF Shape, LeavesAreBare, Containers
<1>5. UNCHANGED input => lineNo' = lineNo
  BY DEF lineNo
<1>6. CASE SetextFalls
  <2>1. /\ UNCHANGED <<tree, type, open, used, tip, input, lastLen, prevLen, lenBefore>>
        /\ pc = "setext" /\ pc' = "starts" /\ blk' = [blk EXCEPT ![tip].content = <<>>]
    BY <1>2, <1>6 DEF SetextFalls, lenVars
  <2>2. /\ \A n \in Node : n # tip => blk'[n] = blk[n]
        /\ blk'[tip].content = <<>>
    BY <1>3, <2>1 DEF Kept
  <2>3. EndsDated'
    <3>. SUFFICES ASSUME NEW n \in Linked \ open PROVE blk'[n].of = blk'[n].end
      BY <2>1 DEF EndsDated, Linked
    <3>1. n \in Node /\ n # tip
      BY <1>3 DEF Linked
    <3>. QED
      BY <1>1, <2>2, <3>1 DEF EndsDated
  <2>4. Runs'
    <3>. SUFFICES ASSUME NEW n \in Node, type[n] = "para"
                  PROVE  /\ IsRun(blk'[n].content)
                         /\ n \notin open /\ blk'[n].content # <<>> =>
                              blk'[n].end = Last(blk'[n].content).at
      BY <2>1 DEF Runs
    <3>. QED
      BY <1>1, <2>2, EmptyRun DEF Runs
  <2>5. Mid' /\ ~Opening'
    BY <2>1 DEF Mid, Opening
  <2>6. Lengths' /\ AtBody' /\ NoParaEarly'
    BY <1>1, <1>5, <2>1, <2>5 DEF Lengths, AtBody, NoParaEarly
  <2>7. ParaLengths'
    BY <1>1, <1>5, <2>1 DEF ParaLengths
  <2>8. TipText'
    BY <2>1, <2>2 DEF TipText
  <2>. QED
    BY <2>3, <2>4, <2>6, <2>7, <2>8 DEF Dated, Clock
<1>7. CASE SetextHeading
  <2>. DEFINE new    == used + 1
              left   == AfterDefinitions(blk[tip].content, Definitions(blk[tip].content))
              opened == [NewBlk EXCEPT !.start = blk[tip].start, !.content = left]
  <2>1. /\ used < MaxNodes /\ used' = new /\ open' = open \cup {new} /\ pc' = "text"
        /\ tip' = new /\ type' = [type EXCEPT ![new] = "heading"]
        /\ tree' = Unlink(InsertAfter(tree, tip, new), tip)
        /\ blk' = [blk EXCEPT ![tip].content = <<>>, ![new] = opened]
        /\ UNCHANGED <<input, lastLen, prevLen, lenBefore>>
    BY <1>2, <1>7 DEF SetextHeading, lenVars
  <2>2. new \in Node /\ new \notin 1..used /\ tip # new /\ tip \in 1..used /\ new > used
    BY <1>1, <1>3, <2>1, OpenFacts, MaxNodesAssumption DEF Node
  <2>3. \A n \in Node : tree'.parent[n] = CASE n = new -> tree.parent[tip]
                                            [] n = tip -> Nil
                                            [] OTHER -> tree.parent[n]
    <3>1. /\ tree.parent[new] = Nil /\ tree.prev[new] = Nil /\ tree.next[new] = Nil
          /\ \A n \in Node : tree.prev[n] # new
      <4>1. \A n \in Node : tree.prev[n] = new => tree.next[new] = n
        BY <1>3, <2>2, NodeFacts DEF LinksAgree
      <4>. QED
        BY <1>3, <2>2, <4>1, NodeFacts DEF LinksAgree
    <3>. QED
      BY <1>3, <2>1, <2>2, <3>1, ReplaceLast
  <2>. HIDE DEF opened
  <2>4. /\ \A n \in Node : n # tip /\ n # new => blk'[n] = blk[n]
        /\ blk'[tip].content = <<>>
    <3>. DEFINE f == [blk EXCEPT ![tip].content = <<>>]
    <3>1. DOMAIN f = Node /\ (\A n \in Node : n # tip => f[n] = blk[n]) /\ f[tip].content = <<>>
      BY <1>3 DEF Kept
    <3>2. blk' = [f EXCEPT ![new] = opened]
      BY <2>1
    <3>. HIDE DEF f
    <3>. QED
      BY <1>3, <2>2, <3>1, <3>2
  <2>5. EndsDated'
    <3>. SUFFICES ASSUME NEW n \in Linked' \ open' PROVE blk'[n].of = blk'[n].end
      BY DEF EndsDated
    <3>1. n \in 1..used' /\ n # new /\ n \notin open /\ (n = Doc \/ tree'.parent[n] # Nil)
      BY <2>1 DEF Linked
    <3>2. n \in 1..used /\ n \in Node /\ n # tip
      BY <1>3, <2>1, <3>1 DEF Node
    <3>3. n \in Linked
      BY <2>3, <3>1, <3>2 DEF Linked
    <3>. QED
      BY <1>1, <2>4, <3>1, <3>2, <3>3 DEF EndsDated
  <2>6. Runs'
    <3>. SUFFICES ASSUME NEW n \in Node, type'[n] = "para"
                  PROVE  /\ IsRun(blk'[n].content)
                         /\ n \notin open' /\ blk'[n].content # <<>> =>
                              blk'[n].end = Last(blk'[n].content).at
      BY DEF Runs
    <3>1. n # new /\ type[n] = "para"
      BY <1>3, <2>1, <2>2
    <3>. QED
      BY <1>1, <2>1, <2>4, <3>1, EmptyRun DEF Runs
  <2>7. Mid' /\ ~Opening' /\ type'[tip'] # "para"
    BY <1>3, <2>1, <2>2 DEF Mid, Opening
  <2>8. Clock'
    BY <1>1, <1>5, <2>1, <2>7 DEF Clock, Lengths, AtBody, NoParaEarly, ParaLengths, TipText
  <2>. QED
    BY <2>5, <2>6, <2>8 DEF Dated
<1>8. CASE SplitParagraph \/ ReplaceParagraph
  <2>1. /\ pc = "table" /\ pc' = "add" /\ NoParaEarly'
        /\ UNCHANGED <<input, lastLen, prevLen, lenBefore>>
    <3>. DEFINE cols   == DelimiterColumns(line, nx.pos)
                header == WithRow([rows |-> <<>>, padded |-> padded], cols,
                                  lastAdded.toks, lineNo - 1, lineNo - 1)
                data   == [NewBlk EXCEPT !.cols = cols, !.rows = header.rows]
    <3>1. /\ pend' = <<Block("table", data)>> /\ pc = "table" /\ pc' = "add"
          /\ UNCHANGED <<input, lastLen, prevLen, lenBefore>>
      BY <1>8 DEF SplitParagraph, ReplaceParagraph, OpenTable, lenVars
    <3>. HIDE DEF data
    <3>. QED
      BY <3>1 DEF NoParaEarly, Block
  <2>2. EndsDated' /\ Runs' /\ type'[tip'] # "para"
    <3>1. CASE SplitParagraph
      <4>. DEFINE c == blk[tip].content
      <4>1. /\ Len(c) > 1
            /\ FinalizeWith(tip, Front(c), lineNo - 2, lineNo - 2)
        BY <1>1, <1>2, <2>1, <3>1 DEF SplitParagraph, LineAboveHeader, LengthAboveHeader, ParaLengths
      <4>2. c # <<>> /\ Len(c) > 0
        <5>1. Len(c) \in Nat
          BY <1>3 DEF IsRun, IsSeq
        <5>. QED
          BY <4>1, <5>1
      <4>3. Last(c).at = lineNo - 1
        BY <1>1, <1>2, <4>2 DEF TipText
      <4>4. IsRun(Front(c)) /\ (Front(c) # <<>> => Last(Front(c)).at = lineNo - 2)
        BY <1>1, <1>3, <4>2, <4>3, RunFront
      <4>. HIDE DEF c
      <4>5. EndsDated' /\ Runs' /\ UNCHANGED type /\ (tip' # Nil => type[tip'] # "para")
        BY <1>1, <4>1, <4>4, CloseDated
      <4>6. tip' # Nil
        BY <1>3, <4>1 DEF FinalizeWith
      <4>. QED
        BY <4>5, <4>6
    <3>2. CASE ReplaceParagraph
      <4>1. UNCHANGED <<type, open, blk, used>> /\ tree' = Unlink(tree, tip)
            /\ tip' = tree.parent[tip]
        BY <1>2, <3>2 DEF ReplaceParagraph
      <4>2. tree'.parent = [tree.parent EXCEPT ![tip] = Nil]
        BY <1>3, <4>1, UnlinkLast
      <4>3. \A n \in Linked' : n \in Linked
        BY <1>2, <1>3, <4>1, <4>2 DEF Linked
      <4>4. EndsDated'
        BY <1>1, <4>1, <4>3 DEF EndsDated
      <4>5. Runs'
        BY <1>1, <4>1 DEF Runs
      <4>. QED
        BY <1>4, <4>1, <4>4, <4>5
    <3>. QED
      BY <1>8, <3>1, <3>2
  <2>3. Mid'
    BY <2>1 DEF Mid
  <2>4. Clock'
    BY <1>1, <1>5, <2>1, <2>2, <2>3 DEF Clock, Lengths, AtBody, ParaLengths, TipText
  <2>. QED
    BY <2>2, <2>4 DEF Dated
<1>. QED
  BY <1>6, <1>7, <1>8 DEF Convert

LEMMA TextDated ==
  ASSUME DatedIInv, Text
  PROVE  Dated
<1>1. /\ Shape /\ Pointers /\ tip # Nil /\ lineNo \in Nat /\ Mid /\ lineNo > 0
      /\ Lengths /\ ParaLengths /\ TipText /\ Runs /\ EndsDated /\ AtBody
      /\ lastLen = lineNo - 1 /\ lenBefore = lineNo - 1
  <2>1. pc \in {"text", "body", "line"}
    BY DEF Text, LazyLine, CloseForText, GiveToBlock, OpenParagraph, NoText, TakeLine,
           TakeLastHtmlLine
  <2>2. Mid
    BY <2>1 DEF Mid
  <2>. QED
    BY <2>1, <2>2, DatedFacts DEF DatedIInv, Clock, Pointers, Lengths
<1>2. UNCHANGED input => lineNo' = lineNo
  BY DEF lineNo
<1>3. CASE LazyLine \/ TakeLine
  <2>1. /\ UNCHANGED <<tree, type, open, used, tip, input>> /\ pc' = "read"
        /\ blk' = [blk EXCEPT ![tip].content = Append(@, LineText)]
        /\ lastLen' = lineNo /\ prevLen' = lenBefore /\ UNCHANGED lenBefore
    BY <1>3 DEF LazyLine, TakeLine, AddLine, EndLine
  <2>2. /\ tip \in Node /\ tip \in open /\ 1..used \subseteq Node /\ DOMAIN blk = Node
        /\ \A n \in Node : Kept \subseteq DOMAIN blk[n]
    BY <1>1, OpenFacts, DatedFacts DEF BlkFields
  <2>3. /\ \A n \in Node : n # tip => blk'[n] = blk[n]
        /\ blk'[tip].content = Append(blk[tip].content, LineText)
    BY <2>1, <2>2 DEF Kept
  <2>4. "at" \in DOMAIN LineText /\ LineText.at = lineNo
    BY DEF LineText
  <2>5. type[tip] = "para" => /\ IsRun(blk'[tip].content)
                              /\ Last(blk'[tip].content).at = lineNo
    <3>. SUFFICES ASSUME type[tip] = "para"
                  PROVE  IsRun(blk'[tip].content) /\ Last(blk'[tip].content).at = lineNo
      OBVIOUS
    <3>. DEFINE c == blk[tip].content
    <3>1. IsRun(c) /\ (c # <<>> => Last(c).at = lineNo - 1)
      BY <1>1, <2>2 DEF Runs, TipText
    <3>2. c # <<>> => Last(c).at + 1 = LineText.at
      BY <1>1, <2>4, <3>1
    <3>3. LineText.at \in Nat
      BY <1>1, <2>4
    <3>. HIDE DEF c
    <3>4. IsRun(Append(c, LineText)) /\ Last(Append(c, LineText)) = LineText
      BY <2>4, <3>1, <3>2, <3>3, RunAppend
    <3>. QED
      BY <2>3, <2>4, <3>4 DEF c
  <2>6. EndsDated'
    <3>. SUFFICES ASSUME NEW n \in Linked \ open PROVE blk'[n].of = blk'[n].end
      BY <2>1 DEF EndsDated, Linked
    <3>1. n \in Node /\ n # tip
      BY <2>2 DEF Linked
    <3>. QED
      BY <1>1, <2>3, <3>1 DEF EndsDated
  <2>7. Runs'
    <3>. SUFFICES ASSUME NEW n \in Node, type[n] = "para"
                  PROVE  /\ IsRun(blk'[n].content)
                         /\ n \notin open /\ blk'[n].content # <<>> =>
                              blk'[n].end = Last(blk'[n].content).at
      BY <2>1 DEF Runs
    <3>. QED
      BY <1>1, <2>2, <2>3, <2>5 DEF Runs
  <2>8. ~Mid' /\ ~Opening'
    BY <2>1 DEF Mid, Opening
  <2>9. Lengths' /\ AtBody' /\ NoParaEarly' /\ ParaLengths'
    BY <1>1, <1>2, <2>1, <2>8 DEF Lengths, AtBody, NoParaEarly, ParaLengths
  <2>10. TipText'
    BY <1>2, <2>1, <2>5, <2>8 DEF TipText
  <2>. QED
    BY <2>6, <2>7, <2>9, <2>10 DEF Dated, Clock
<1>4. CASE CloseForText \/ GiveToBlock \/ OpenParagraph
  <2>1. /\ UNCHANGED <<tree, type, open, blk, used, tip, input, lastLen, prevLen, lenBefore>>
        /\ \/ pc = "text" /\ pc' = "close" /\ goal' = "body"
           \/ pc' = "line"
           \/ pc' = "add" /\ after' = "line" /\ pend' = <<Block("para", NewBlk)>>
    BY <1>4 DEF CloseForText, GiveToBlock, OpenParagraph, MarkBlank, treeVars, lenVars
  <2>2. Mid'
    BY <2>1 DEF Mid
  <2>3. Lengths' /\ AtBody'
    BY <1>1, <1>2, <2>1, <2>2 DEF Lengths, AtBody
  <2>4. ParaLengths'
    BY <1>1, <1>2, <2>1 DEF ParaLengths
  <2>5. TipText'
    BY <1>1, <1>2, <2>1, <2>2 DEF TipText
  <2>6. NoParaEarly'
    BY <2>1 DEF NoParaEarly, Opening, Block, NewBlk
  <2>. QED
    BY <2>1, <2>3, <2>4, <2>5, <2>6, NothingDated DEF Dated, Clock
<1>5. CASE NoText
  <2>1. /\ UNCHANGED <<tree, type, open, blk, used, tip, input>> /\ pc = "body" /\ pc' = "read"
        /\ lastLen' = lineNo /\ prevLen' = lenBefore /\ UNCHANGED lenBefore
        /\ ~AcceptsLines(type[cont])
    BY <1>5 DEF NoText, EndLine, MarkBlank
  <2>2. type'[tip'] # "para"
    BY <1>1, <2>1 DEF AtBody, AcceptsLines
  <2>3. ~Mid' /\ ~Opening'
    BY <2>1 DEF Mid, Opening
  <2>4. Clock'
    BY <1>1, <1>2, <2>1, <2>2, <2>3 DEF Clock, Lengths, AtBody, NoParaEarly, ParaLengths, TipText
  <2>. QED
    BY <2>1, <2>4, NothingDated DEF Dated
<1>6. CASE TakeLastHtmlLine
  <2>1. /\ pc = "line" /\ type[cont] = "html" /\ pc' = "read" /\ UNCHANGED input
        /\ lastLen' = lineNo /\ prevLen' = lenBefore /\ UNCHANGED lenBefore
    BY <1>6 DEF TakeLastHtmlLine, EndsHtml, EndLine
  <2>2. cont = tip
    BY <1>1, <2>1, LeafIsTip DEF Pointers, Containers
  <2>3. PICK content : FinalizeWith(tip, content, lineNo, lineNo)
    BY <1>6, <2>2 DEF TakeLastHtmlLine
  <2>4. EndsDated' /\ Runs' /\ (tip' # Nil => type'[tip'] # "para")
    BY <1>1, <2>1, <2>2, <2>3, CloseDated
  <2>5. ~Mid' /\ ~Opening'
    BY <2>1 DEF Mid, Opening
  <2>6. Clock'
    BY <1>1, <1>2, <2>1, <2>4, <2>5 DEF Clock, Lengths, AtBody, NoParaEarly, ParaLengths, TipText
  <2>. QED
    BY <2>4, <2>6 DEF Dated
<1>. QED
  BY <1>3, <1>4, <1>5, <1>6 DEF Text

LEMMA DatedStutter ==
  ASSUME DatedIInv, UNCHANGED vars
  PROVE  Dated
<1>1. UNCHANGED <<tree, type, open, blk, used, tip, cont, pend, goal, after, pc, input,
                  lastLen, prevLen, lenBefore>>
  BY DEF vars, treeVars, startVars, lenVars
<1>2. Clock'
  BY <1>1 DEF DatedIInv, Clock, Lengths, ParaLengths, NoParaEarly, AtBody, TipText, Mid, Opening,
              lineNo
<1>. QED
  BY <1>1, <1>2, NothingDated DEF Dated

LEMMA StepDated == DatedIInv /\ [Next]_vars => DatedIInv'
<1>1. SUFFICES ASSUME DatedIInv, [Next]_vars PROVE ClosedIInv' /\ Dated
  BY DEF DatedIInv, Dated
<1>2. ClosedIInv'
  BY <1>1, StepKeeps DEF DatedIInv
<1>. QED
  BY <1>1, <1>2, ReadLineDated, WalkDated, StartDated, OpenDated, ConvertDated, TextDated,
     FinishDated, DatedStutter DEF Next, Done

LEMMA DatedInit == Init => DatedIInv
<1>1. SUFFICES ASSUME Init PROVE Clock /\ EndsDated /\ Runs
  BY ContainedInit, InitFields DEF DatedIInv, ClosedIInv
<1>2. Clock
  <2>1. input = <<>> /\ pc = "read" /\ lastLen = 0 /\ type[tip] = "doc"
    BY <1>1, NodeFacts DEF Init
  <2>2. input \in Seq(Lines) /\ lineNo = 0
    BY <2>1 DEF lineNo
  <2>. QED
    BY <2>1, <2>2 DEF Clock, Lengths, ParaLengths, NoParaEarly, AtBody, TipText, Mid, Opening
<1>3. Linked \ open = {}
  BY <1>1, NodeFacts DEF Init, Linked
<1>4. EndsDated /\ Runs
  BY <1>1, <1>3 DEF Init, EndsDated, Runs
<1>. QED
  BY <1>2, <1>4

\* Whatever lines a document holds, the end column of every closed block is
\* measured on the line the block ends on: last_line_length and
\* prev_line_length, each a step behind the line at hand, are read at no step
\* that has moved them on, and a list that copies its last child's end copies
\* both of its parts.
THEOREM EndsDatedSafe == Spec => []EndsDated
<1>1. Init => DatedIInv
  BY DatedInit
<1>2. DatedIInv /\ [Next]_vars => DatedIInv'
  BY StepDated
<1>3. DatedIInv => EndsDated
  BY DEF DatedIInv
<1>. QED
  BY <1>1, <1>2, <1>3, PTL DEF Spec

\* Whatever lines a document holds, the text of a paragraph is a run of
\* consecutive lines, also where lines reach it lazily, and once it is closed
\* the last of them is the line it ends on, also when a table took the next.
THEOREM RunsSafe == Spec => []ParagraphsAreRuns
<1>1. Init => DatedIInv
  BY DatedInit
<1>2. DatedIInv /\ [Next]_vars => DatedIInv'
  BY StepDated
<1>3. DatedIInv => ParagraphsAreRuns
  <2>1. SUFFICES ASSUME DatedIInv, NEW n \in Linked, type[n] = "para", blk[n].content # <<>>
                 PROVE  /\ \A i \in 1..(Len(blk[n].content) - 1) :
                             blk[n].content[i+1].at = blk[n].content[i].at + 1
                        /\ n \notin open => blk[n].end = blk[n].content[Len(blk[n].content)].at
    BY DEF ParagraphsAreRuns
  <2>2. n \in Node
    BY <2>1, DatedFacts, OpenFacts, NodeFacts DEF Linked, Shape
  <2>. QED
    BY <2>1, <2>2 DEF DatedIInv, Runs, IsRun, Last
<1>. QED
  BY <1>1, <1>2, <1>3, PTL DEF Spec

(***************************************************************************)
(* The children of a block                                                 *)
(***************************************************************************)
\* Along `next` the arena numbers rise.
Rises(t) == \A n \in Node : t.next[n] # Nil => n < t.next[n]

\* The recursion of Children has a solution when they do.
LEMMA ChildrenEquation ==
  ASSUME NEW t \in Tree, Rises(t)
  PROVE  \E f : /\ f[Nil] = <<>>
                /\ \A n \in Node : f[n] = <<n>> \o f[t.next[n]]
                /\ \A p : Children(t, p) = f[t.first[p]]
<1>. DEFINE Part(m)  == {Nil} \cup m..MaxNodes
            From(f, S) == [n \in S |-> IF n = Nil THEN <<>> ELSE <<n>> \o f[t.next[n]]]
            P(m)     == \E f : f = From(f, Part(m))
            Good     == {m \in 1..(MaxNodes + 1) : P(m)}
<1>1. MaxNodes \in Nat /\ MaxNodes >= 1
  BY MaxNodesAssumption
<1>2. Good # {}
  <2>. DEFINE f == [n \in {Nil} |-> <<>>]
  <2>1. Part(MaxNodes + 1) = {Nil}
    BY <1>1
  <2>2. f = From(f, {Nil})
    OBVIOUS
  <2>3. P(MaxNodes + 1)
    <3>. HIDE DEF f, From, Part
    <3>. QED
      BY <2>1, <2>2
  <2>. HIDE DEF P
  <2>. QED
    BY <1>1, <2>3
<1>3. PICK m \in Good : \A k \in Good : m <= k
  <2>1. Good \subseteq Nat
    BY <1>1
  <2>. HIDE DEF Good
  <2>. QED
    BY <1>2, <2>1, LeastNatural
<1>4. m \in 1..(MaxNodes + 1) /\ P(m)
  <2>. HIDE DEF P
  <2>. QED
    BY <1>3
<1>5. m = 1
  <2>1. SUFFICES ASSUME m # 1 PROVE FALSE
    OBVIOUS
  <2>. DEFINE c == m - 1
  <2>2. c \in Node /\ c \in 1..(MaxNodes + 1) /\ c < m /\ m \in Int /\ c \in Int
    BY <1>1, <1>4, <2>1 DEF Node
  <2>3. PICK f : f = From(f, Part(m))
    BY <1>4
  <2>4. \A n \in Part(m) : f[n] = IF n = Nil THEN <<>> ELSE <<n>> \o f[t.next[n]]
    BY <2>3, Zenon
  <2>5. \A n \in Part(c) : n = c \/ n \in Part(m)
    BY <1>1, <2>2
  <2>6. c \in Part(c) /\ c # Nil /\ c \notin Part(m)
    BY <1>1, <2>2 DEF Node, Nil
  <2>7. \A n \in Part(c) : n # Nil => t.next[n] \in Part(m)
    <3>1. \A n \in Part(c) : n # Nil => n \in Node /\ c <= n
      BY <1>1, <2>2 DEF Node
    <3>2. \A n \in Node : t.next[n] \in Link
      BY DEF Tree
    <3>3. \A n \in Part(c) : n # Nil /\ t.next[n] # Nil => t.next[n] \in Node /\ n < t.next[n]
      BY <3>1, <3>2 DEF Rises, Link
    <3>. QED
      BY <1>1, <2>2, <3>1, <3>3 DEF Node
  <2>. DEFINE g == [n \in Part(c) |-> IF n = c THEN <<n>> \o f[t.next[n]] ELSE f[n]]
  <2>. HIDE DEF Part, c
  <2>8. \A n \in Part(c) : n # Nil => g[n] = <<n>> \o g[t.next[n]]
    <3>. TAKE n \in Part(c)
    <3>. HAVE n # Nil
    <3>1. t.next[n] \in Part(m) /\ t.next[n] # c
      BY <2>6, <2>7
    <3>2. t.next[n] \in Part(c)
      BY <2>2, <3>1 DEF Part, c
    <3>3. g[t.next[n]] = f[t.next[n]]
      BY <3>1, <3>2
    <3>4. g[n] = IF n = c THEN <<n>> \o f[t.next[n]] ELSE f[n]
      OBVIOUS
    <3>5. n # c => f[n] = <<n>> \o f[t.next[n]]
      BY <2>4, <2>5
    <3>. HIDE DEF g
    <3>. QED
      BY <3>3, <3>4, <3>5, Zenon
  <2>9. g[Nil] = <<>>
    BY <2>4, <2>6 DEF Part
  <2>10. g = From(g, Part(c))
    <3>1. g = [n \in Part(c) |-> g[n]]
      OBVIOUS
    <3>. HIDE DEF g
    <3>2. \A n \in Part(c) : g[n] = IF n = Nil THEN <<>> ELSE <<n>> \o g[t.next[n]]
      BY <2>8, <2>9, Zenon
    <3>. QED
      BY <3>1, <3>2, Zenon
  <2>11. P(c)
    <3>. HIDE DEF From, g
    <3>. QED
      BY <2>10
  <2>. HIDE DEF P
  <2>12. c \in Good
    BY <2>2, <2>11
  <2>. HIDE DEF Good
  <2>. QED
    BY <1>3, <2>2, <2>12
<1>6. Part(1) = Link
  BY DEF Link, Node
<1>. DEFINE from == CHOOSE f : f = From(f, Link)
<1>7. from = From(from, Link)
  <2>. HIDE DEF From, Part
  <2>. QED
    BY <1>4, <1>5, <1>6, Zenon
<1>8. \A p : Children(t, p) = from[t.first[p]]
  BY DEF Children
<1>. HIDE DEF from
<1>9. \A n \in Link : from[n] = IF n = Nil THEN <<>> ELSE <<n>> \o from[t.next[n]]
  BY <1>7, Zenon
<1>10. from[Nil] = <<>> /\ \A n \in Node : from[n] = <<n>> \o from[t.next[n]]
  BY <1>9, NodeFacts, Zenon DEF Link
<1>. QED
  BY <1>8, <1>10

\* A sequence of children of p, from n on, each the next of the one before.
Chain(t, p, n, s) ==
  /\ s \in Seq(Node) /\ Len(s) > 0 /\ s[1] = n
  /\ \A i \in 1..Len(s) : t.parent[s[i]] = p
  /\ \A i \in 1..(Len(s) - 1) : t.next[s[i]] = s[i+1]

LEMMA ChainGrows ==
  ASSUME NEW t, NEW p, NEW n \in Node, NEW m, NEW s, Chain(t, p, m, s),
         t.parent[n] = p, t.next[n] = m
  PROVE  Chain(t, p, n, <<n>> \o s)
<1>. DEFINE d == <<n>> \o s
<1>1. <<n>> \in Seq(Node) /\ s \in Seq(Node) /\ Len(s) \in Nat /\ Len(s) > 0
  BY DEF Chain
<1>2. /\ d \in Seq(Node) /\ Len(d) = Len(s) + 1 /\ d[1] = n
      /\ \A i \in 1..Len(s) : d[i+1] = s[i]
  BY <1>1
<1>. HIDE DEF d
<1>3. \A i \in 1..Len(d) : t.parent[d[i]] = p
  <2>. TAKE i \in 1..Len(d)
  <2>1. CASE i = 1
    BY <1>2, <2>1
  <2>2. CASE i # 1
    <3>1. i - 1 \in 1..Len(s) /\ (i - 1) + 1 = i
      BY <1>1, <1>2, <2>2
    <3>2. d[i] = s[i-1]
      BY <1>2, <3>1
    <3>. QED
      BY <3>1, <3>2 DEF Chain
  <2>. QED
    BY <2>1, <2>2
<1>4. \A i \in 1..(Len(d) - 1) : t.next[d[i]] = d[i+1]
  <2>. TAKE i \in 1..(Len(d) - 1)
  <2>0. i \in 1..Len(s) /\ d[i+1] = s[i]
    BY <1>1, <1>2
  <2>1. CASE i = 1
    <3>1. s[1] = m /\ d[i] = n
      BY <1>2, <2>1 DEF Chain
    <3>. QED
      BY <2>0, <2>1, <3>1
  <2>2. CASE i # 1
    <3>1. i - 1 \in 1..(Len(s) - 1) /\ i - 1 \in 1..Len(s) /\ (i - 1) + 1 = i
      BY <1>1, <2>0, <2>2
    <3>2. d[i] = s[i-1] /\ t.next[s[i-1]] = s[i]
      <4>1. t.next[s[i-1]] = s[(i-1)+1]
        BY <3>1 DEF Chain
      <4>. QED
        BY <1>2, <3>1, <4>1
    <3>. QED
      BY <2>0, <3>2
  <2>. QED
    BY <2>1, <2>2
<1>. QED
  BY <1>1, <1>2, <1>3, <1>4 DEF Chain, d

\* The children of p are its children, in the order of `next`.
LEMMA ChildrenChained ==
  ASSUME NEW t \in Tree, Rises(t), NEW p \in Node,
         t.first[p] # Nil => t.parent[t.first[p]] = p,
         \A n \in Node : t.next[n] # Nil => t.parent[t.next[n]] = t.parent[n]
  PROVE  Children(t, p) = <<>> \/ Chain(t, p, t.first[p], Children(t, p))
<1>1. PICK f : /\ f[Nil] = <<>>
               /\ \A n \in Node : f[n] = <<n>> \o f[t.next[n]]
               /\ \A q : Children(t, q) = f[t.first[q]]
  BY ChildrenEquation
<1>. DEFINE Bad == {n \in Node : t.parent[n] = p /\ ~Chain(t, p, n, f[n])}
<1>2. Bad = {}
  <2>1. SUFFICES ASSUME Bad # {} PROVE FALSE
    OBVIOUS
  <2>2. Bad \subseteq Nat /\ MaxNodes \in Nat /\ \A n \in Bad : n <= MaxNodes
    BY MaxNodesAssumption DEF Node
  <2>3. PICK m \in Bad : \A k \in Bad : k <= m
    <3>. HIDE DEF Bad
    <3>. QED
      BY <2>1, <2>2, GreatestBelow
  <2>4. m \in Node /\ t.parent[m] = p /\ ~Chain(t, p, m, f[m]) /\ t.next[m] \in Link
    BY <2>3 DEF Tree
  <2>5. f[m] = <<m>> \o f[t.next[m]]
    BY <1>1, <2>4
  <2>6. CASE t.next[m] = Nil
    <3>1. f[m] = <<m>>
      <4>1. f[m] = <<m>> \o <<>>
        BY <1>1, <2>5, <2>6
      <4>2. <<m>> \in Seq(Node) /\ <<m>> \o <<>> = <<m>>
        BY <2>4
      <4>. QED
        BY <4>1, <4>2
    <3>. QED
      BY <2>4, <3>1 DEF Chain
  <2>7. CASE t.next[m] # Nil
    <3>1. t.next[m] \in Node /\ m < t.next[m] /\ t.parent[t.next[m]] = p
      BY <2>4, <2>7 DEF Link, Rises
    <3>2. t.next[m] \notin Bad
      BY <2>2, <2>3, <3>1 DEF Node
    <3>3. Chain(t, p, t.next[m], f[t.next[m]])
      BY <3>1, <3>2
    <3>4. Chain(t, p, m, <<m>> \o f[t.next[m]])
      BY <2>4, <3>3, ChainGrows
    <3>. QED
      BY <2>4, <2>5, <3>4
  <2>. QED
    BY <2>6, <2>7
<1>3. t.first[p] \in Link
  BY DEF Tree
<1>4. CASE t.first[p] = Nil
  BY <1>1, <1>4
<1>5. CASE t.first[p] \in Node
  <2>1. t.first[p] # Nil
    BY <1>5, NodeFacts
  <2>2. t.first[p] \notin Bad /\ t.parent[t.first[p]] = p
    BY <1>2, <2>1
  <2>. QED
    BY <1>1, <1>5, <2>2
<1>. QED
  BY <1>3, <1>4, <1>5 DEF Link

\* Siblings were pushed in their order, and the first of them is the one with
\* no sibling before it.
Numbered ==
  /\ \A n \in Node : tree.next[n] # Nil => n < tree.next[n]
  /\ \A n \in Node : /\ tree.first[n] # Nil => /\ tree.parent[tree.first[n]] = n
                                              /\ tree.prev[tree.first[n]] = Nil
                     /\ tree.last[n] = Nil <=> tree.first[n] = Nil

\* The last line taken to its end.
Today == IF Mid THEN lineNo - 1 ELSE lineNo

\* What the fields of a block say of those of its parent and its neighbours.
Placed(n) ==
  /\ blk[n].start \in Int /\ blk[tree.parent[n]].start <= blk[n].start
  /\ blk[n].start <= lineNo
  /\ tree.prev[n] # Nil => blk[tree.prev[n]].end < blk[n].start
  /\ n \notin open => /\ blk[n].end \in Int
                      /\ blk[n].start <= blk[n].end /\ blk[n].end <= Today
                      /\ tree.parent[n] \notin open => blk[n].end <= blk[tree.parent[n]].end

InOrder == blk[Doc].start = 1 /\ \A n \in Linked \ {Doc} : Placed(n)

\* Until the unmatched blocks are closed, no block of the tree was opened on
\* the line at hand; and a paragraph that is underlined or split is older.
Fresh ==
  /\ pc = "walk" \/ (pc \in {"starts", "close", "text"} /\ ~allClosed) =>
       \A n \in Linked \ {Doc} : blk[n].start <= Today
  /\ (pc = "close" /\ goal \in {"setext", "table"}) \/ pc \in {"starts", "setext", "table"} =>
       (type[tip] = "para" => blk[tip].start <= Today)

\* A container opened on the line at hand has room for what the line opens in
\* it: none is closed on the line it starts on.
NewRoom ==
  /\ Opening /\ Room # Doc /\ blk[Room].start = lineNo =>
       CanContain(type[Room], pend[1].type)
  /\ pc \in {"starts", "close", "text", "body"} /\ cont # Doc /\ blk[cont].start = lineNo =>
       \/ type[cont] \in {"quote", "item"}
       \/ /\ pc = "close" => goal = "body"
          /\ pc # "starts"
          /\ AcceptsLines(type[cont]) \/ cur.off = Len(line)

\* What a start leaves of the line suits the block it opens last.
AfterFits ==
  /\ Opening =>
       /\ after = "starts" => pend[Len(pend)].type \in {"quote", "item"}
       /\ after = "text" => AcceptsLines(pend[Len(pend)].type) \/ cur.off = Len(line)
  /\ (pc = "close" /\ goal = "table") \/ pc = "table" => after = "text"

\* The line above is free for a table's header row.
TableRoom ==
  /\ pc = "close" /\ goal = "add" => \A i \in 1..Len(pend) : pend[i].type # "table"
  /\ pc = "add" /\ pend[1].type = "table" =>
       /\ type[tip] \in {"doc", "quote", "item"} /\ blk[tip].start <= lineNo - 1
       /\ tree.last[tip] # Nil => blk[tree.last[tip]].end < lineNo - 1

\* A paragraph starts no later than its text.
TextStarts ==
  tip # Nil /\ type[tip] = "para" /\ blk[tip].content # <<>> =>
    blk[tip].start <= blk[tip].content[1].at

Ready == Fresh /\ NewRoom /\ AfterFits /\ TableRoom /\ TextStarts

OrderIInv == DatedIInv /\ Numbered /\ InOrder /\ Ready

(***************************************************************************)
(* The numbers of siblings                                                 *)
(***************************************************************************)
\* A sibling before a block is closed, and stands under the same parent.
LEMMA PrevFacts ==
  ASSUME Shape, Numbered, NEW n \in Node, tree.prev[n] # Nil
  PROVE  LET m == tree.prev[n]
         IN  /\ m \in Node /\ m \in 1..used /\ m # n /\ m # Doc /\ m \notin open
             /\ tree.next[m] = n /\ tree.parent[m] = tree.parent[n] /\ tree.parent[m] # Nil
<1>. DEFINE m == tree.prev[n]
<1>1. m \in Node /\ LinksAgree /\ tree \in Tree /\ used \in Node
  BY DEF Shape, Tree, Link
<1>2. tree.next[m] = n /\ tree.parent[m] = tree.parent[n] /\ tree.parent[m] # Nil
  BY <1>1, NodeFacts DEF LinksAgree
<1>3. m # n
  BY <1>1, <1>2, NodeFacts DEF Numbered
<1>4. m # Doc
  BY <1>2 DEF Shape
<1>5. m \in 1..used
  BY <1>1, <1>2, NodeFacts DEF LinksAgree, Node
<1>6. m \notin open
  <2>1. SUFFICES ASSUME m \in open PROVE FALSE
    OBVIOUS
  <2>2. m \in OnSpine \ {Doc}
    BY <1>2, <1>4, <2>1 DEF OnSpine
  <2>3. tree.last[tree.parent[m]] = m
    BY <2>2 DEF Shape, SpineInv
  <2>4. tree.parent[m] \in Node /\ tree.last[tree.parent[m]] # Nil
    BY <1>1, <1>2, <2>3, NodeFacts DEF Tree, Link
  <2>5. tree.next[m] = Nil
    BY <1>1, <2>3, <2>4 DEF LinksAgree
  <2>. QED
    BY <1>2, <2>5, NodeFacts
<1>. QED
  BY <1>1, <1>2, <1>3, <1>4, <1>5, <1>6

\* The children of the tip are closed.
LEMMA TipKidClosed ==
  ASSUME Shape, tip # Nil, NEW n \in Node, tree.parent[n] = tip
  PROVE  n \notin open /\ n # Doc /\ n \in 1..used
<1>1. n # Doc
  BY DEF Shape
<1>2. n \in 1..used
  BY NodeFacts DEF Shape, LinksAgree, Node
<1>3. n \notin open
  <2>1. SUFFICES ASSUME n \in open PROVE FALSE
    OBVIOUS
  <2>2. n \in OnSpine \ {Doc}
    BY <1>1, <2>1 DEF OnSpine
  <2>. QED
    BY <2>1, <2>2 DEF Shape, SpineInv
<1>. QED
  BY <1>1, <1>2, <1>3

LEMMA NumberedSame ==
  ASSUME Numbered, tree' = tree
  PROVE  Numbered'
  BY DEF Numbered

LEMMA NumberedDrop ==
  ASSUME Shape, Numbered, tip # Nil, tip # Doc, tree' = Unlink(tree, tip)
  PROVE  Numbered'
<1>. DEFINE p == tree.parent[tip]
            l == tree.prev[tip]
<1>1. /\ tree \in Tree /\ LinksAgree /\ tip \in Node /\ p \in Node /\ p # Nil
      /\ tree.next[tip] = Nil /\ tree.last[p] = tip /\ l \in Link
  BY TipBelow, NodeFacts DEF Shape, Tree
<1>2. /\ tree'.parent = [tree.parent EXCEPT ![tip] = Nil]
      /\ tree'.last = [tree.last EXCEPT ![p] = l]
      /\ tree'.prev = [tree.prev EXCEPT ![tip] = Nil]
      /\ l # Nil => tree'.next = [tree.next EXCEPT ![l] = Nil, ![tip] = Nil]
      /\ l = Nil => tree'.next = [tree.next EXCEPT ![tip] = Nil]
  BY <1>1, UnlinkLast
<1>3. tree'.first = IF l = Nil THEN [tree.first EXCEPT ![p] = Nil] ELSE tree.first
  BY <1>1 DEF Unlink, Point
<1>4. \A n \in Node : tree'.next[n] = Nil \/ tree'.next[n] = tree.next[n]
  BY <1>1, <1>2 DEF Tree, Link
<1>5. \A n \in Node : tree'.first[n] # Nil => /\ tree'.first[n] = tree.first[n]
                                              /\ tree.first[n] # tip
  <2>. SUFFICES ASSUME NEW n \in Node, tree'.first[n] # Nil
                PROVE  tree'.first[n] = tree.first[n] /\ tree.first[n] # tip
    OBVIOUS
  <2>1. tree'.first[n] = tree.first[n]
    BY <1>1, <1>3 DEF Tree
  <2>2. tree.first[n] = tip => n = p /\ l = Nil
    BY <1>1 DEF Numbered
  <2>3. n = p /\ l = Nil => tree'.first[n] = Nil
    BY <1>1, <1>3 DEF Tree
  <2>. QED
    BY <2>1, <2>2, <2>3
<1>6. \A n \in Node : tree'.last[n] = Nil <=> tree'.first[n] = Nil
  <2>. TAKE n \in Node
  <2>1. CASE n # p
    BY <1>1, <1>2, <1>3, <2>1 DEF Numbered, Tree
  <2>2. CASE n = p
    <3>1. tree'.last[n] = l
      BY <1>1, <1>2, <2>2 DEF Tree
    <3>2. tree.first[p] # Nil
      BY <1>1, NodeFacts DEF Numbered
    <3>3. tree'.first[n] = IF l = Nil THEN Nil ELSE tree.first[p]
      BY <1>1, <1>3, <2>2 DEF Tree
    <3>. QED
      BY <3>1, <3>2, <3>3
  <2>. QED
    BY <2>1, <2>2
<1>7. \A n \in Node : tree'.first[n] # Nil => /\ tree'.parent[tree'.first[n]] = n
                                              /\ tree'.prev[tree'.first[n]] = Nil
  <2>. TAKE n \in Node
  <2>1. tree'.first[n] # Nil => tree.first[n] \in Node
    BY <1>1, <1>5 DEF Tree, Link
  <2>. QED
    BY <1>1, <1>2, <1>5, <2>1 DEF Numbered, Tree
<1>8. \A n \in Node : tree'.next[n] # Nil => n < tree'.next[n]
  BY <1>4 DEF Numbered
<1>. QED
  BY <1>6, <1>7, <1>8 DEF Numbered

LEMMA NumberedGrow ==
  ASSUME Shape, Numbered, tip # Nil, used < MaxNodes, tree' = AppendChild(tree, tip, used + 1)
  PROVE  Numbered'
<1>. DEFINE new == used + 1
            l   == tree.last[tip]
<1>1. /\ tree \in Tree /\ LinksAgree /\ tip \in Node /\ new \in Node /\ new > used
      /\ tip \in 1..used /\ tip # new /\ l \in Link /\ used \in Node
  BY OpenFacts, MaxNodesAssumption DEF Shape, Tree, Node
<1>2. /\ tree.parent[new] = Nil /\ tree.prev[new] = Nil /\ tree.next[new] = Nil
      /\ tree.last[new] = Nil
  BY <1>1 DEF LinksAgree
<1>3. /\ tree'.parent = [tree.parent EXCEPT ![new] = tip]
      /\ tree'.last = [tree.last EXCEPT ![tip] = new]
      /\ l = Nil => tree'.prev = tree.prev /\ tree'.next = tree.next
      /\ l # Nil => /\ tree'.prev = [tree.prev EXCEPT ![new] = l]
                    /\ tree'.next = [tree.next EXCEPT ![l] = new]
  BY <1>1, <1>2, AppendFresh
<1>4. tree'.first = IF l = Nil THEN [tree.first EXCEPT ![tip] = new] ELSE tree.first
  <2>1. Unlink(tree, new) = tree
    BY <1>1, <1>2, UnlinkBare
  <2>. QED
    BY <2>1 DEF AppendChild
<1>5. l # Nil => l \in Node /\ l < new
  <2>1. l # Nil => l \in Node /\ tree.parent[l] = tip
    BY <1>1 DEF LinksAgree, Link
  <2>2. l # Nil => ~(l > used)
    BY <1>1, <2>1, NodeFacts DEF LinksAgree
  <2>. QED
    BY <1>1, <2>1, <2>2 DEF Node
<1>6. \A n \in Node : tree'.next[n] # Nil => n < tree'.next[n]
  <2>. TAKE n \in Node
  <2>1. tree'.next[n] = IF l # Nil /\ n = l THEN new ELSE tree.next[n]
    BY <1>1, <1>3 DEF Tree
  <2>. QED
    BY <1>5, <2>1 DEF Numbered
<1>7. \A n \in Node : tree.first[n] # new
  BY <1>1, <1>2, NodeFacts DEF Numbered
<1>8. \A n \in Node : tree'.first[n] # Nil => /\ tree'.parent[tree'.first[n]] = n
                                              /\ tree'.prev[tree'.first[n]] = Nil
  <2>. SUFFICES ASSUME NEW n \in Node, tree'.first[n] # Nil
                PROVE  /\ tree'.parent[tree'.first[n]] = n
                       /\ tree'.prev[tree'.first[n]] = Nil
    OBVIOUS
  <2>1. CASE l = Nil /\ n = tip
    <3>1. tree'.first[n] = new
      BY <1>1, <1>4, <2>1 DEF Tree
    <3>. QED
      BY <1>1, <1>2, <1>3, <2>1, <3>1 DEF Tree
  <2>2. CASE ~(l = Nil /\ n = tip)
    <3>1. tree'.first[n] = tree.first[n]
      BY <1>1, <1>4, <2>2 DEF Tree
    <3>2. tree.first[n] \in Node /\ tree.first[n] # new
      BY <1>1, <1>7, <3>1 DEF Tree, Link
    <3>3. tree.parent[tree.first[n]] = n /\ tree.prev[tree.first[n]] = Nil
      BY <3>1, <3>2 DEF Numbered
    <3>. QED
      BY <1>1, <1>3, <3>1, <3>2, <3>3 DEF Tree
  <2>. QED
    BY <2>1, <2>2
<1>9. \A n \in Node : tree'.last[n] = Nil <=> tree'.first[n] = Nil
  <2>. TAKE n \in Node
  <2>1. CASE n = tip
    <3>1. tree'.last[n] # Nil /\ tree'.first[n] # Nil
      BY <1>1, <1>3, <1>4, <2>1, NodeFacts DEF Tree, Numbered
    <3>. QED
      BY <3>1
  <2>2. CASE n # tip
    BY <1>1, <1>3, <1>4, <2>2 DEF Tree, Numbered
  <2>. QED
    BY <2>1, <2>2
<1>. QED
  BY <1>6, <1>8, <1>9 DEF Numbered

LEMMA NumberedReplace ==
  ASSUME Shape, Numbered, tip # Nil, tip # Doc, used < MaxNodes,
         tree' = Unlink(InsertAfter(tree, tip, used + 1), tip)
  PROVE  /\ Numbered'
         /\ \A n \in Node :
              /\ tree'.parent[n] = CASE n = used + 1 -> tree.parent[tip] [] n = tip -> Nil
                                     [] OTHER -> tree.parent[n]
              /\ tree'.prev[n] = CASE n = used + 1 -> tree.prev[tip] [] n = tip -> Nil
                                   [] OTHER -> tree.prev[n]
<1>. DEFINE new == used + 1
            p   == tree.parent[tip]
            l   == tree.prev[tip]
            i   == InsertAfter(tree, tip, new)
<1>1. /\ tree \in Tree /\ LinksAgree /\ tip \in Node /\ new \in Node /\ new > used
      /\ tip \in 1..used /\ tip # new /\ l \in Link /\ used \in Node
      /\ p \in Node /\ p # Nil /\ p < tip /\ tree.next[tip] = Nil /\ tree.last[p] = tip
  BY OpenFacts, TipBelow, NodeFacts, MaxNodesAssumption DEF Shape, Tree, Node
<1>2. /\ tree.parent[new] = Nil /\ tree.prev[new] = Nil /\ tree.next[new] = Nil
      /\ tree.last[new] = Nil
      /\ \A n \in Node : tree.prev[n] # new
  <2>1. \A n \in Node : tree.prev[n] = new => tree.next[new] = n
    BY <1>1, NodeFacts DEF LinksAgree
  <2>. QED
    BY <1>1, <2>1, NodeFacts DEF LinksAgree
<1>3. /\ tree' \in Tree
      /\ \A n \in Node :
           /\ tree'.parent[n] = CASE n = new -> p [] n = tip -> Nil [] OTHER -> tree.parent[n]
           /\ tree'.last[n] = IF n = p THEN new ELSE tree.last[n]
           /\ tree'.prev[n] = CASE n = new -> l [] n = tip -> Nil [] OTHER -> tree.prev[n]
           /\ tree'.next[n] = CASE n = tip -> Nil [] n = l -> new [] OTHER -> tree.next[n]
  BY <1>1, <1>2, ReplaceLast
<1>4. \A n \in Node : tree'.first[n] = IF n = p /\ l = Nil THEN new ELSE tree.first[n]
  <2>1. Unlink(tree, new) = tree
    BY <1>1, <1>2, UnlinkBare
  <2>2. /\ i.parent = [tree.parent EXCEPT ![new] = p] /\ i.first = tree.first
        /\ i.prev = [tree.prev EXCEPT ![new] = tip]
        /\ i.next = [tree.next EXCEPT ![new] = Nil, ![tip] = new]
    BY <1>1, <2>1, NodeFacts DEF InsertAfter, Point
  <2>3. i.parent[tip] = p /\ i.prev[tip] = l /\ i.next[tip] = new
    BY <1>1, <2>2 DEF Tree
  <2>. HIDE DEF i
  <2>4. tree'.first = IF l = Nil THEN [tree.first EXCEPT ![p] = new] ELSE tree.first
    BY <1>1, <2>2, <2>3, NodeFacts DEF Unlink, Point, i
  <2>. QED
    BY <1>1, <2>4 DEF Tree
<1>5. l # Nil => l \in Node /\ l < new /\ l # tip
  <2>1. l # Nil => l \in Node /\ tree.next[l] = tip
    BY <1>1 DEF LinksAgree, Link
  <2>2. l # Nil => l < tip
    BY <1>1, <2>1, NodeFacts DEF Numbered
  <2>. QED
    BY <1>1, <2>1, <2>2 DEF Node
<1>6. \A n \in Node : tree'.next[n] # Nil => n < tree'.next[n]
  <2>. TAKE n \in Node
  <2>1. CASE n = tip
    <3>1. n # l
      BY <1>1, <1>5, <2>1, NodeFacts
    <3>2. tree'.next[n] = Nil
      BY <1>3, <2>1, <3>1
    <3>. QED
      BY <3>2
  <2>2. CASE n # tip /\ n = l
    <3>1. tree'.next[n] = new /\ l # Nil
      BY <1>3, <2>2, NodeFacts
    <3>. QED
      BY <1>5, <2>2, <3>1
  <2>3. CASE n # tip /\ n # l
    <3>1. tree'.next[n] = tree.next[n]
      BY <1>3, <2>3
    <3>. QED
      BY <3>1 DEF Numbered
  <2>. QED
    BY <2>1, <2>2, <2>3
<1>7. \A n \in Node : tree'.first[n] # Nil => /\ tree'.parent[tree'.first[n]] = n
                                              /\ tree'.prev[tree'.first[n]] = Nil
  <2>. SUFFICES ASSUME NEW n \in Node, tree'.first[n] # Nil
                PROVE  /\ tree'.parent[tree'.first[n]] = n
                       /\ tree'.prev[tree'.first[n]] = Nil
    OBVIOUS
  <2>1. CASE n = p /\ l = Nil
    <3>1. tree'.first[n] = new
      BY <1>4, <2>1
    <3>. QED
      BY <1>1, <1>3, <2>1, <3>1
  <2>2. CASE ~(n = p /\ l = Nil)
    <3>1. tree'.first[n] = tree.first[n]
      BY <1>4, <2>2
    <3>2. tree.first[n] \in Node
      BY <1>1, <3>1 DEF Tree, Link
    <3>3. tree.parent[tree.first[n]] = n /\ tree.prev[tree.first[n]] = Nil
      BY <3>1, <3>2 DEF Numbered
    <3>4. tree.first[n] # new /\ tree.first[n] # tip
      BY <1>1, <1>2, <2>2, <3>3, NodeFacts
    <3>. QED
      BY <1>3, <3>1, <3>2, <3>3, <3>4
  <2>. QED
    BY <2>1, <2>2
<1>8. \A n \in Node : tree'.last[n] = Nil <=> tree'.first[n] = Nil
  <2>. TAKE n \in Node
  <2>1. CASE n = p
    <3>1. tree.first[p] # Nil
      BY <1>1, NodeFacts DEF Numbered
    <3>. QED
      BY <1>1, <1>3, <1>4, <2>1, <3>1, NodeFacts
  <2>2. CASE n # p
    BY <1>3, <1>4, <2>2 DEF Numbered
  <2>. QED
    BY <2>1, <2>2
<1>. QED
  BY <1>3, <1>6, <1>7, <1>8 DEF Numbered

(***************************************************************************)
(* The places of blocks                                                    *)
(***************************************************************************)
\* A step that moves neither a block nor the dates its place is judged by.
LEMMA PlacedStays ==
  ASSUME NEW n, Placed(n), tree'.parent[n] = tree.parent[n], tree'.prev[n] = tree.prev[n],
         blk'[n].start = blk[n].start,
         blk'[tree.parent[n]].start = blk[tree.parent[n]].start,
         tree.prev[n] # Nil => blk'[tree.prev[n]].end = blk[tree.prev[n]].end,
         n \notin open' => n \notin open /\ blk'[n].end = blk[n].end,
         tree.parent[n] \notin open' =>
           /\ tree.parent[n] \notin open
           /\ blk'[tree.parent[n]].end = blk[tree.parent[n]].end,
         lineNo \in Int, lineNo' \in Int, lineNo <= lineNo',
         Today \in Int, Today' \in Int, Today <= Today'
  PROVE  Placed(n)'
<1>. SUFFICES /\ blk'[n].start \in Int
              /\ blk'[tree'.parent[n]].start <= blk'[n].start
              /\ blk'[n].start <= lineNo'
              /\ tree'.prev[n] # Nil => blk'[tree'.prev[n]].end < blk'[n].start
              /\ n \notin open' =>
                   /\ blk'[n].end \in Int
                   /\ blk'[n].start <= blk'[n].end /\ blk'[n].end <= Today'
                   /\ tree'.parent[n] \notin open' => blk'[n].end <= blk'[tree'.parent[n]].end
  BY DEF Placed
<1>1. blk'[n].start \in Int /\ blk'[tree'.parent[n]].start <= blk'[n].start
      /\ (tree'.prev[n] # Nil => blk'[tree'.prev[n]].end < blk'[n].start)
  BY DEF Placed
<1>2. blk'[n].start <= lineNo'
  <2>1. blk[n].start \in Int /\ blk[n].start <= lineNo
    BY DEF Placed
  <2>. QED
    BY <2>1
<1>3. ASSUME n \notin open'
      PROVE  /\ blk'[n].end \in Int
             /\ blk'[n].start <= blk'[n].end /\ blk'[n].end <= Today'
             /\ tree'.parent[n] \notin open' => blk'[n].end <= blk'[tree'.parent[n]].end
  <2>1. /\ blk[n].end \in Int /\ blk[n].start <= blk[n].end /\ blk[n].end <= Today
        /\ tree.parent[n] \notin open => blk[n].end <= blk[tree.parent[n]].end
    BY <1>3 DEF Placed
  <2>. QED
    BY <1>3, <2>1
<1>. QED
  BY <1>1, <1>2, <1>3

\* Of the children of the tip the last ends last.
LEMMA LastLatest ==
  ASSUME Shape, Numbered, InOrder, tip # Nil, NEW n \in Node, tree.parent[n] = tip
  PROVE  tree.last[tip] # Nil /\ blk[n].end <= blk[tree.last[tip]].end
<1>. DEFINE Bad == {x \in Node : /\ tree.parent[x] = tip
                                 /\ ~(tree.last[tip] # Nil /\ blk[x].end <= blk[tree.last[tip]].end)}
<1>1. SUFFICES ASSUME Bad # {} PROVE FALSE
  OBVIOUS
<1>2. Bad \subseteq Nat /\ MaxNodes \in Nat /\ \A x \in Bad : x <= MaxNodes
  BY MaxNodesAssumption DEF Node
<1>3. PICK m \in Bad : \A k \in Bad : k <= m
  <2>. HIDE DEF Bad
  <2>. QED
    BY <1>1, <1>2, GreatestBelow
<1>4. /\ m \in Node /\ tree.parent[m] = tip /\ tree.next[m] \in Link /\ LinksAgree
      /\ ~(tree.last[tip] # Nil /\ blk[m].end <= blk[tree.last[tip]].end)
      /\ tip \in Node
  BY <1>3, OpenFacts DEF Shape, Tree
<1>5. ASSUME NEW x \in Node, tree.parent[x] = tip
      PROVE  Placed(x) /\ x \notin open
  BY <1>5, TipKidClosed DEF InOrder, Linked
<1>6. CASE tree.next[m] = Nil
  <2>1. tree.last[tip] = m
    BY <1>4, <1>6 DEF LinksAgree
  <2>2. blk[m].end \in Int
    BY <1>4, <1>5 DEF Placed
  <2>. QED
    BY <1>4, <2>1, <2>2, NodeFacts
<1>7. CASE tree.next[m] # Nil
  <2>. DEFINE k == tree.next[m]
  <2>1. k \in Node /\ m < k /\ tree.parent[k] = tip /\ tree.prev[k] = m
    BY <1>4, <1>7 DEF Link, LinksAgree, Numbered
  <2>2. k \notin Bad
    BY <1>2, <1>3, <2>1 DEF Node
  <2>3. tree.last[tip] # Nil /\ blk[k].end <= blk[tree.last[tip]].end
    BY <2>1, <2>2
  <2>4. tree.last[tip] \in Node /\ tree.parent[tree.last[tip]] = tip
    BY <1>4, <2>3 DEF Shape, Tree, Link, LinksAgree
  <2>5. blk[tree.last[tip]].end \in Int
    BY <1>5, <2>4 DEF Placed
  <2>6. /\ blk[m].end \in Int /\ blk[k].end \in Int /\ blk[k].start \in Int
        /\ blk[m].end < blk[k].start /\ blk[k].start <= blk[k].end
    BY <1>4, <1>5, <2>1, NodeFacts DEF Placed
  <2>7. blk[m].end <= blk[tree.last[tip]].end
    <3>. HIDE DEF k
    <3>. QED
      BY <2>3, <2>5, <2>6
  <2>. QED
    BY <1>4, <2>3, <2>7
<1>. QED
  BY <1>6, <1>7

LEMMA OrderFacts ==
  ASSUME OrderIInv
  PROVE  /\ DatedIInv /\ Shape /\ Pointers /\ BlkFields /\ WellContained
         /\ lineNo \in Nat /\ Today \in Int /\ Today <= lineNo /\ (Mid => Today = lineNo - 1)
         /\ OnSpine \subseteq Linked /\ Linked \subseteq Node /\ type[Doc] = "doc"
         /\ tip # Nil => tip \in Linked /\ tip \in Node
         /\ \A n \in Linked \ {Doc} :
              /\ blk[n].start \in Int /\ blk[n].start <= lineNo
              /\ tree.parent[n] \in Node /\ tree.parent[n] # n
              /\ blk[tree.parent[n]].start <= blk[n].start
<1>1. /\ DatedIInv /\ Shape /\ Pointers /\ BlkFields /\ WellContained /\ lineNo \in Nat /\ InOrder
  BY DatedFacts DEF OrderIInv, ContainedIInv
<1>2. Today \in Int /\ Today <= lineNo /\ (Mid => Today = lineNo - 1)
  <2>. HIDE DEF lineNo, Mid
  <2>. QED
    BY <1>1 DEF Today
<1>3. OnSpine \subseteq Linked /\ Linked \subseteq Node /\ type[Doc] = "doc"
  BY <1>1, NodeFacts DEF OnSpine, Linked, Shape
<1>4. tip # Nil => tip \in Linked /\ tip \in Node
  BY <1>1, <1>3, SpineFacts DEF Shape, SpineInv
<1>5. ASSUME NEW n \in Linked \ {Doc}
      PROVE  /\ blk[n].start \in Int /\ blk[n].start <= lineNo
             /\ tree.parent[n] \in Node /\ tree.parent[n] # n
             /\ blk[tree.parent[n]].start <= blk[n].start
  <2>1. tree.parent[n] \in Node /\ tree.parent[n] # n
    BY <1>1, <1>3, NodeFacts DEF Linked, Shape, Tree, Link, LinksAgree
  <2>. QED
    BY <1>1, <2>1 DEF InOrder, Placed
<1>. QED
  BY <1>1, <1>2, <1>3, <1>4, <1>5

(***************************************************************************)
(* What the steps that change the tree do to the places                    *)
(***************************************************************************)
LEMMA CloseOrdered ==
  ASSUME OrderIInv, tip # Nil, NEW content, NEW at, NEW of, FinalizeWith(tip, content, at, of),
         lineNo' = lineNo, at \in Int, Today' \in Int, Today <= Today', at <= Today',
         tip # Doc => blk[tip].start <= at,
         tree.last[tip] # Nil => Today <= at
  PROVE  /\ Numbered' /\ InOrder' /\ Linked' \subseteq Linked
         /\ \A n \in Node : blk'[n].start = blk[n].start
         /\ UNCHANGED type
<1>. DEFINE e == EndOf(tip, at, of)[1]
            p == tree.parent[tip]
<1>1. /\ Shape /\ Numbered /\ InOrder /\ BlkFields /\ tree \in Tree /\ LinksAgree /\ LeavesAreBare
      /\ lineNo \in Nat /\ Today \in Int /\ tip \in Node /\ tip \in open
      /\ Linked \subseteq Node /\ 1..used \subseteq Node
  BY OrderFacts, OpenFacts DEF OrderIInv, Shape
<1>2. /\ open' = open \ {tip} /\ UNCHANGED <<type, used>>
      /\ tree' = tree \/ (type[tip] = "para" /\ tree' = Unlink(tree, tip))
      /\ \A n \in Node : n # tip => blk'[n].start = blk[n].start /\ blk'[n].end = blk[n].end
      /\ blk'[tip].start = blk[tip].start /\ blk'[tip].end = e
  BY <1>1, ClosingEffect DEF SameText
<1>3. \A n \in Node : blk'[n].start = blk[n].start
  BY <1>2
<1>4. type[tip] = "para" => tip # Doc /\ p # Nil /\ tree.next[tip] = Nil /\ tree.last[tip] = Nil
  BY <1>1, OpenFacts DEF Shape, LeavesAreBare, Containers
<1>5. /\ Numbered' /\ Linked' \subseteq Linked
      /\ \A n \in Node : n # tip => /\ tree'.parent[n] = tree.parent[n]
                                    /\ tree'.prev[n] = tree.prev[n]
      /\ tip \in Linked' => tree' = tree \/ tip = Doc
  <2>1. CASE tree' = tree
    BY <1>1, <1>2, <2>1, NumberedSame DEF Linked
  <2>2. CASE type[tip] = "para" /\ tree' = Unlink(tree, tip)
    <3>1. /\ tree'.parent = [tree.parent EXCEPT ![tip] = Nil]
          /\ tree'.prev = [tree.prev EXCEPT ![tip] = Nil]
      BY <1>1, <1>4, <2>2, UnlinkLast
    <3>2. Numbered'
      BY <1>1, <1>4, <2>2, NumberedDrop
    <3>. QED
      BY <1>1, <1>2, <3>1, <3>2 DEF Linked, Tree
  <2>. QED
    BY <1>2, <2>1, <2>2
<1>6. tip # Doc => /\ blk[tip].start \in Int /\ blk[p].start <= blk[tip].start
                   /\ blk[tip].start <= lineNo
                   /\ tree.prev[tip] # Nil => blk[tree.prev[tip]].end < blk[tip].start
                   /\ p \in Node /\ p # tip /\ p \in open
  <2>1. tip # Doc => tip \in Linked
    BY <1>1, OrderFacts
  <2>2. tip # Doc => p \in Node /\ p # tip /\ p \in open
    BY <1>1, <2>1, OrderFacts, OpenFacts
  <2>. QED
    BY <1>1, <2>1, <2>2 DEF InOrder, Placed
<1>7. tree.last[tip] # Nil => /\ blk[tree.last[tip]].start \in Int /\ blk[tree.last[tip]].end \in Int
                              /\ tip # Doc => blk[tip].start <= blk[tree.last[tip]].end
                              /\ blk[tree.last[tip]].end <= Today
  <2>. DEFINE l == tree.last[tip]
  <2>1. SUFFICES ASSUME l # Nil
                 PROVE  /\ blk[l].start \in Int /\ blk[l].end \in Int
                        /\ tip # Doc => blk[tip].start <= blk[l].end
                        /\ blk[l].end <= Today
    OBVIOUS
  <2>2. l \in Node /\ tree.parent[l] = tip
    BY <1>1, <2>1 DEF Tree, Link, LinksAgree
  <2>3. l \notin open /\ l # Doc /\ l \in Linked
    BY <1>1, <2>2, TipKidClosed, NodeFacts DEF Linked
  <2>4. Placed(l)
    BY <1>1, <2>3 DEF InOrder
  <2>. HIDE DEF l
  <2>. QED
    BY <1>1, <1>6, <2>2, <2>3, <2>4 DEF Placed
<1>8. /\ tip # Doc => e \in Int /\ blk[tip].start <= e /\ e <= Today'
      /\ tree.last[tip] # Nil => e = blk[tree.last[tip]].end \/ e = at
  <2>1. e = at \/ (tree.last[tip] # Nil /\ e = blk[tree.last[tip]].end)
          \/ (tree.last[tip] = Nil /\ e = blk[tip].start)
    BY DEF EndOf
  <2>. HIDE DEF e
  <2>2. tip # Doc => e \in Int /\ blk[tip].start <= e /\ e <= Today'
    <3>1. CASE e = at
      BY <3>1
    <3>2. CASE tree.last[tip] # Nil /\ e = blk[tree.last[tip]].end
      BY <1>1, <1>6, <1>7, <3>2
    <3>3. CASE e = blk[tip].start
      BY <1>6, <3>3
    <3>. QED
      BY <2>1, <3>1, <3>2, <3>3
  <2>. QED
    BY <2>1, <2>2
<1>. HIDE DEF e
<1>9. ASSUME NEW n \in Linked' \ {Doc}
      PROVE  Placed(n)'
  <2>1. n \in Linked \ {Doc} /\ n \in Node /\ Placed(n)
    BY <1>1, <1>5 DEF InOrder
  <2>2. /\ tree.parent[n] \in Node /\ tree.parent[n] # n
        /\ tree.prev[n] # Nil => tree.prev[n] \in Node /\ tree.prev[n] # tip
    BY <1>1, <2>1, OrderFacts, PrevFacts
  <2>3. CASE n = tip
    <3>1. tree' = tree /\ tip # Doc
      BY <1>5, <2>1, <2>3
    <3>2. /\ blk'[n].start = blk[tip].start /\ blk'[n].end = e
          /\ blk'[p].start = blk[p].start
          /\ tree.prev[tip] # Nil => blk'[tree.prev[tip]].end = blk[tree.prev[tip]].end
          /\ p \in open'
      BY <1>2, <1>3, <1>6, <2>2, <2>3, <3>1
    <3>. QED
      BY <1>6, <1>8, <2>3, <3>1, <3>2 DEF Placed
  <2>4. CASE n # tip /\ tree.parent[n] = tip
    <3>1. tree.last[tip] # Nil /\ blk[n].end <= blk[tree.last[tip]].end
      BY <1>1, <2>1, <2>4, LastLatest
    <3>2. tree' = tree
      BY <1>2, <1>4, <3>1
    <3>3. n \notin open
      BY <1>1, <2>1, <2>4, TipKidClosed
    <3>4. /\ blk'[n].start = blk[n].start /\ blk'[n].end = blk[n].end
          /\ blk'[tip].start = blk[tip].start /\ blk'[tip].end = e
          /\ tree.prev[n] # Nil => blk'[tree.prev[n]].end = blk[tree.prev[n]].end
      BY <1>2, <2>1, <2>2, <2>4
    <3>5. /\ blk[n].start \in Int /\ blk[n].end \in Int /\ blk[n].end <= Today
          /\ blk[tip].start <= blk[n].start /\ blk[n].start <= lineNo
          /\ tree.prev[n] # Nil => blk[tree.prev[n]].end < blk[n].start
          /\ blk[n].start <= blk[n].end
      BY <2>1, <2>4, <3>3 DEF Placed
    <3>6. blk[n].end <= e
      BY <1>1, <1>7, <1>8, <3>1, <3>5
    <3>7. blk[n].end <= Today'
      BY <1>1, <3>5
    <3>. QED
      BY <2>4, <3>2, <3>4, <3>5, <3>6, <3>7 DEF Placed
  <2>5. CASE n # tip /\ tree.parent[n] # tip
    <3>1. tree'.parent[n] = tree.parent[n] /\ tree'.prev[n] = tree.prev[n]
      BY <1>5, <2>1, <2>5
    <3>2. /\ blk'[n].start = blk[n].start /\ blk'[n].end = blk[n].end
          /\ blk'[tree.parent[n]].start = blk[tree.parent[n]].start
          /\ blk'[tree.parent[n]].end = blk[tree.parent[n]].end
          /\ tree.prev[n] # Nil => blk'[tree.prev[n]].end = blk[tree.prev[n]].end
      BY <1>2, <2>1, <2>2, <2>5
    <3>3. /\ n \notin open' => n \notin open
          /\ tree.parent[n] \notin open' => tree.parent[n] \notin open
      BY <1>2, <2>5
    <3>4. lineNo \in Int /\ lineNo' \in Int /\ lineNo <= lineNo'
      BY <1>1
    <3>. QED
      BY <1>1, <2>1, <3>1, <3>2, <3>3, <3>4, PlacedStays
  <2>. QED
    BY <2>3, <2>4, <2>5
<1>10. InOrder'
  <2>1. blk'[Doc].start = 1
    BY <1>1, <1>3, NodeFacts DEF InOrder
  <2>. QED
    BY <1>9, <2>1 DEF InOrder
<1>. QED
  BY <1>2, <1>3, <1>5, <1>10

\* A step that moves no block.
LEMMA OrderStays ==
  ASSUME OrderIInv, UNCHANGED <<tree, type, open, used>>,
         \A n \in Node : blk'[n].start = blk[n].start /\ blk'[n].end = blk[n].end,
         lineNo' \in Int, lineNo <= lineNo', Today' \in Int, Today <= Today'
  PROVE  /\ Numbered' /\ InOrder' /\ Linked' = Linked
<1>1. Numbered /\ InOrder /\ Shape /\ lineNo \in Nat /\ Today \in Int /\ Linked \subseteq Node
  BY OrderFacts DEF OrderIInv
<1>2. Linked' = Linked
  BY DEF Linked
<1>3. ASSUME NEW n \in Linked \ {Doc}
      PROVE  Placed(n)'
  <2>1. /\ Placed(n) /\ n \in Node /\ tree.parent[n] \in Node
        /\ tree.prev[n] # Nil => tree.prev[n] \in Node
    BY <1>1, OrderFacts, PrevFacts DEF InOrder
  <2>2. /\ blk'[n].start = blk[n].start /\ blk'[n].end = blk[n].end
        /\ blk'[tree.parent[n]].start = blk[tree.parent[n]].start
        /\ blk'[tree.parent[n]].end = blk[tree.parent[n]].end
        /\ tree.prev[n] # Nil => blk'[tree.prev[n]].end = blk[tree.prev[n]].end
    BY <2>1
  <2>3. lineNo \in Int
    BY <1>1
  <2>. QED
    BY <1>1, <2>1, <2>2, <2>3, PlacedStays
<1>4. blk'[Doc].start = 1
  BY <1>1, NodeFacts DEF InOrder
<1>. QED
  BY <1>1, <1>2, <1>3, <1>4, NumberedSame DEF InOrder

\* A block opened under the tip comes after its children.
LEMMA GrowOrdered ==
  ASSUME OrderIInv, tip # Nil, used < MaxNodes, NEW b, NEW start \in Int,
         used' = used + 1, tree' = AppendChild(tree, tip, used + 1),
         open' = open \cup {used + 1}, blk' = [blk EXCEPT ![used + 1] = b], b.start = start,
         lineNo' = lineNo, Today' = Today, start <= lineNo, blk[tip].start <= start,
         tree.last[tip] # Nil => blk[tree.last[tip]].end < start
  PROVE  Numbered' /\ InOrder'
<1>. DEFINE new == used + 1
            l   == tree.last[tip]
<1>1. /\ Shape /\ Numbered /\ InOrder /\ BlkFields /\ tree \in Tree /\ LinksAgree
      /\ lineNo \in Nat /\ Today \in Int /\ tip \in Node /\ tip \in 1..used /\ tip \in open
      /\ used \in Node /\ new \in Node /\ new > used /\ tip # new /\ DOMAIN blk = Node
      /\ 1..used \subseteq Node /\ new # Doc
  BY OrderFacts, OpenFacts, NodeFacts, MaxNodesAssumption DEF OrderIInv, Shape, BlkFields, Node
<1>2. /\ tree.parent[new] = Nil /\ tree.prev[new] = Nil /\ tree.next[new] = Nil
  BY <1>1 DEF LinksAgree
<1>3. /\ tree'.parent = [tree.parent EXCEPT ![new] = tip]
      /\ tree'.prev = IF l = Nil THEN tree.prev ELSE [tree.prev EXCEPT ![new] = l]
  BY <1>1, <1>2, AppendFresh, ZenonT(40)
<1>4. Numbered'
  BY <1>1, NumberedGrow
<1>5. /\ \A n \in Node : n # new => /\ blk'[n] = blk[n] /\ tree'.parent[n] = tree.parent[n]
                                    /\ tree'.prev[n] = tree.prev[n]
      /\ blk'[new].start = start /\ tree'.parent[new] = tip /\ tree'.prev[new] = l
  BY <1>1, <1>2, <1>3 DEF Tree
<1>6. ASSUME NEW n \in Linked' \ {Doc}
      PROVE  Placed(n)'
  <2>1. CASE n = new
    <3>1. l # Nil => l \in Node /\ l # new
      <4>1. l # Nil => tree.parent[l] = tip /\ l \in Node
        BY <1>1 DEF LinksAgree, Tree, Link
      <4>. QED
        BY <1>1, <1>2, <4>1, NodeFacts
    <3>2. /\ blk'[tip].start = blk[tip].start
          /\ l # Nil => blk'[l].end = blk[l].end
      BY <1>1, <1>5, <3>1
    <3>. QED
      BY <1>5, <2>1, <3>2 DEF Placed
  <2>2. CASE n # new
    <3>1. n \in 1..used
      BY <1>1, <2>2 DEF Linked, Node
    <3>2. n \in Linked \ {Doc} /\ n \in Node
      BY <1>1, <1>5, <2>2, <3>1 DEF Linked
    <3>3. /\ Placed(n) /\ tree.parent[n] \in Node /\ tree.parent[n] # new
          /\ tree.prev[n] # Nil => tree.prev[n] \in Node /\ tree.prev[n] # new
      <4>1. tree.parent[n] \in Node /\ tree.parent[n] # Nil
        BY <3>2, OrderFacts, NodeFacts
      <4>2. tree.parent[n] < n
        BY <1>1, <3>2, <4>1 DEF LinksAgree
      <4>3. tree.parent[n] # new
        BY <1>1, <3>1, <4>1, <4>2 DEF Node
      <4>4. tree.prev[n] # Nil => tree.prev[n] \in Node /\ tree.next[tree.prev[n]] = n
        BY <1>1, <3>2, PrevFacts
      <4>. QED
        BY <1>1, <1>2, <3>2, <4>1, <4>3, <4>4, NodeFacts DEF InOrder
    <3>4. /\ tree'.parent[n] = tree.parent[n] /\ tree'.prev[n] = tree.prev[n]
          /\ blk'[n] = blk[n] /\ blk'[tree.parent[n]] = blk[tree.parent[n]]
          /\ tree.prev[n] # Nil => blk'[tree.prev[n]] = blk[tree.prev[n]]
      BY <1>5, <2>2, <3>2, <3>3
    <3>5. /\ n \notin open' => n \notin open
          /\ tree.parent[n] \notin open' => tree.parent[n] \notin open
          /\ lineNo \in Int /\ lineNo' \in Int /\ lineNo <= lineNo'
          /\ Today' \in Int /\ Today <= Today'
      BY <1>1
    <3>. QED
      BY <1>1, <3>3, <3>4, <3>5, PlacedStays
  <2>. QED
    BY <2>1, <2>2
<1>7. blk'[Doc].start = 1
  BY <1>1, <1>5, NodeFacts DEF InOrder
<1>. QED
  BY <1>4, <1>6, <1>7 DEF InOrder

\* A heading takes the place of the paragraph it was.
LEMMA ReplaceOrdered ==
  ASSUME OrderIInv, tip # Nil, tip # Doc, used < MaxNodes, tree.last[tip] = Nil,
         used' = used + 1, tree' = Unlink(InsertAfter(tree, tip, used + 1), tip),
         open' = open \cup {used + 1},
         \A n \in Node : n # used + 1 => blk'[n].start = blk[n].start /\ blk'[n].end = blk[n].end,
         blk'[used + 1].start = blk[tip].start,
         lineNo' = lineNo, Today' = Today
  PROVE  Numbered' /\ InOrder'
<1>. DEFINE new == used + 1
<1>1. /\ Shape /\ Numbered /\ InOrder /\ tree \in Tree /\ LinksAgree
      /\ lineNo \in Nat /\ Today \in Int /\ tip \in Node /\ tip \in 1..used /\ tip \in open
      /\ used \in Node /\ new \in Node /\ new > used /\ tip # new
      /\ 1..used \subseteq Node /\ new # Doc /\ tip \in Linked \ {Doc} /\ Placed(tip)
  BY OrderFacts, OpenFacts, NodeFacts, MaxNodesAssumption DEF OrderIInv, Shape, Node, InOrder
<1>2. /\ Numbered'
      /\ \A n \in Node :
           /\ tree'.parent[n] = CASE n = new -> tree.parent[tip] [] n = tip -> Nil
                                  [] OTHER -> tree.parent[n]
           /\ tree'.prev[n] = CASE n = new -> tree.prev[tip] [] n = tip -> Nil
                                [] OTHER -> tree.prev[n]
  BY <1>1, NumberedReplace
<1>3. tree.next[new] = Nil
  BY <1>1 DEF LinksAgree
<1>4. ASSUME NEW n \in Linked \ {Doc}
      PROVE  /\ n \in Node /\ n # new /\ Placed(n) /\ tree.parent[n] \in Node
             /\ tree.parent[n] # new /\ tree.parent[n] # tip
             /\ tree.prev[n] # Nil => /\ tree.prev[n] \in Node /\ tree.prev[n] # new
                                      /\ tree.prev[n] # tip
  <2>1. n \in 1..used /\ n \in Node /\ n # new /\ Placed(n)
    BY <1>1 DEF Linked, InOrder, Node
  <2>2. tree.parent[n] \in Node /\ tree.parent[n] # Nil
    BY OrderFacts, NodeFacts
  <2>3. tree.parent[n] < n
    BY <1>1, <2>1, <2>2 DEF LinksAgree
  <2>4. tree.parent[n] # new
    BY <1>1, <2>1, <2>2, <2>3 DEF Node
  <2>5. tree.parent[n] # tip
    BY <1>1, <2>1, LastLatest
  <2>6. tree.prev[n] # Nil => /\ tree.prev[n] \in Node /\ tree.next[tree.prev[n]] = n
                              /\ tree.prev[n] # tip
    BY <1>1, <2>1, PrevFacts
  <2>. QED
    BY <1>3, <2>1, <2>2, <2>4, <2>5, <2>6, NodeFacts
<1>5. ASSUME NEW n \in Linked' \ {Doc}
      PROVE  Placed(n)'
  <2>1. CASE n = new
    <3>1. /\ tree'.parent[n] = tree.parent[tip] /\ tree'.prev[n] = tree.prev[tip] /\ n \in open'
          /\ blk'[n].start = blk[tip].start
          /\ blk'[tree.parent[tip]].start = blk[tree.parent[tip]].start
          /\ tree.prev[tip] # Nil => blk'[tree.prev[tip]].end = blk[tree.prev[tip]].end
      BY <1>1, <1>2, <1>4, <2>1
    <3>. QED
      BY <1>1, <3>1 DEF Placed
  <2>2. CASE n # new
    <3>1. n \in 1..used /\ tree'.parent[n] # Nil
      BY <1>1, <2>2 DEF Linked, Node
    <3>2. n \in Node /\ n # tip
      BY <1>1, <1>2, <3>1
    <3>3. tree'.parent[n] = tree.parent[n] /\ tree'.prev[n] = tree.prev[n]
      BY <1>2, <2>2, <3>2
    <3>4. n \in Linked \ {Doc}
      BY <3>1, <3>3 DEF Linked
    <3>5. /\ blk'[n].start = blk[n].start /\ blk'[n].end = blk[n].end
          /\ blk'[tree.parent[n]].start = blk[tree.parent[n]].start
          /\ blk'[tree.parent[n]].end = blk[tree.parent[n]].end
          /\ tree.prev[n] # Nil => blk'[tree.prev[n]].end = blk[tree.prev[n]].end
      BY <1>4, <3>4
    <3>6. /\ n \notin open' => n \notin open
          /\ tree.parent[n] \notin open' => tree.parent[n] \notin open
          /\ lineNo \in Int /\ lineNo' \in Int /\ lineNo <= lineNo'
          /\ Today' \in Int /\ Today <= Today'
      BY <1>1
    <3>. QED
      BY <1>1, <1>4, <3>3, <3>4, <3>5, <3>6, PlacedStays
  <2>. QED
    BY <2>1, <2>2
<1>6. blk'[Doc].start = 1
  BY <1>1, NodeFacts DEF InOrder
<1>. QED
  BY <1>2, <1>5, <1>6 DEF InOrder

\* A table takes the place of the paragraph that was its header row.
LEMMA DropOrdered ==
  ASSUME OrderIInv, tip # Nil, tip # Doc, tree.last[tip] = Nil,
         tree' = Unlink(tree, tip), UNCHANGED <<open, blk, used>>,
         lineNo' = lineNo, Today' = Today
  PROVE  Numbered' /\ InOrder'
<1>1. /\ Shape /\ Numbered /\ InOrder /\ tree \in Tree /\ LinksAgree
      /\ lineNo \in Nat /\ Today \in Int /\ tip \in Node
      /\ tree.parent[tip] # Nil /\ tree.next[tip] = Nil
  BY OrderFacts, OpenFacts DEF OrderIInv, Shape
<1>2. /\ tree'.parent = [tree.parent EXCEPT ![tip] = Nil]
      /\ tree'.prev = [tree.prev EXCEPT ![tip] = Nil]
  BY <1>1, UnlinkLast
<1>3. ASSUME NEW n \in Linked' \ {Doc}
      PROVE  Placed(n)'
  <2>1. n \in Linked \ {Doc} /\ n # tip
    BY <1>1, <1>2 DEF Linked, Tree
  <2>2. n \in Node /\ Placed(n)
    BY <1>1, <2>1, OrderFacts DEF InOrder
  <2>3. tree'.parent[n] = tree.parent[n] /\ tree'.prev[n] = tree.prev[n]
    BY <1>1, <1>2, <2>1, <2>2 DEF Tree
  <2>4. lineNo \in Int /\ lineNo' \in Int /\ lineNo <= lineNo' /\ Today' \in Int /\ Today <= Today'
    BY <1>1
  <2>. QED
    BY <1>1, <2>2, <2>3, <2>4, PlacedStays
<1>4. Numbered'
  BY <1>1, NumberedDrop
<1>. QED
  BY <1>1, <1>3, <1>4 DEF InOrder

(***************************************************************************)
(* The steps                                                               *)
(***************************************************************************)
\* What a step owes to the order of the blocks.
KeepsOrder == Numbered' /\ InOrder' /\ Ready'

\* Between lines, and while a line is added, nothing waits to be opened.
LEMMA NoneWait ==
  ASSUME pc' \in {"read", "line", "finish", "done"}, TextStarts'
  PROVE  Ready'
<1>1. ~Opening'
  BY DEF Opening
<1>. QED
  BY <1>1 DEF Ready, Fresh, NewRoom, AfterFits, TableRoom

\* A run of lines begins before the line it ends on.
LEMMA RunSpan ==
  ASSUME NEW c, IsRun(c), Len(c) > 0
  PROVE  Last(c).at = c[1].at + Len(c) - 1 /\ c[1].at \in Nat /\ Len(c) \in Nat
<1>. DEFINE L   == Len(c)
            Bad == {i \in 1..L : c[i].at # c[1].at + i - 1}
<1>1. /\ L \in Nat /\ L > 0 /\ Last(c) = c[L]
      /\ \A i \in 1..L : c[i].at \in Nat
      /\ \A i \in 1..(L - 1) : c[i+1].at = c[i].at + 1
  BY DEF IsRun, IsSeq, Last
<1>. HIDE DEF L
<1>2. Bad = {}
  <2>1. SUFFICES ASSUME Bad # {} PROVE FALSE
    OBVIOUS
  <2>2. PICK i \in Bad : \A j \in Bad : i <= j
    <3>1. Bad \subseteq Nat
      BY <1>1
    <3>. HIDE DEF Bad
    <3>. QED
      BY <2>1, <3>1, LeastNatural
  <2>3. i \in 1..L /\ c[i].at # c[1].at + i - 1
    BY <2>2
  <2>4. i # 1
    BY <1>1, <2>3
  <2>5. i - 1 \in 1..L /\ i - 1 \in 1..(L - 1) /\ (i - 1) + 1 = i
    BY <1>1, <2>3, <2>4
  <2>6. i - 1 \notin Bad
    <3>1. \A j \in Bad : i <= j
      BY <2>2
    <3>. QED
      BY <1>1, <2>3, <2>5, <3>1
  <2>7. c[i-1].at = c[1].at + (i - 1) - 1
    BY <2>5, <2>6
  <2>8. c[(i-1)+1].at = c[i-1].at + 1 /\ c[1].at \in Nat
    BY <1>1, <2>5, SMTT(20)
  <2>. QED
    BY <2>3, <2>5, <2>7, <2>8
<1>3. 1 \in 1..L /\ L \in 1..L
  BY <1>1
<1>. QED
  BY <1>1, <1>2, <1>3 DEF L

LEMMA ReadLineOrdered ==
  ASSUME OrderIInv, ReadLine
  PROVE  KeepsOrder
<1>1. /\ pc = "read" /\ pc' = "walk" /\ UNCHANGED <<tree, type, open, blk, used, tip>>
      /\ Ready /\ lineNo \in Nat /\ Linked \subseteq Node
  BY OrderFacts DEF ReadLine, treeVars, OrderIInv
<1>2. lineNo' = lineNo + 1
  <2>1. PICK ln \in Lines : input' = Append(input, ln)
    BY DEF ReadLine
  <2>. QED
    BY <2>1, DatedFacts DEF OrderIInv, lineNo
<1>3. Today = lineNo /\ Today' = lineNo
  BY <1>1, <1>2 DEF Today, Mid
<1>4. Numbered' /\ InOrder' /\ Linked' = Linked
  BY <1>1, <1>2, <1>3, OrderStays
<1>5. \A n \in Linked' \ {Doc} : blk'[n].start <= Today'
  BY <1>1, <1>3, <1>4, OrderFacts
<1>6. Fresh'
  BY <1>1, <1>5 DEF Fresh
<1>7. ~Opening'
  BY <1>1 DEF Opening
<1>8. NewRoom' /\ AfterFits' /\ TableRoom' /\ TextStarts'
  BY <1>1, <1>7 DEF Ready, NewRoom, AfterFits, TableRoom, TextStarts
<1>. QED
  BY <1>4, <1>6, <1>8 DEF KeepsOrder, Ready

LEMMA WalkOrdered ==
  ASSUME OrderIInv, Walk
  PROVE  KeepsOrder
<1>1. /\ pc = "walk" /\ DatedIInv /\ Shape /\ tip # Nil /\ cont \in OnSpine /\ lineNo \in Nat
      /\ Mid /\ Ready /\ OnSpine \subseteq Linked /\ Linked \subseteq Node /\ tip \in Linked
      /\ type[Doc] = "doc" /\ Today \in Int /\ Today = lineNo - 1
  <2>1. pc = "walk"
    BY DEF Walk, ContinueMatched, ContinueNotMatched, NoMoreOpen, CloseFence
  <2>. QED
    BY <2>1, OrderFacts DEF OrderIInv, Pointers, Mid
<1>2. \A n \in Linked \ {Doc} : blk[n].start \in Int /\ blk[n].start <= Today
  BY <1>1, OrderFacts DEF Ready, Fresh
<1>3. CASE ContinueMatched \/ ContinueNotMatched \/ NoMoreOpen
  <2>1. /\ UNCHANGED <<tree, type, open, blk, used, tip, input>>
        /\ pc' = "walk" \/ (pc' \in {"starts", "text"} /\ cont' = cont)
    BY <1>1, <1>3 DEF ContinueMatched, ContinueNotMatched, NoMoreOpen, WalkEnds, treeVars
  <2>2. lineNo' = lineNo /\ Today' = Today /\ ~Opening'
    BY <1>1, <2>1 DEF Today, Mid, Opening, lineNo
  <2>3. Numbered' /\ InOrder' /\ Linked' = Linked
    BY <1>1, <2>1, <2>2, OrderStays
  <2>4. Fresh'
    BY <1>1, <1>2, <2>1, <2>2, <2>3 DEF Fresh
  <2>5. NewRoom'
    <3>1. cont # Doc => blk[cont].start # lineNo
      BY <1>1, <1>2
    <3>. QED
      BY <2>1, <2>2, <3>1 DEF NewRoom
  <2>6. AfterFits' /\ TableRoom' /\ TextStarts'
    BY <1>1, <2>1, <2>2 DEF Ready, AfterFits, TableRoom, TextStarts
  <2>. QED
    BY <2>3, <2>4, <2>5, <2>6 DEF KeepsOrder, Ready
<1>4. CASE CloseFence
  <2>. DEFINE child == NextOpen(cont)
  <2>1. /\ child # Nil /\ type[child] = "code" /\ Finalize(child, lineNo, lineNo)
        /\ pc' = "read" /\ UNCHANGED input
    BY <1>4 DEF CloseFence, ClosesCode, Fenced
  <2>2. child = tip
    BY <1>1, <2>1, DatedFacts, WalkFacts, LeafIsTip DEF Containers, ContainedIInv
  <2>3. FinalizeWith(tip, blk[tip].content, lineNo, lineNo) /\ type[tip] = "code"
    BY <2>1, <2>2 DEF Finalize
  <2>. HIDE DEF child
  <2>4. lineNo' = lineNo
    BY <2>1 DEF lineNo
  <2>5. Today' = lineNo
    BY <2>1, <2>4 DEF Today, Mid
  <2>6. Numbered' /\ InOrder'
    BY <1>1, <1>2, <2>3, <2>4, <2>5, CloseOrdered
  <2>7. TextStarts'
    BY <1>1, <2>3, CloseDated DEF TextStarts
  <2>. QED
    BY <2>1, <2>6, <2>7, NoneWait DEF KeepsOrder
<1>. QED
  BY <1>3, <1>4 DEF Walk

LEMMA StartOrdered ==
  ASSUME OrderIInv, Start
  PROVE  KeepsOrder
<1>. DEFINE one(b) == /\ pend' = <<b>>
                      /\ \/ b.type = "quote" /\ after' = "starts"
                         \/ b.type \in {"code", "html"} /\ after' = "text"
                         \/ /\ b.type \in {"heading", "break"} /\ after' = "text"
                            /\ cur'.off = Len(line)
                         \/ b.type = "item" /\ type[cont] = "list" /\ after' = "starts"
            two(b, c) == pend' = <<b, c>> /\ b.type = "list" /\ c.type = "item" /\ after' = "starts"
<1>1. /\ pc = "starts" /\ UNCHANGED <<tree, type, open, blk, used, tip, cont, allClosed, input>>
      /\ \/ pc' = "text"
         \/ pc' = "close" /\ goal' = "setext"
         \/ pc' = "close" /\ goal' = "table" /\ after' = "text"
         \/ pc' = "close" /\ goal' = "add" /\ ((\E b : one(b)) \/ (\E b, c : two(b, c)))
  <2>1. CASE StartQuote \/ StartFence \/ StartHtml \/ StartIndentedCode
    BY <2>1 DEF StartQuote, StartFence, StartHtml, StartIndentedCode, Begin, treeVars, spineVars, Block
  <2>2. CASE StartHeading \/ StartBreak
    BY <2>2 DEF StartHeading, StartBreak, Begin, treeVars, spineVars, Block, ToLineEnd
  <2>3. CASE StartItem
    <3>. DEFINE n    == NextNonspace(line, cur)
                m    == ListMarker(line, n)
                data == [NewBlk EXCEPT !.mark = ListMark(Tok(line, n.pos)), !.indent = m.indent]
                b    == Block("list", data)
                c    == Block("item", data)
    <3>1. /\ pc = "starts" /\ pc' = "close" /\ goal' = "add" /\ after' = "starts"
          /\ UNCHANGED <<tree, type, open, blk, used, tip, cont, allClosed, input>>
          /\ pend' = IF SameList(n) THEN <<c>> ELSE <<b, c>>
      BY <2>3 DEF StartItem, Begin, treeVars, spineVars
    <3>2. b.type = "list" /\ c.type = "item" /\ (SameList(n) => type[cont] = "list")
      BY DEF Block, SameList
    <3>. HIDE DEF b, c, n
    <3>. QED
      BY <3>1, <3>2
  <2>4. CASE StartSetext \/ StartTable
    BY <2>4 DEF StartSetext, StartTable, Begin, treeVars, spineVars
  <2>5. CASE NoStart
    BY <2>5 DEF NoStart, treeVars, spineVars
  <2>. QED
    BY <2>1, <2>2, <2>3, <2>4, <2>5 DEF Start
<1>2. lineNo' = lineNo /\ Today' = Today /\ lineNo \in Nat /\ Today \in Int /\ Ready
      /\ Linked \subseteq Node
  BY <1>1, OrderFacts DEF Today, Mid, lineNo, OrderIInv
<1>3. Numbered' /\ InOrder' /\ Linked' = Linked
  BY <1>1, <1>2, OrderStays
<1>4. Fresh'
  <2>1. /\ ~allClosed => \A n \in Linked \ {Doc} : blk[n].start <= Today
        /\ type[tip] = "para" => blk[tip].start <= Today
    BY <1>1, <1>2 DEF Ready, Fresh
  <2>. QED
    BY <1>1, <1>2, <1>3, <2>1 DEF Fresh
<1>5. cont # Doc /\ blk[cont].start = lineNo => type[cont] \in {"quote", "item"}
  BY <1>1, <1>2 DEF Ready, NewRoom
<1>6. Opening' => pc' = "close" /\ goal' = "add"
  BY <1>1 DEF Opening
<1>7. NewRoom'
  <2>1. Opening' => Room' = cont
    BY <1>1, <1>6 DEF Room
  <2>2. Opening' /\ type[cont] \in {"quote", "item"} => CanContain(type[cont], pend'[1].type)
    BY <1>1, <1>6 DEF CanContain
  <2>. QED
    BY <1>1, <1>2, <1>5, <2>1, <2>2 DEF NewRoom
<1>8. AfterFits'
  <2>1. line' = line
    BY <1>1 DEF line, lineNo
  <2>2. Opening' =>
          /\ after' = "starts" => pend'[Len(pend')].type \in {"quote", "item"}
          /\ after' = "text" => AcceptsLines(pend'[Len(pend')].type) \/ cur'.off = Len(line)
    BY <1>1, <1>6, SMTT(20) DEF AcceptsLines
  <2>3. (pc' = "close" /\ goal' = "table") \/ pc' = "table" => after' = "text"
    BY <1>1
  <2>. QED
    BY <2>1, <2>2, <2>3 DEF AfterFits
<1>9. TableRoom'
  BY <1>1 DEF TableRoom
<1>10. TextStarts'
  BY <1>1, <1>2 DEF Ready, TextStarts
<1>. QED
  BY <1>3, <1>4, <1>7, <1>8, <1>9, <1>10 DEF KeepsOrder, Ready

LEMMA CloseOneOrdered ==
  ASSUME OrderIInv, CloseOne \/ MakeRoom
  PROVE  KeepsOrder
<1>1. /\ pc \in {"close", "add"} /\ Shape /\ Pointers /\ DatedIInv /\ tip # Nil /\ tip \in Node
      /\ lineNo \in Nat /\ Mid /\ Ready /\ tip \in Linked /\ Linked \subseteq Node
      /\ type[Doc] = "doc" /\ Runs /\ TipText /\ lastLen = lineNo - 1
      /\ Today = lineNo - 1
  <2>1. pc \in {"close", "add"}
    BY DEF CloseOne, MakeRoom
  <2>2. Mid /\ tip # Nil
    BY <2>1, OrderFacts DEF Mid, Pointers
  <2>. QED
    BY <2>1, <2>2, OrderFacts DEF OrderIInv, DatedIInv, Clock, Lengths
<1>2. /\ FinalizeWith(tip, blk[tip].content, lineNo - 1, lineNo - 1)
      /\ UNCHANGED <<allClosed, cont, cur, pend, goal, after, pc, input>>
  BY <1>1 DEF CloseOne, MakeRoom, Finalize, Pointers, LineAbove, startVars, spineVars, cursorVars
<1>3. tip # Doc => blk[tip].start <= lineNo - 1
  <2>1. SUFFICES ASSUME tip # Doc PROVE blk[tip].start <= lineNo - 1
    OBVIOUS
  <2>2. blk[tip].start \in Int /\ blk[tip].start <= lineNo
    BY <1>1, <2>1, OrderFacts
  <2>3. CASE CloseOne
    BY <1>1, <2>1, <2>3 DEF CloseOne, Ready, Fresh
  <2>4. CASE MakeRoom
    <3>1. pc = "add" /\ ~CanContain(type[tip], pend[1].type)
      BY <2>4 DEF MakeRoom
    <3>2. blk[tip].start # lineNo
      BY <1>1, <2>1, <3>1 DEF Ready, NewRoom, Opening, Room
    <3>. QED
      BY <1>1, <2>2, <3>2
  <2>. QED
    BY <2>3, <2>4
<1>4. lineNo' = lineNo /\ Today' = Today
  BY <1>2 DEF Today, Mid, lineNo
<1>5. /\ Numbered' /\ InOrder' /\ Linked' \subseteq Linked
      /\ \A n \in Node : blk'[n].start = blk[n].start
      /\ UNCHANGED type
  BY <1>1, <1>2, <1>3, <1>4, CloseOrdered
<1>6. tip' # Nil => type'[tip'] # "para"
  <2>1. type[tip] = "para" =>
          IsRun(blk[tip].content) /\ (blk[tip].content # <<>> =>
                                        Last(blk[tip].content).at = lineNo - 1)
    BY <1>1 DEF Runs, TipText
  <2>. QED
    BY <1>1, <1>2, <2>1, CloseDated
<1>7. TextStarts'
  BY <1>6 DEF TextStarts
<1>8. (Opening' <=> Opening) /\ line' = line
  BY <1>2 DEF Opening, line, lineNo
<1>9. AfterFits'
  BY <1>1, <1>2, <1>8 DEF Ready, AfterFits
<1>10. CASE CloseOne
  <2>1. pc = "close" /\ ~allClosed
    BY <1>10 DEF CloseOne
  <2>2. cont \in Node
    BY <1>1, NodeFacts DEF Pointers, Shape
  <2>3. \A n \in Linked' \ {Doc} : blk'[n].start <= Today'
    BY <1>1, <1>4, <1>5, <2>1 DEF Ready, Fresh
  <2>4. tip' # Nil
    <3>1. DatedIInv'
      BY <1>1, <1>10, StepDated DEF Next, Open
    <3>2. pc' = "close"
      BY <1>2, <2>1
    <3>. QED
      BY <3>1, <3>2 DEF DatedIInv, ClosedIInv, ContainedIInv, SpineIInv, Pointers
  <2>5. Fresh'
    BY <1>2, <1>6, <2>1, <2>3, <2>4 DEF Fresh
  <2>6. NewRoom'
    BY <1>1, <1>2, <1>4, <1>5, <1>8, <2>1, <2>2 DEF Ready, NewRoom, Room
  <2>7. TableRoom'
    BY <1>1, <1>2, <2>1 DEF Ready, TableRoom
  <2>. QED
    BY <1>5, <1>7, <1>9, <2>5, <2>6, <2>7 DEF KeepsOrder, Ready
<1>11. CASE MakeRoom
  <2>1. pc = "add" /\ tip # Doc /\ ~CanContain(type[tip], pend[1].type)
    BY <1>11 DEF MakeRoom
  <2>2. Fresh'
    BY <1>2, <2>1 DEF Fresh
  <2>3. tip' \in Node /\ blk[tip'].start <= blk[tip].start /\ blk[tip].start \in Int
    BY <1>1, <1>2, <2>1, OrderFacts DEF FinalizeWith
  <2>4. blk'[tip'].start # lineNo
    BY <1>1, <1>3, <1>5, <2>1, <2>3
  <2>5. NewRoom'
    BY <1>2, <1>4, <2>1, <2>4 DEF NewRoom, Room
  <2>6. pend[1].type # "table"
    BY <1>1, <2>1 DEF Ready, TableRoom, CanContain
  <2>7. TableRoom'
    BY <1>2, <2>1, <2>6 DEF TableRoom
  <2>. QED
    BY <1>5, <1>7, <1>9, <2>2, <2>5, <2>7 DEF KeepsOrder, Ready
<1>. QED
  BY <1>10, <1>11

LEMMA AllClosedOrdered ==
  ASSUME OrderIInv, AllClosed
  PROVE  KeepsOrder
<1>1. /\ UNCHANGED <<tree, type, open, blk, used, tip, cont, cur, pend, goal, after, input>>
      /\ pc = "close" /\ pc' = goal /\ goal \in {"add", "setext", "table", "body"} /\ allClosed'
      /\ allClosed \/ oldtip = lmc
      /\ Pointers /\ lineNo \in Nat /\ Ready /\ Today \in Int /\ ContainedIInv
  BY OrderFacts, DatedFacts DEF AllClosed, treeVars, startVars, cursorVars, Pointers, OrderIInv
<1>2. tip = cont
  BY <1>1, OrderFacts DEF AtTip, Pointers, AllClosed, ContainedIInv
<1>3. lineNo' = lineNo /\ Today' = Today /\ line' = line
  BY <1>1 DEF Today, Mid, lineNo, line
<1>4. Numbered' /\ InOrder'
  BY <1>1, <1>3, OrderStays
<1>5. Fresh'
  BY <1>1, <1>3 DEF Ready, Fresh
<1>6. Opening' => Opening /\ pc' = "add"
  BY <1>1 DEF Opening
<1>7. NewRoom'
  <2>1. pc' = "add" => Room' = Room
    BY <1>1, <1>2 DEF Room
  <2>. QED
    BY <1>1, <1>3, <1>6, <2>1 DEF Ready, NewRoom
<1>8. AfterFits'
  BY <1>1, <1>3, <1>6 DEF Ready, AfterFits
<1>9. TableRoom'
  <2>1. Opening => 1 \in 1..Len(pend)
    <3>1. Opening => (\E b : pend = <<b>>) \/ (\E b, c : pend = <<b, c>>)
      BY <1>1 DEF ContainedIInv, ListsForItems
    <3>. QED
      BY <3>1
  <2>2. pc' = "add" => pend[1].type # "table"
    <3>1. SUFFICES ASSUME goal = "add" PROVE pend[1].type # "table"
      BY <1>1
    <3>2. 1 \in 1..Len(pend)
      BY <1>1, <2>1, <3>1 DEF Opening
    <3>3. \A i \in 1..Len(pend) : pend[i].type # "table"
      BY <1>1, <3>1 DEF Ready, TableRoom
    <3>. QED
      BY <3>2, <3>3
  <2>. QED
    BY <1>1, <2>2 DEF TableRoom
<1>10. TextStarts'
  BY <1>1 DEF Ready, TextStarts
<1>. QED
  BY <1>4, <1>5, <1>7, <1>8, <1>9, <1>10 DEF KeepsOrder, Ready

LEMMA AddChildOrdered ==
  ASSUME OrderIInv, AddChild
  PROVE  KeepsOrder
<1>. DEFINE new    == used + 1
            start  == IF pend[1].type = "table" THEN lineNo - 1 ELSE lineNo
            opened == [pend[1].blk EXCEPT !.start = start]
<1>1. /\ pc = "add" /\ used < MaxNodes /\ tree' = AppendChild(tree, tip, new)
      /\ open' = open \cup {new} /\ blk' = [blk EXCEPT ![new] = opened]
      /\ type' = [type EXCEPT ![new] = pend[1].type] /\ used' = new /\ tip' = new
      /\ pend' = Tail(pend) /\ pc' = IF Len(pend) = 1 THEN after ELSE "add"
      /\ cont' = IF Len(pend) = 1 /\ after # "line" THEN new ELSE cont
      /\ after \in {"starts", "text", "line"}
      /\ UNCHANGED <<goal, after, input, cur, allClosed>>
  BY OrderFacts DEF AddChild, Pointers, spineVars, cursorVars
<1>2. /\ Shape /\ Pointers /\ DatedIInv /\ tip # Nil /\ tip \in Node
      /\ lineNo \in Nat /\ Mid /\ Ready /\ tip \in Linked /\ Linked \subseteq Node
      /\ Today = lineNo - 1 /\ allClosed /\ InOrder /\ DOMAIN blk = Node /\ DOMAIN type = Node
      /\ new \in Node /\ Opening
  <2>1. Mid /\ tip # Nil /\ allClosed /\ Opening
    BY <1>1, OrderFacts DEF Mid, Pointers, Opening
  <2>2. new \in Node
    BY <1>1, OrderFacts, MaxNodesAssumption DEF Shape, Node
  <2>. QED
    BY <2>1, <2>2, OrderFacts DEF OrderIInv, BlkFields, Shape
<1>3. /\ Kept \subseteq DOMAIN pend[1].blk
      /\ pend[1].type = "para" => after = "line" /\ pend[1].blk.content = <<>>
      /\ \/ \E b : pend = <<b>>
         \/ \E b, c : pend = <<b, c>> /\ b.type = "list" /\ c.type = "item"
  <2>1. \/ \E b : pend = <<b>>
        \/ \E b, c : pend = <<b, c>> /\ b.type = "list" /\ c.type = "item"
    BY <1>2, DatedFacts DEF ContainedIInv, ListsForItems
  <2>2. 1 \in 1..Len(pend)
    BY <2>1
  <2>. QED
    BY <1>2, <2>1, <2>2, DatedFacts DEF PendFields, DatedIInv, Clock, NoParaEarly
<1>4. opened.start = start /\ opened.content = pend[1].blk.content
  BY <1>3 DEF Kept
<1>. HIDE DEF opened
<1>5. lineNo' = lineNo /\ Today' = Today /\ line' = line
  <2>1. Mid'
    BY <1>1 DEF Mid
  <2>. QED
    BY <1>1, <1>2, <2>1 DEF Today, lineNo, line
<1>6. Numbered' /\ InOrder'
  <2>1. start \in Int /\ start <= lineNo
    BY <1>2
  <2>2. blk[tip].start <= start
    <3>1. blk[tip].start <= lineNo
      <4>1. CASE tip = Doc
        BY <1>2, <4>1 DEF InOrder, DatedIInv, Clock, Lengths
      <4>2. CASE tip # Doc
        BY <1>2, <4>2, OrderFacts
      <4>. QED
        BY <4>1, <4>2
    <3>2. pend[1].type = "table" => blk[tip].start <= lineNo - 1
      BY <1>1, <1>2 DEF Ready, TableRoom
    <3>. QED
      BY <3>1, <3>2
  <2>3. tree.last[tip] # Nil => blk[tree.last[tip]].end < start
    <3>1. SUFFICES ASSUME tree.last[tip] # Nil PROVE blk[tree.last[tip]].end < start
      OBVIOUS
    <3>2. /\ tree.last[tip] \in Node /\ tree.parent[tree.last[tip]] = tip
      BY <1>2, <3>1 DEF Shape, Tree, Link, LinksAgree
    <3>3. tree.last[tip] \in Linked \ {Doc} /\ tree.last[tip] \notin open
      BY <1>2, <3>2, TipKidClosed, NodeFacts DEF Linked
    <3>4. blk[tree.last[tip]].end \in Int /\ blk[tree.last[tip]].end <= lineNo - 1
      BY <1>2, <3>3 DEF InOrder, Placed
    <3>5. pend[1].type = "table" => blk[tree.last[tip]].end < lineNo - 1
      BY <1>1, <1>2, <3>1 DEF Ready, TableRoom
    <3>. QED
      BY <1>2, <3>4, <3>5
  <2>. HIDE DEF start
  <2>. QED
    BY <1>1, <1>2, <1>4, <1>5, <2>1, <2>2, <2>3, GrowOrdered
<1>7. /\ blk'[new].content = pend[1].blk.content /\ type'[new] = pend[1].type
  BY <1>1, <1>2, <1>4
<1>8. TextStarts'
  BY <1>1, <1>3, <1>7 DEF TextStarts
<1>9. CASE \E b : pend = <<b>>
  <2>1. PICK b : pend = <<b>>
    BY <1>9
  <2>2. Len(pend) = 1 /\ pend[Len(pend)] = pend[1] /\ pc' = after /\ (after # "line" => cont' = new)
    BY <1>1, <2>1
  <2>3. ~Opening'
    BY <1>1, <2>2 DEF Opening
  <2>4. after = "starts" => pend[1].type \in {"quote", "item"}
    BY <1>2, <2>2 DEF Ready, AfterFits
  <2>5. after = "text" => AcceptsLines(pend[1].type) \/ cur.off = Len(line)
    BY <1>2, <2>2 DEF Ready, AfterFits
  <2>6. Fresh'
    BY <1>1, <1>2, <1>7, <2>2, <2>4 DEF Fresh
  <2>7. NewRoom'
    BY <1>1, <1>5, <1>7, <2>2, <2>3, <2>4, <2>5 DEF NewRoom
  <2>8. AfterFits' /\ TableRoom'
    BY <1>1, <2>2, <2>3 DEF AfterFits, TableRoom
  <2>. QED
    BY <1>6, <1>8, <2>6, <2>7, <2>8 DEF KeepsOrder, Ready
<1>10. CASE \E b, c : pend = <<b, c>> /\ b.type = "list" /\ c.type = "item"
  <2>1. PICK b, c : pend = <<b, c>> /\ b.type = "list" /\ c.type = "item"
    BY <1>10
  <2>2. /\ Len(pend) = 2 /\ pend[Len(pend)] = c /\ pc' = "add" /\ pend' = <<c>> /\ pend[1] = b
        /\ Len(pend') = 1 /\ pend'[1] = c
    BY <1>1, <2>1
  <2>3. Fresh'
    BY <2>2 DEF Fresh
  <2>4. NewRoom'
    BY <1>1, <1>7, <2>1, <2>2 DEF NewRoom, Room, CanContain
  <2>5. AfterFits'
    BY <1>1, <1>2, <1>5, <2>1, <2>2 DEF Ready, AfterFits
  <2>6. TableRoom'
    BY <2>1, <2>2 DEF TableRoom
  <2>. QED
    BY <1>6, <1>8, <2>3, <2>4, <2>5, <2>6 DEF KeepsOrder, Ready
<1>. QED
  BY <1>3, <1>9, <1>10

LEMMA ConvertOrdered ==
  ASSUME OrderIInv, Convert
  PROVE  KeepsOrder
<1>1. /\ pc \in {"setext", "table"} /\ DatedIInv /\ Shape /\ Pointers /\ WellContained
      /\ cont = tip /\ tip # Doc /\ tip # Nil /\ type[tip] = "para" /\ allClosed
      /\ lineNo \in Nat /\ Mid /\ Ready /\ InOrder /\ Numbered
      /\ Today = lineNo - 1 /\ tip \in Linked /\ Linked \subseteq Node /\ tip \in Node
  <2>1. pc \in {"setext", "table"}
    BY DEF Convert, SetextFalls, SetextHeading, SplitParagraph, ReplaceParagraph, OpenTable
  <2>2. cont \in OnSpine /\ type[cont] = "para" /\ allClosed /\ tip # Nil
    BY <2>1, OrderFacts DEF Pointers
  <2>3. cont = tip /\ tip # Doc
    BY <2>2, OrderFacts, LeafIsTip DEF Containers
  <2>. QED
    BY <2>1, <2>2, <2>3, OrderFacts DEF OrderIInv, Mid
<1>. DEFINE p == tree.parent[tip]
            l == tree.prev[tip]
<1>2. /\ blk[tip].start \in Int /\ blk[tip].start <= lineNo - 1 /\ Placed(tip)
      /\ p \in Node /\ blk[p].start \in Int /\ blk[p].start <= blk[tip].start /\ p # tip
      /\ l # Nil => l \in Node /\ l # tip /\ blk[l].end < blk[tip].start /\ blk[l].end \in Int
  <2>1. /\ blk[tip].start \in Int /\ p \in Node /\ blk[p].start <= blk[tip].start /\ p # tip
    BY <1>1, OrderFacts
  <2>2. blk[p].start \in Int
    <3>1. p \in Linked
      BY <1>1, TipBelow, OrderFacts
    <3>. QED
      BY <1>1, <3>1, OrderFacts DEF InOrder
  <2>3. blk[tip].start <= lineNo - 1
    BY <1>1 DEF Ready, Fresh
  <2>4. Placed(tip)
    BY <1>1 DEF InOrder
  <2>5. l # Nil => l \in Node /\ l # tip /\ l \in Linked \ {Doc} /\ l \notin open
    BY <1>1, PrevFacts DEF Linked
  <2>. QED
    BY <1>1, <2>1, <2>2, <2>3, <2>4, <2>5 DEF Placed, InOrder
<1>3. /\ tip \in open /\ DOMAIN blk = Node /\ tree.last[tip] = Nil /\ tree \in Tree /\ LinksAgree
      /\ \A n \in Node : Kept \subseteq DOMAIN blk[n]
      /\ tree.parent[tip] # Nil /\ tree.next[tip] = Nil /\ DOMAIN type = Node /\ used \in Node
  BY <1>1, OrderFacts, OpenFacts DEF Shape, LeavesAreBare, Containers, BlkFields
<1>4. UNCHANGED input => lineNo' = lineNo
  BY DEF lineNo
<1>5. CASE SetextFalls
  <2>1. /\ UNCHANGED <<tree, type, open, used, tip, cont, allClosed, input>>
        /\ pc = "setext" /\ pc' = "starts" /\ blk' = [blk EXCEPT ![tip].content = <<>>]
    BY <1>1, <1>5 DEF SetextFalls, spineVars
  <2>2. /\ \A n \in Node : blk'[n].start = blk[n].start /\ blk'[n].end = blk[n].end
        /\ blk'[tip].content = <<>>
    BY <1>1, <1>3, <2>1 DEF Kept
  <2>3. lineNo' = lineNo /\ Today' = Today /\ ~Opening'
    BY <1>1, <1>4, <2>1 DEF Today, Mid, Opening
  <2>4. Numbered' /\ InOrder' /\ Linked' = Linked
    BY <1>1, <2>1, <2>2, <2>3, OrderStays
  <2>5. Fresh'
    BY <1>1, <1>2, <2>1, <2>2, <2>3 DEF Fresh
  <2>6. NewRoom'
    BY <1>1, <1>2, <2>1, <2>2, <2>3 DEF NewRoom
  <2>7. AfterFits' /\ TableRoom' /\ TextStarts'
    BY <2>1, <2>2, <2>3 DEF AfterFits, TableRoom, TextStarts
  <2>. QED
    BY <2>4, <2>5, <2>6, <2>7 DEF KeepsOrder, Ready
<1>6. CASE SetextHeading
  <2>. DEFINE new    == used + 1
              left   == AfterDefinitions(blk[tip].content, Definitions(blk[tip].content))
              opened == [NewBlk EXCEPT !.start = blk[tip].start, !.content = left]
  <2>1. /\ used < MaxNodes /\ used' = new /\ open' = open \cup {new} /\ pc' = "text"
        /\ tip' = new /\ cont' = new /\ type' = [type EXCEPT ![new] = "heading"]
        /\ tree' = Unlink(InsertAfter(tree, tip, new), tip)
        /\ blk' = [blk EXCEPT ![tip].content = <<>>, ![new] = opened]
        /\ UNCHANGED <<input, allClosed>>
    BY <1>1, <1>6 DEF SetextHeading, spineVars
  <2>2. new \in Node /\ tip # new /\ opened.start = blk[tip].start
    BY <1>1, <1>3, <2>1, OpenFacts, MaxNodesAssumption DEF Node, NewBlk
  <2>. HIDE DEF opened
  <2>3. /\ \A n \in Node : n # new => blk'[n].start = blk[n].start /\ blk'[n].end = blk[n].end
        /\ blk'[new].start = blk[tip].start
    <3>. DEFINE f == [blk EXCEPT ![tip].content = <<>>]
    <3>1. /\ DOMAIN f = Node
          /\ \A n \in Node : f[n].start = blk[n].start /\ f[n].end = blk[n].end
      BY <1>1, <1>3 DEF Kept
    <3>2. blk' = [f EXCEPT ![new] = opened]
      BY <2>1
    <3>. HIDE DEF f
    <3>. QED
      BY <2>2, <3>1, <3>2
  <2>4. lineNo' = lineNo /\ Today' = Today /\ ~Opening'
    BY <1>1, <1>4, <2>1 DEF Today, Mid, Opening
  <2>5. Numbered' /\ InOrder'
    BY <1>1, <1>3, <2>1, <2>3, <2>4, ReplaceOrdered
  <2>6. Fresh'
    BY <1>1, <2>1 DEF Fresh
  <2>7. NewRoom'
    BY <1>1, <1>2, <2>1, <2>3, <2>4 DEF NewRoom
  <2>8. AfterFits' /\ TableRoom'
    BY <2>1, <2>4 DEF AfterFits, TableRoom
  <2>9. TextStarts'
    BY <1>3, <2>1, <2>2 DEF TextStarts
  <2>. QED
    BY <2>5, <2>6, <2>7, <2>8, <2>9 DEF KeepsOrder, Ready
<1>7. CASE SplitParagraph \/ ReplaceParagraph
  <2>1. /\ pc = "table" /\ pc' = "add" /\ goal' = "add" /\ UNCHANGED <<input, allClosed, after>>
        /\ Len(pend') = 1 /\ pend'[1].type = "table"
    <3>. DEFINE cols   == DelimiterColumns(line, nx.pos)
                header == WithRow([rows |-> <<>>, padded |-> padded], cols,
                                  lastAdded.toks, lineNo - 1, lineNo - 1)
                data   == [NewBlk EXCEPT !.cols = cols, !.rows = header.rows]
    <3>1. /\ pend' = <<Block("table", data)>> /\ pc = "table" /\ pc' = "add"
          /\ goal' = "add" /\ UNCHANGED <<input, allClosed, after>>
      BY <1>7 DEF SplitParagraph, ReplaceParagraph, OpenTable, spineVars
    <3>. HIDE DEF data
    <3>. QED
      BY <3>1 DEF Block
  <2>2. lineNo' = lineNo /\ Today' = Today
    BY <1>1, <1>4, <2>1 DEF Today, Mid
  <2>3. type[p] \in {"doc", "quote", "item"} /\ tip \in Linked \ {Doc}
    BY <1>1 DEF WellContained, Containers
  <2>4. /\ Numbered' /\ InOrder' /\ tip' = p /\ type'[p] = type[p] /\ blk'[p].start = blk[p].start
        /\ tree'.last[p] # Nil => /\ blk'[tree'.last[p]].end \in Int
                                  /\ blk'[tree'.last[p]].end < lineNo - 1
    <3>1. CASE SplitParagraph
      <4>. DEFINE c == blk[tip].content
      <4>1. Len(c) > 1 /\ FinalizeWith(tip, Front(c), lineNo - 2, prevLen)
        BY <1>1, <3>1 DEF SplitParagraph, LineAboveHeader, LengthAboveHeader
      <4>2. IsRun(c)
        BY <1>1 DEF DatedIInv, Runs
      <4>3. Len(c) \in Nat /\ c # <<>> /\ Len(c) > 0
        <5>1. Len(c) \in Nat
          BY <4>2 DEF IsRun, IsSeq
        <5>. QED
          BY <4>1, <5>1
      <4>4. Last(c).at = lineNo - 1 /\ blk[tip].start <= c[1].at
        BY <1>1, <4>3 DEF DatedIInv, Clock, TipText, Ready, TextStarts
      <4>5. Last(c).at = c[1].at + Len(c) - 1 /\ c[1].at \in Nat
        BY <4>2, <4>3, RunSpan
      <4>. HIDE DEF c
      <4>6. blk[tip].start <= lineNo - 2 /\ lineNo - 2 \in Int
        BY <1>1, <1>2, <4>1, <4>3, <4>4, <4>5
      <4>7. /\ Numbered' /\ InOrder' /\ UNCHANGED type
            /\ \A n \in Node : blk'[n].start = blk[n].start
        BY <1>1, <1>3, <2>2, <4>1, <4>6, CloseOrdered
      <4>8. /\ tip' = p
            /\ tree' = tree \/ tree' = Unlink(tree, tip)
            /\ \A n \in Node : n # tip => blk'[n].end = blk[n].end
            /\ blk'[tip].end = EndOf(tip, lineNo - 2, prevLen)[1]
        BY <1>1, <4>1, OrderFacts, ClosingEffect DEF SameText
      <4>9. blk'[tip].end = lineNo - 2
        BY <1>1, <4>8 DEF EndOf
      <4>10. CASE tree' = tree
        <5>1. tree'.last[p] = tip
          BY <1>1, <4>10, TipBelow
        <5>. QED
          BY <1>1, <1>2, <4>7, <4>8, <4>9, <5>1
      <4>11. CASE tree' = Unlink(tree, tip)
        <5>1. tree'.last[p] = l
          <6>1. tree'.last = [tree.last EXCEPT ![p] = l]
            BY <1>1, <1>3, <4>11, UnlinkLast
          <6>. QED
            BY <1>2, <1>3, <6>1 DEF Tree
        <5>2. l # Nil => blk'[l].end = blk[l].end /\ blk[l].end < lineNo - 1
          BY <1>1, <1>2, <4>6, <4>8
        <5>. QED
          BY <1>2, <4>7, <4>8, <5>1, <5>2
      <4>. QED
        BY <4>8, <4>10, <4>11
    <3>2. CASE ReplaceParagraph
      <4>1. UNCHANGED <<type, open, blk, used>> /\ tree' = Unlink(tree, tip) /\ tip' = p
        BY <1>1, <3>2 DEF ReplaceParagraph
      <4>2. Numbered' /\ InOrder'
        BY <1>1, <1>3, <2>2, <4>1, DropOrdered
      <4>3. tree'.last[p] = l
        <5>1. tree'.last = [tree.last EXCEPT ![p] = l]
          BY <1>1, <1>3, <4>1, UnlinkLast
        <5>. QED
          BY <1>2, <1>3, <5>1 DEF Tree
      <4>4. l # Nil => blk[l].end < lineNo - 1
        BY <1>1, <1>2
      <4>. QED
        BY <1>2, <4>1, <4>2, <4>3, <4>4
    <3>. QED
      BY <1>7, <3>1, <3>2
  <2>5. blk'[tip'].start <= lineNo - 1 /\ blk'[tip'].start # lineNo
    BY <1>1, <1>2, <2>4
  <2>6. Fresh'
    BY <2>1 DEF Fresh
  <2>7. NewRoom'
    BY <2>1, <2>2, <2>5 DEF NewRoom, Room
  <2>8. AfterFits'
    <3>1. after = "text"
      BY <1>1, <2>1 DEF Ready, AfterFits
    <3>. QED
      BY <2>1, <3>1 DEF AfterFits, AcceptsLines
  <2>9. TableRoom'
    BY <2>1, <2>2, <2>3, <2>4, <2>5 DEF TableRoom
  <2>10. TextStarts'
    BY <2>3, <2>4 DEF TextStarts
  <2>. QED
    BY <2>4, <2>6, <2>7, <2>8, <2>9, <2>10 DEF KeepsOrder, Ready
<1>. QED
  BY <1>5, <1>6, <1>7 DEF Convert

LEMMA TextOrdered ==
  ASSUME OrderIInv, Text
  PROVE  KeepsOrder
<1>1. /\ pc \in {"text", "body", "line"} /\ DatedIInv /\ Shape /\ Pointers /\ tip # Nil
      /\ lineNo \in Nat /\ lineNo > 0 /\ Mid /\ Ready /\ InOrder /\ input \in Seq(Lines)
      /\ Today = lineNo - 1 /\ tip \in Linked /\ Linked \subseteq Node /\ tip \in Node
      /\ type[Doc] = "doc"
  <2>1. pc \in {"text", "body", "line"}
    BY DEF Text, LazyLine, CloseForText, GiveToBlock, OpenParagraph, NoText, TakeLine,
           TakeLastHtmlLine
  <2>2. Mid /\ tip # Nil
    BY <2>1, OrderFacts DEF Mid, Pointers
  <2>. QED
    BY <2>1, <2>2, OrderFacts DEF OrderIInv, DatedIInv, Clock, Lengths
<1>2. tip # Doc => blk[tip].start \in Int /\ blk[tip].start <= lineNo
  BY <1>1, OrderFacts
<1>3. UNCHANGED input => lineNo' = lineNo /\ line' = line
  BY DEF lineNo, line
<1>4. CASE LazyLine \/ TakeLine
  <2>1. /\ UNCHANGED <<tree, type, open, used, tip, input>> /\ pc' = "read"
        /\ blk' = [blk EXCEPT ![tip].content = Append(@, LineText)]
    BY <1>4 DEF LazyLine, TakeLine, AddLine
  <2>2. /\ DOMAIN blk = Node /\ \A n \in Node : Kept \subseteq DOMAIN blk[n]
    BY <1>1, OrderFacts DEF BlkFields
  <2>3. /\ \A n \in Node : blk'[n].start = blk[n].start /\ blk'[n].end = blk[n].end
        /\ blk'[tip].content = Append(blk[tip].content, LineText)
    BY <1>1, <2>1, <2>2 DEF Kept
  <2>4. lineNo' = lineNo /\ Today' = lineNo
    BY <1>1, <1>3, <2>1 DEF Today, Mid
  <2>5. Numbered' /\ InOrder'
    BY <1>1, <2>1, <2>3, <2>4, OrderStays
  <2>6. TextStarts'
    <3>. DEFINE c == blk[tip].content
                d == Append(c, LineText)
    <3>1. SUFFICES ASSUME type[tip] = "para" PROVE blk[tip].start <= d[1].at
      BY <1>1, <2>1, <2>3 DEF TextStarts
    <3>2. tip # Doc /\ IsRun(c)
      BY <1>1, <3>1 DEF DatedIInv, Runs
    <3>3. PICK A : c \in Seq(A)
      BY <3>2 DEF IsRun, IsSeq
    <3>4. LineText.at = lineNo
      BY DEF LineText
    <3>5. CASE c = <<>>
      <4>1. d[1] = LineText
        <5>. HIDE DEF LineText
        <5>. QED
          BY <3>5
      <4>. QED
        BY <1>2, <3>2, <3>4, <4>1
    <3>6. CASE c # <<>>
      <4>1. d[1] = c[1]
        <5>. DEFINE e == LineText
                    B == A \cup {e}
        <5>. HIDE DEF c
        <5>1. Len(c) \in Nat /\ Len(c) > 0 /\ c = [i \in 1..Len(c) |-> c[i]]
              /\ \A i \in 1..Len(c) : c[i] \in A
          BY <3>3, <3>6
        <5>2. c \in Seq(B) /\ e \in B
          BY <3>3, <5>1
        <5>. HIDE DEF B, e
        <5>3. Append(c, e)[1] = c[1]
          BY <5>1, <5>2
        <5>. QED
          BY <5>3 DEF e
      <4>2. blk[tip].start <= c[1].at
        BY <1>1, <3>1, <3>6 DEF Ready, TextStarts
      <4>. QED
        BY <4>1, <4>2
    <3>. QED
      BY <3>5, <3>6
  <2>. QED
    BY <2>1, <2>5, <2>6, NoneWait DEF KeepsOrder
<1>5. CASE CloseForText \/ GiveToBlock \/ OpenParagraph \/ NoText
  <2>1. /\ UNCHANGED <<tree, type, open, blk, used, tip, cont, allClosed, input>>
        /\ \/ pc = "text" /\ pc' = "close" /\ goal' = "body" /\ UNCHANGED <<cur, pend, after>>
           \/ pc' \in {"line", "read"}
           \/ /\ pc = "body" /\ pc' = "add" /\ after' = "line" /\ pend' = <<Block("para", NewBlk)>>
              /\ ~AcceptsLines(type[cont]) /\ cur.off < Len(line)
    BY <1>5 DEF CloseForText, GiveToBlock, OpenParagraph, NoText, MarkBlank, treeVars, spineVars,
                cursorVars
  <2>2. lineNo' = lineNo /\ Today' \in Int /\ Today <= Today' /\ line' = line
        /\ (pc' \in {"close", "add"} => Today' = Today)
    BY <1>1, <1>3, <2>1 DEF Today, Mid
  <2>3. Numbered' /\ InOrder' /\ Linked' = Linked
    BY <1>1, <2>1, <2>2, OrderStays
  <2>4. TextStarts'
    BY <1>1, <2>1 DEF Ready, TextStarts
  <2>5. CASE pc' \in {"line", "read"}
    BY <2>3, <2>4, <2>5, NoneWait DEF KeepsOrder
  <2>6. CASE pc = "text" /\ pc' = "close" /\ goal' = "body" /\ UNCHANGED <<cur, pend, after>>
    <3>1. ~Opening'
      BY <2>6 DEF Opening
    <3>2. Fresh'
      BY <1>1, <2>1, <2>2, <2>3, <2>6 DEF Ready, Fresh
    <3>3. NewRoom'
      BY <1>1, <2>1, <2>2, <2>6, <3>1 DEF Ready, NewRoom
    <3>4. AfterFits' /\ TableRoom'
      BY <2>6, <3>1 DEF AfterFits, TableRoom
    <3>. QED
      BY <2>3, <2>4, <3>2, <3>3, <3>4 DEF KeepsOrder, Ready
  <2>7. CASE /\ pc = "body" /\ pc' = "add" /\ after' = "line"
             /\ pend' = <<Block("para", NewBlk)>>
             /\ ~AcceptsLines(type[cont]) /\ cur.off < Len(line)
    <3>1. pend'[1].type = "para" /\ tip = cont
      BY <1>1, <2>7 DEF Block, DatedIInv, Clock, AtBody
    <3>2. cur.off # Len(line)
      <4>1. line \in Seq(Tokens)
        <5>1. line \in Lines
          BY <1>1 DEF line, lineNo
        <5>. QED
          BY <5>1, BlockPhaseAssumption
      <4>2. Len(line) \in Nat
        BY <4>1
      <4>. HIDE DEF line
      <4>. QED
        BY <2>7, <4>2
    <3>3. Fresh'
      BY <2>7 DEF Fresh
    <3>4. NewRoom'
      <4>1. cont # Doc /\ blk[cont].start = lineNo => type[cont] \in {"quote", "item"}
        BY <1>1, <2>7, <3>2 DEF Ready, NewRoom
      <4>2. type[cont] \in {"quote", "item"} => CanContain(type[cont], "para")
        BY DEF CanContain
      <4>. QED
        BY <2>1, <2>2, <2>7, <3>1, <4>1, <4>2 DEF NewRoom, Room
    <3>5. AfterFits' /\ TableRoom'
      BY <2>7, <3>1 DEF AfterFits, TableRoom
    <3>. QED
      BY <2>3, <2>4, <3>3, <3>4, <3>5 DEF KeepsOrder, Ready
  <2>. QED
    BY <2>1, <2>5, <2>6, <2>7
<1>6. CASE TakeLastHtmlLine
  <2>1. /\ pc = "line" /\ type[cont] = "html" /\ pc' = "read" /\ UNCHANGED input
    BY <1>6 DEF TakeLastHtmlLine, EndsHtml
  <2>2. cont = tip
    BY <1>1, <2>1, LeafIsTip DEF Pointers, Containers
  <2>3. PICK content : FinalizeWith(tip, content, lineNo, lineNo)
    BY <1>6, <2>2 DEF TakeLastHtmlLine
  <2>4. lineNo' = lineNo /\ Today' = lineNo
    BY <1>3, <2>1 DEF Today, Mid
  <2>5. Numbered' /\ InOrder'
    BY <1>1, <1>2, <2>3, <2>4, CloseOrdered
  <2>6. TextStarts'
    BY <1>1, <2>1, <2>2, <2>3, CloseDated DEF TextStarts
  <2>. QED
    BY <2>1, <2>5, <2>6, NoneWait DEF KeepsOrder
<1>. QED
  BY <1>4, <1>5, <1>6 DEF Text

LEMMA FinishOrdered ==
  ASSUME OrderIInv, Finish
  PROVE  KeepsOrder
<1>1. /\ DatedIInv /\ Shape /\ lineNo \in Nat /\ Ready /\ Linked \subseteq Node /\ Today \in Int
      /\ pc \in {"read", "finish"} /\ UNCHANGED input /\ pc' \in {"finish", "done"}
      /\ lineNo' = lineNo
  <2>1. pc \in {"read", "finish"} /\ UNCHANGED input /\ pc' \in {"finish", "done"}
    BY DEF Finish, EndOfInput, FinishOne, MarkTasks
  <2>. QED
    BY <2>1, OrderFacts DEF OrderIInv, lineNo
<1>2. Today = lineNo /\ Today' = lineNo
  BY <1>1 DEF Today, Mid
<1>3. CASE EndOfInput
  <2>1. UNCHANGED <<tree, type, open, blk, used, tip>>
    BY <1>3 DEF EndOfInput, treeVars
  <2>2. Numbered' /\ InOrder'
    BY <1>1, <1>2, <2>1, OrderStays
  <2>3. TextStarts'
    BY <1>1, <2>1 DEF Ready, TextStarts
  <2>. QED
    BY <1>1, <2>2, <2>3, NoneWait DEF KeepsOrder
<1>4. CASE FinishOne
  <2>1. tip # Nil /\ FinalizeWith(tip, blk[tip].content, lineNo, lineNo) /\ pc = "finish"
    BY <1>4 DEF FinishOne, Finalize, DatedIInv, Clock, Lengths, OrderIInv
  <2>2. tip # Doc => blk[tip].start <= lineNo
    BY <2>1, OrderFacts
  <2>3. Numbered' /\ InOrder'
    BY <1>1, <1>2, <2>1, <2>2, CloseOrdered
  <2>4. type[tip] = "para" =>
          IsRun(blk[tip].content) /\ (blk[tip].content # <<>> =>
                                        Last(blk[tip].content).at = lineNo)
    BY <1>1, <2>1, OrderFacts DEF DatedIInv, Runs, Clock, TipText, Mid
  <2>5. TextStarts'
    BY <1>1, <2>1, <2>4, CloseDated DEF TextStarts
  <2>. QED
    BY <1>1, <2>3, <2>5, NoneWait DEF KeepsOrder
<1>5. CASE MarkTasks
  <2>. DEFINE firsts    == {tree.first[m] : m \in Tasks}
              marked(n) == [blk[n] EXCEPT !.task = TRUE]
              text(n)   == LET toks == blk[n].content[1].toks
                           IN  Rest(toks, NextNonspace(toks, [off |-> 1, col |-> 1,
                                                              part |-> FALSE]).pos)
              bare(n)   == [blk[n] EXCEPT !.content[1].toks = text(n)]
  <2>1. /\ tip = Nil /\ UNCHANGED <<tree, type, open, used, tip>>
        /\ blk' = IF ~Gfm THEN blk
                  ELSE [n \in Node |-> CASE n \in Tasks -> marked(n)
                                         [] n \in firsts -> bare(n)
                                         [] OTHER -> blk[n]]
    BY <1>5 DEF MarkTasks
  <2>2. DOMAIN blk = Node /\ \A n \in Node : Kept \subseteq DOMAIN blk[n]
    BY OrderFacts DEF BlkFields
  <2>3. \A n \in Node : /\ marked(n).start = blk[n].start /\ marked(n).end = blk[n].end
                        /\ bare(n).start = blk[n].start /\ bare(n).end = blk[n].end
    BY <2>2 DEF Kept
  <2>. HIDE DEF marked, bare, firsts, text
  <2>4. \A n \in Node : blk'[n] \in {blk[n], marked(n), bare(n)}
    BY <2>1, <2>2
  <2>5. \A n \in Node : blk'[n].start = blk[n].start /\ blk'[n].end = blk[n].end
    BY <2>3, <2>4
  <2>6. Numbered' /\ InOrder'
    BY <1>1, <1>2, <2>1, <2>5, OrderStays
  <2>7. TextStarts'
    BY <2>1 DEF TextStarts
  <2>. QED
    BY <1>1, <2>6, <2>7, NoneWait DEF KeepsOrder
<1>. QED
  BY <1>3, <1>4, <1>5 DEF Finish

LEMMA OrderStutter ==
  ASSUME OrderIInv, UNCHANGED vars
  PROVE  KeepsOrder
<1>1. UNCHANGED <<tree, type, open, blk, used, tip, cont, cur, allClosed, pend, goal, after, pc,
                  input>>
  BY DEF vars, treeVars, startVars, spineVars, cursorVars
<1>2. /\ lineNo' = lineNo /\ line' = line /\ Today' = Today /\ Linked' = Linked
      /\ Room' = Room /\ (Opening' <=> Opening)
  BY <1>1 DEF lineNo, line, Today, Mid, Linked, Room, Opening
<1>3. Numbered' /\ InOrder'
  BY <1>1, <1>2, OrderStays, OrderFacts
<1>4. Ready'
  BY <1>1, <1>2 DEF OrderIInv, Ready, Fresh, NewRoom, AfterFits, TableRoom, TextStarts
<1>. QED
  BY <1>3, <1>4 DEF KeepsOrder

LEMMA StepOrdered == OrderIInv /\ [Next]_vars => OrderIInv'
<1>1. SUFFICES ASSUME OrderIInv, [Next]_vars PROVE DatedIInv' /\ KeepsOrder
  BY DEF OrderIInv, KeepsOrder
<1>2. DatedIInv'
  BY <1>1, StepDated DEF OrderIInv
<1>3. CASE Open
  BY <1>1, <1>2, <1>3, CloseOneOrdered, AllClosedOrdered, AddChildOrdered DEF Open
<1>4. CASE UNCHANGED vars
  BY <1>1, <1>2, <1>4, OrderStutter
<1>. QED
  BY <1>1, <1>2, <1>3, <1>4, ReadLineOrdered, WalkOrdered, StartOrdered, ConvertOrdered,
     TextOrdered, FinishOrdered DEF Next, Done

LEMMA OrderInit == Init => OrderIInv
<1>1. SUFFICES ASSUME Init PROVE Numbered /\ InOrder /\ Ready
  BY DatedInit DEF OrderIInv
<1>2. /\ \A n \in Node : /\ tree.parent[n] = Nil /\ tree.first[n] = Nil /\ tree.last[n] = Nil
                         /\ tree.prev[n] = Nil /\ tree.next[n] = Nil
      /\ used = 1 /\ tip = Doc /\ type[Doc] = "doc" /\ pc = "read" /\ blk[Doc].start = 1
  BY <1>1, NodeFacts DEF Init, Bare, NewBlk
<1>3. Numbered
  BY <1>2 DEF Numbered
<1>4. Linked \ {Doc} = {}
  BY <1>2, NodeFacts DEF Linked
<1>5. InOrder
  BY <1>2, <1>4 DEF InOrder
<1>6. Ready
  BY <1>2 DEF Ready, Fresh, NewRoom, AfterFits, TableRoom, TextStarts, Opening
<1>. QED
  BY <1>3, <1>5, <1>6

\* Whatever lines a document holds, the children of a block follow one another
\* without overlap, within the lines of the block they stand in: although a
\* block may be dated by the line that closed it, by the line above that, by
\* its last child, by its own first line, or two lines back when a table took
\* the line between, finalize_at never dates one before it starts, after its
\* parent ends, or into the block that follows it.
THEOREM SourceOrderSafe == Spec => []SourceOrder
<1>1. Init => OrderIInv
  BY OrderInit
<1>2. OrderIInv /\ [Next]_vars => OrderIInv'
  BY StepOrdered
<1>3. OrderIInv => SourceOrder
  <2>1. SUFFICES ASSUME OrderIInv, NEW p \in Linked
                 PROVE  LET s == Children(tree, p)
                        IN  \A i \in 1..Len(s) :
                              /\ blk[p].start <= blk[s[i]].start /\ blk[s[i]].start <= lineNo
                              /\ i < Len(s) => blk[s[i]].end < blk[s[i+1]].start
                              /\ s[i] \notin open =>
                                   /\ blk[s[i]].start <= blk[s[i]].end
                                   /\ p \notin open => blk[s[i]].end <= blk[p].end
    BY Zenon DEF SourceOrder
  <2>. DEFINE s == Children(tree, p)
  <2>2. /\ Shape /\ tree \in Tree /\ LinksAgree /\ Numbered /\ InOrder /\ p \in Node
        /\ used \in Node
    BY <2>1, OrderFacts DEF OrderIInv, Shape
  <2>3. s = <<>> \/ Chain(tree, p, tree.first[p], s)
    BY <2>2, ChildrenChained DEF Numbered, Rises, LinksAgree
  <2>. HIDE DEF s
  <2>4. CASE s = <<>>
    <3>1. Len(s) = 0
      BY <2>4
    <3>. QED
      BY <3>1 DEF s
  <2>5. CASE Chain(tree, p, tree.first[p], s)
    <3>1. SUFFICES ASSUME NEW i \in 1..Len(s)
                   PROVE  /\ blk[p].start <= blk[s[i]].start /\ blk[s[i]].start <= lineNo
                          /\ i < Len(s) => blk[s[i]].end < blk[s[i+1]].start
                          /\ s[i] \notin open =>
                               /\ blk[s[i]].start <= blk[s[i]].end
                               /\ p \notin open => blk[s[i]].end <= blk[p].end
      BY DEF s
    <3>2. Len(s) \in Nat /\ \A j \in 1..Len(s) : s[j] \in Node /\ tree.parent[s[j]] = p
      BY <2>5 DEF Chain
    <3>3. ASSUME NEW j \in 1..Len(s) PROVE Placed(s[j])
      <4>1. s[j] \in Node /\ tree.parent[s[j]] = p /\ p # Nil
        BY <2>2, <3>2, NodeFacts
      <4>2. s[j] \in 1..used
        BY <2>2, <4>1, NodeFacts DEF LinksAgree, Node
      <4>3. s[j] # Doc
        BY <2>2, <4>1 DEF Shape
      <4>. QED
        BY <2>2, <4>1, <4>2, <4>3 DEF InOrder, Linked
    <3>4. i < Len(s) => i + 1 \in 1..Len(s) /\ tree.next[s[i]] = s[i+1]
      <4>1. i < Len(s) => i + 1 \in 1..Len(s) /\ i \in 1..(Len(s) - 1)
        BY <3>2
      <4>. QED
        BY <2>5, <4>1 DEF Chain
    <3>5. i < Len(s) => tree.prev[s[i+1]] = s[i] /\ s[i] # Nil
      BY <2>2, <3>2, <3>4, NodeFacts DEF LinksAgree
    <3>6. i < Len(s) => blk[s[i]].end < blk[s[i+1]].start
      <4>1. SUFFICES ASSUME i < Len(s) PROVE blk[s[i]].end < blk[s[i+1]].start
        OBVIOUS
      <4>2. Placed(s[i+1]) /\ tree.prev[s[i+1]] = s[i] /\ s[i] # Nil
        BY <3>3, <3>4, <3>5, <4>1
      <4>. QED
        BY <4>2 DEF Placed
    <3>7. Placed(s[i]) /\ tree.parent[s[i]] = p
      BY <3>2, <3>3
    <3>. QED
      BY <3>6, <3>7 DEF Placed
  <2>. QED
    BY <2>3, <2>4, <2>5
<1>. QED
  BY <1>1, <1>2, <1>3, PTL DEF Spec
=============================================================================
