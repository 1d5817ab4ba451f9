-------------------------- MODULE BlockTextProofs --------------------------
(***************************************************************************)
(* The cursor and what it leaves behind: the column the parser counts is   *)
(* the column of its offset, and the definitions it takes are those of the *)
(* lines, the first of each label winning.                                 *)
(***************************************************************************)
EXTENDS BlockPositionProofs

(***************************************************************************)
(* Columns                                                                 *)
(***************************************************************************)
LEMMA TabStops ==
  ASSUME NEW c \in Nat
  PROVE  /\ ToTabStop(c) \in 1..4 /\ ToTabStop(c) \in Nat
         /\ \A d \in Nat : c < d /\ d < c + ToTabStop(c) => d + ToTabStop(d) = c + ToTabStop(c)
  BY DEF ToTabStop

LEMMA WidthType == \A tok : Width(tok) \in Nat \ {0}
  BY DEF Width

\* How much further than column c the token at k reaches.
Wide(ln, k, c) == IF ln[k] = "tab" THEN ToTabStop(c) ELSE Width(ln[k])

LEMMA WideType ==
  ASSUME NEW ln, NEW k, NEW c \in Nat
  PROVE  Wide(ln, k, c) \in Nat \ {0}
<1>1. ToTabStop(c) \in Nat \ {0}
  BY TabStops
<1>. QED
  BY <1>1, WidthType DEF Wide

\* The recursion of ColumnAt.
LEMMA ColumnEquation ==
  ASSUME NEW ln, Len(ln) \in Nat
  PROVE  /\ ColumnAt(ln, 0) = 0
         /\ \A i \in 0..Len(ln) : ColumnAt(ln, i) \in Nat
         /\ \A i \in 1..Len(ln) :
              ColumnAt(ln, i) = ColumnAt(ln, i - 1) + Wide(ln, i, ColumnAt(ln, i - 1))
<1>. DEFINE S == [p \in Nat \X Nat |-> p[2] + Wide(ln, p[1], p[2])]
            Def(i, at) == at = [k \in 0..i |-> IF k = 0 THEN 0 ELSE at[k-1] + Wide(ln, k, at[k-1])]
            col(i) == CHOOSE at : Def(i, at)
<1>1. \A i : ColumnAt(ln, i) = col(i)[i]
  BY Zenon DEF ColumnAt, Wide
<1>2. S \in [Nat \X Nat -> Nat]
  <2>1. \A k, c \in Nat : c + Wide(ln, k, c) \in Nat
    BY WideType
  <2>. QED
    BY <2>1
<1>3. \A k, c \in Nat : S[<<k, c>>] = c + Wide(ln, k, c)
  OBVIOUS
<1>. HIDE DEF S
<1>4. ASSUME NEW i \in Nat
      PROVE  Follows(col(i), 0, i, 0, S)
  <2>1. PICK f \in [0..i -> Nat] : Follows(f, 0, i, 0, S)
    <3>1. 0 <= i
      OBVIOUS
    <3>. QED
      BY <1>2, <3>1, RecursionExists
  <2>2. \A k \in 0..i : k # 0 => S[<<k, f[k-1]>>] = f[k-1] + Wide(ln, k, f[k-1])
    <3>1. \A k \in 0..i : k # 0 => k \in Nat /\ f[k-1] \in Nat
      OBVIOUS
    <3>. QED
      BY <1>3, <3>1
  <2>3. Def(i, f)
    BY <2>1, <2>2, Zenon DEF Follows
  <2>4. Def(i, col(i))
    BY <2>3, Zenon
  <2>. HIDE DEF col
  <2>5. \A k \in 0..i : col(i)[k] = IF k = 0 THEN 0 ELSE col(i)[k-1] + Wide(ln, k, col(i)[k-1])
    BY <2>4, Zenon
  <2>6. \A k \in 0..i : col(i)[k] \in Nat
    <3>. DEFINE Bad == {k \in 0..i : col(i)[k] \notin Nat}
    <3>1. SUFFICES ASSUME Bad # {} PROVE FALSE
      OBVIOUS
    <3>2. PICK m \in Bad : \A k \in Bad : m <= k
      <4>1. Bad \subseteq Nat
        OBVIOUS
      <4>. HIDE DEF Bad
      <4>. QED
        BY <3>1, <4>1, LeastNatural
    <3>3. m \in 0..i /\ col(i)[m] \notin Nat /\ m # 0
      BY <2>5, <3>2
    <3>4. m - 1 \in 0..i /\ m - 1 \notin Bad
      <4>1. m - 1 \in 0..i /\ m - 1 < m
        BY <3>3
      <4>. HIDE DEF Bad
      <4>. QED
        BY <3>2, <3>3, <4>1
    <3>5. col(i)[m - 1] \in Nat
      BY <3>4
    <3>6. col(i)[m] = col(i)[m-1] + Wide(ln, m, col(i)[m-1])
      BY <2>5, <3>3
    <3>7. Wide(ln, m, col(i)[m-1]) \in Nat
      BY <3>5, WideType
    <3>. QED
      BY <3>3, <3>5, <3>6, <3>7
  <2>7. \A k \in 0..i : k # 0 => S[<<k, col(i)[k-1]>>] = col(i)[k-1] + Wide(ln, k, col(i)[k-1])
    <3>1. \A k \in 0..i : k # 0 => k \in Nat /\ k - 1 \in 0..i
      OBVIOUS
    <3>. QED
      BY <1>3, <2>6, <3>1
  <2>8. col(i) = [k \in 0..i |-> IF k = 0 THEN 0 ELSE S[<<k, col(i)[k-1]>>]]
    BY <2>4, <2>7, Zenon
  <2>. QED
    BY <2>8 DEF Follows
<1>. HIDE DEF col
<1>5. \A i \in Nat : \A k \in 0..i : col(i)[k] = col(k)[k] /\ col(k)[k] \in Nat
  <2>. TAKE i \in Nat
  <2>. TAKE k \in 0..i
  <2>1. k \in Nat /\ 0 <= k /\ k <= i /\ k \in 0..k
    OBVIOUS
  <2>2. Follows(col(k), 0, k, 0, S) /\ Follows(col(i), 0, i, 0, S)
    BY <1>4, <2>1
  <2>3. \A j \in 0..k : col(k)[j] = col(i)[j] /\ col(k)[j] \in Nat
    BY <1>2, <2>1, <2>2, RecursionAgrees, 0 \in Nat
  <2>. QED
    BY <2>1, <2>3
<1>6. col(0)[0] = 0
  <2>1. Follows(col(0), 0, 0, 0, S) /\ 0 \in 0..0
    BY <1>4
  <2>. QED
    BY <2>1, Zenon DEF Follows
<1>7. ASSUME NEW i \in 1..Len(ln)
      PROVE  col(i)[i] = col(i - 1)[i - 1] + Wide(ln, i, col(i - 1)[i - 1])
  <2>1. i \in Nat /\ i - 1 \in Nat /\ i - 1 \in 0..i /\ i \in 0..i /\ i # 0
    OBVIOUS
  <2>2. col(i)[i] = S[<<i, col(i)[i-1]>>]
    BY <1>4, <2>1, Zenon DEF Follows
  <2>3. col(i)[i - 1] = col(i - 1)[i - 1] /\ col(i - 1)[i - 1] \in Nat
    BY <1>5, <2>1
  <2>. QED
    BY <1>3, <2>1, <2>2, <2>3
<1>8. \A i \in 0..Len(ln) : col(i)[i] \in Nat
  BY <1>5
<1>9. 0 \in 0..Len(ln)
  OBVIOUS
<1>. QED
  BY <1>1, <1>6, <1>7, <1>8

(***************************************************************************)
(* The cursor                                                              *)
(***************************************************************************)
\* The cursor c stands at the column of its offset, or inside the tab there.
Agrees(ln, c) ==
  /\ c \in Cursor /\ c.off <= Len(ln)
  /\ IF c.part
     THEN /\ Tok(ln, c.off) = "tab"
          /\ ColumnAt(ln, c.off) < c.col /\ c.col < ColumnAt(ln, c.off + 1)
     ELSE c.col = ColumnAt(ln, c.off)

\* Between c and d there is only space.
Passes(ln, c, d) == c.off <= d.off /\ \A i \in c.off..(d.off - 1) : Tok(ln, i) \in Space

LEMMA TokFacts ==
  ASSUME NEW ln \in Seq(Tokens)
  PROVE  /\ Len(ln) \in Nat
         /\ \A i \in Nat : i < Len(ln) => Tok(ln, i) = ln[i+1] /\ Tok(ln, i) # "end"
         /\ \A i \in Nat : i >= Len(ln) => Tok(ln, i) = "end"
         /\ "end" \notin Space /\ "end" # "tab"
<1>1. "end" \notin Tokens
  BY DEF Tokens, Space, Bullets, Ordered, Fences, Labels, Texts
<1>2. Len(ln) \in Nat /\ \A i \in 1..Len(ln) : ln[i] \in Tokens
  OBVIOUS
<1>3. \A i \in Nat : i < Len(ln) => i + 1 \in 1..Len(ln)
  BY <1>2
<1>. HIDE DEF Tokens
<1>. QED
  BY <1>1, <1>2, <1>3 DEF Tok, Space

LEMMA StepType ==
  ASSUME NEW ln, NEW c \in Cursor
  PROVE  Step(ln, c) \in Cursor
  BY DEF Step, Cursor

\* Over a space, or a column of a tab, the cursor goes one column on.
LEMMA StepAgrees ==
  ASSUME NEW ln \in Seq(Tokens), NEW c, Agrees(ln, c), Tok(ln, c.off) \in Space
  PROVE  /\ Agrees(ln, Step(ln, c)) /\ Passes(ln, c, Step(ln, c))
         /\ Step(ln, c).col = c.col + 1
<1>. DEFINE k == ColumnAt(ln, c.off)
            d == Step(ln, c)
<1>1. /\ c \in Cursor /\ c.off \in Nat /\ c.col \in Nat /\ c.part \in BOOLEAN /\ c.off < Len(ln)
      /\ Len(ln) \in Nat /\ Tok(ln, c.off) = ln[c.off + 1] /\ Tok(ln, c.off) # "end"
  BY TokFacts DEF Agrees, Cursor
<1>2. /\ k \in Nat /\ c.off + 1 \in 1..Len(ln) /\ (c.off + 1) - 1 = c.off
      /\ ColumnAt(ln, c.off + 1) = k + Wide(ln, c.off + 1, k)
  <2>1. c.off \in 0..Len(ln) /\ c.off + 1 \in 1..Len(ln) /\ (c.off + 1) - 1 = c.off
    BY <1>1
  <2>. QED
    BY <1>1, <2>1, ColumnEquation
<1>. HIDE DEF k
<1>3. d \in Cursor
  BY <1>1, StepType
<1>4. CASE Tok(ln, c.off) = "sp"
  <2>1. d = [off |-> c.off + 1, col |-> c.col + 1, part |-> FALSE]
    BY <1>1, <1>4 DEF Step
  <2>2. ~c.part /\ c.col = k
    BY <1>4 DEF Agrees, k
  <2>3. Wide(ln, c.off + 1, k) = 1
    BY <1>1, <1>4 DEF Wide, Width, Ordered
  <2>4. d.off = c.off + 1 /\ d.col = c.col + 1 /\ d.part = FALSE
    BY <2>1
  <2>. HIDE DEF d
  <2>5. Agrees(ln, d)
    BY <1>1, <1>2, <1>3, <2>2, <2>3, <2>4 DEF Agrees
  <2>6. Passes(ln, c, d)
    BY <1>1, <2>4 DEF Passes
  <2>. QED
    BY <2>4, <2>5, <2>6 DEF d
<1>5. CASE Tok(ln, c.off) = "tab"
  <2>. DEFINE T == ToTabStop(c.col)
  <2>1. T \in 1..4 /\ c.col + T = k + ToTabStop(k) /\ ToTabStop(k) \in 1..4 /\ k <= c.col
    <3>1. Wide(ln, c.off + 1, k) = ToTabStop(k)
      BY <1>1, <1>5 DEF Wide
    <3>4. T \in 1..4 /\ ToTabStop(k) \in 1..4
      BY <1>1, <1>2, TabStops
    <3>. HIDE DEF T
    <3>2. CASE c.part
      <4>1. k < c.col /\ c.col < k + ToTabStop(k)
        BY <1>2, <3>1, <3>2 DEF Agrees, k
      <4>2. k < c.col /\ c.col < k + ToTabStop(k) => c.col + T = k + ToTabStop(k)
        BY <1>1, <1>2, TabStops DEF T
      <4>. QED
        BY <1>1, <1>2, <3>4, <4>1, <4>2
    <3>3. CASE ~c.part
      <4>1. c.col = k
        BY <3>3 DEF Agrees, k
      <4>2. T = ToTabStop(k)
        BY <4>1 DEF T
      <4>. QED
        BY <1>2, <3>4, <4>1, <4>2
    <3>. QED
      BY <1>1, <3>2, <3>3
  <2>. HIDE DEF T
  <2>2. ColumnAt(ln, c.off + 1) = c.col + T
    BY <1>1, <1>2, <1>5, <2>1 DEF Wide
  <2>3. d = [off |-> IF T > 1 THEN c.off ELSE c.off + 1, col |-> c.col + 1, part |-> T > 1]
    BY <1>5, TokFacts, Zenon DEF Step, T
  <2>4. /\ d.off = IF T > 1 THEN c.off ELSE c.off + 1
        /\ d.col = c.col + 1 /\ d.part = (T > 1)
    BY <2>3
  <2>. HIDE DEF d
  <2>5. Agrees(ln, d)
    <3>1. CASE T > 1
      <4>1. d.off = c.off /\ d.part /\ d.col = c.col + 1
        BY <2>4, <3>1
      <4>2. d.col < c.col + T /\ k < d.col
        BY <1>1, <1>2, <2>1, <3>1, <4>1
      <4>. QED
        BY <1>1, <1>3, <1>5, <2>2, <4>1, <4>2 DEF Agrees, k
    <3>2. CASE ~(T > 1)
      <4>1. d.off = c.off + 1 /\ ~d.part /\ d.col = c.col + 1
        BY <2>4, <3>2
      <4>2. d.col = c.col + T
        BY <1>1, <2>1, <3>2, <4>1
      <4>. QED
        BY <1>1, <1>3, <2>2, <4>1, <4>2 DEF Agrees
    <3>. QED
      BY <3>1, <3>2
  <2>6. Passes(ln, c, d)
    BY <1>1, <1>5, <2>4 DEF Passes, Space
  <2>. QED
    BY <2>4, <2>5, <2>6 DEF d
<1>. QED
  BY <1>4, <1>5 DEF Space

LEMMA PassesOn ==
  ASSUME NEW ln, NEW c \in Cursor, NEW d \in Cursor, NEW e \in Cursor,
         Passes(ln, c, d), Passes(ln, d, e)
  PROVE  Passes(ln, c, e)
  BY DEF Passes, Cursor

\* The recursion of Advance.
LEMMA AdvanceEquation ==
  ASSUME NEW ln, NEW c \in Cursor
  PROVE  /\ Advance(ln, c, 0) = c
         /\ \A k \in Nat : Advance(ln, c, k + 1) = Step(ln, Advance(ln, c, k))
<1>. DEFINE S == [p \in Nat \X Cursor |-> Step(ln, p[2])]
            Def(i, f) == f = [k \in 0..i |-> IF k = 0 THEN c ELSE Step(ln, f[k-1])]
            run(i) == CHOOSE f : Def(i, f)
<1>1. \A i : Advance(ln, c, i) = run(i)[i]
  BY Zenon DEF Advance
<1>2. S \in [Nat \X Cursor -> Cursor]
  BY StepType
<1>3. \A k \in Nat, d \in Cursor : S[<<k, d>>] = Step(ln, d)
  OBVIOUS
<1>. HIDE DEF S
<1>4. ASSUME NEW i \in Nat
      PROVE  Follows(run(i), 0, i, c, S)
  <2>1. PICK f \in [0..i -> Cursor] : Follows(f, 0, i, c, S)
    <3>1. 0 <= i
      OBVIOUS
    <3>. QED
      BY <1>2, <3>1, RecursionExists
  <2>2. \A k \in 0..i : k # 0 => S[<<k, f[k-1]>>] = Step(ln, f[k-1])
    <3>1. \A k \in 0..i : k # 0 => k \in Nat /\ f[k-1] \in Cursor
      OBVIOUS
    <3>. QED
      BY <1>3, <3>1
  <2>3. Def(i, f)
    BY <2>1, <2>2, Zenon DEF Follows
  <2>4. Def(i, run(i))
    BY <2>3, Zenon
  <2>. HIDE DEF run
  <2>5. \A k \in 0..i : run(i)[k] = IF k = 0 THEN c ELSE Step(ln, run(i)[k-1])
    BY <2>4, Zenon
  <2>6. \A k \in 0..i : run(i)[k] \in Cursor
    <3>. DEFINE Bad == {k \in 0..i : run(i)[k] \notin Cursor}
    <3>1. SUFFICES ASSUME Bad # {} PROVE FALSE
      OBVIOUS
    <3>2. PICK m \in Bad : \A k \in Bad : m <= k
      <4>1. Bad \subseteq Nat
        OBVIOUS
      <4>. HIDE DEF Bad
      <4>. QED
        BY <3>1, <4>1, LeastNatural
    <3>3. m \in 0..i /\ run(i)[m] \notin Cursor
      BY <3>2
    <3>4. m # 0
      BY <2>5, <3>3
    <3>5. m - 1 \in 0..i /\ m - 1 \notin Bad
      <4>1. m - 1 \in 0..i /\ m - 1 < m
        BY <3>3, <3>4
      <4>. HIDE DEF Bad
      <4>. QED
        BY <3>2, <3>3, <4>1
    <3>6. run(i)[m - 1] \in Cursor
      BY <3>5
    <3>. QED
      BY <2>5, <3>3, <3>4, <3>6, StepType
  <2>7. \A k \in 0..i : k # 0 => S[<<k, run(i)[k-1]>>] = Step(ln, run(i)[k-1])
    <3>1. \A k \in 0..i : k # 0 => k \in Nat /\ k - 1 \in 0..i
      OBVIOUS
    <3>. QED
      BY <1>3, <2>6, <3>1
  <2>8. run(i) = [k \in 0..i |-> IF k = 0 THEN c ELSE S[<<k, run(i)[k-1]>>]]
    BY <2>4, <2>7, Zenon
  <2>. QED
    BY <2>8 DEF Follows
<1>. HIDE DEF run
<1>5. ASSUME NEW k \in Nat
      PROVE  run(k + 1)[k] = run(k)[k] /\ run(k)[k] \in Cursor
  <2>1. k + 1 \in Nat /\ 0 <= k /\ k <= k + 1 /\ k \in 0..k
    OBVIOUS
  <2>2. Follows(run(k), 0, k, c, S) /\ Follows(run(k + 1), 0, k + 1, c, S)
    BY <1>4, <2>1
  <2>3. \A j \in 0..k : run(k)[j] = run(k + 1)[j] /\ run(k)[j] \in Cursor
    BY <1>2, <2>1, <2>2, RecursionAgrees, 0 \in Nat
  <2>. QED
    BY <2>1, <2>3
<1>6. run(0)[0] = c
  <2>1. Follows(run(0), 0, 0, c, S) /\ 0 \in 0..0
    BY <1>4
  <2>. QED
    BY <2>1, Zenon DEF Follows
<1>7. ASSUME NEW k \in Nat
      PROVE  run(k + 1)[k + 1] = Step(ln, run(k)[k])
  <2>1. k + 1 \in Nat /\ (k + 1) - 1 = k /\ k + 1 \in 0..(k + 1) /\ k + 1 # 0
    OBVIOUS
  <2>2. run(k + 1)[k + 1] = S[<<k + 1, run(k + 1)[(k + 1) - 1]>>]
    BY <1>4, <2>1, Zenon DEF Follows
  <2>. QED
    BY <1>3, <1>5, <2>1, <2>2
<1>. QED
  BY <1>1, <1>6, <1>7

\* k columns further over space: the cursor agrees, and is k columns on.
LEMMA AdvanceOver ==
  ASSUME NEW ln \in Seq(Tokens), NEW c, Agrees(ln, c), NEW k \in Nat,
         \A j \in 0..(k - 1) : Tok(ln, Advance(ln, c, j).off) \in Space
  PROVE  LET d == Advance(ln, c, k)
         IN  Agrees(ln, d) /\ Passes(ln, c, d) /\ d.col = c.col + k
<1>. DEFINE d(j) == Advance(ln, c, j)
            Good(j) == Agrees(ln, d(j)) /\ Passes(ln, c, d(j)) /\ d(j).col = c.col + j
            Bad == {j \in 0..k : ~Good(j)}
<1>1. c \in Cursor /\ c.off \in Nat /\ c.col \in Nat
  BY DEF Agrees, Cursor
<1>2. d(0) = c /\ \A j \in Nat : d(j + 1) = Step(ln, d(j))
  BY <1>1, AdvanceEquation
<1>. HIDE DEF d
<1>3. SUFFICES ASSUME Bad # {} PROVE FALSE
  <2>1. Bad = {} => Good(k)
    <3>1. k \in 0..k
      OBVIOUS
    <3>. HIDE DEF Good
    <3>. QED
      BY <3>1
  <2>. QED
    BY <2>1 DEF d
<1>4. PICK m \in Bad : \A j \in Bad : m <= j
  <2>1. Bad \subseteq Nat
    OBVIOUS
  <2>. HIDE DEF Bad
  <2>. QED
    BY <1>3, <2>1, LeastNatural
<1>5. m \in 0..k /\ ~Good(m)
  BY <1>4
<1>6. Good(0)
  <2>1. Passes(ln, c, c) /\ c.col = c.col + 0
    BY <1>1 DEF Passes
  <2>. QED
    BY <1>2, <2>1
<1>7. m # 0
  BY <1>5, <1>6
<1>8. m - 1 \in 0..(k - 1) /\ m - 1 \in 0..k /\ m - 1 \in Nat /\ (m - 1) + 1 = m /\ m - 1 < m
  BY <1>5, <1>7
<1>9. Good(m - 1)
  <2>1. m - 1 \notin Bad
    <3>. HIDE DEF Bad
    <3>. QED
      BY <1>4, <1>5, <1>8
  <2>. QED
    BY <1>8, <2>1
<1>10. Tok(ln, d(m - 1).off) \in Space
  BY <1>8 DEF d
<1>11. d(m) = Step(ln, d(m - 1))
  BY <1>2, <1>8
<1>12. /\ Agrees(ln, d(m)) /\ Passes(ln, d(m - 1), d(m)) /\ d(m).col = d(m - 1).col + 1
  BY <1>9, <1>10, <1>11, StepAgrees
<1>13. Passes(ln, c, d(m))
  <2>1. d(m - 1) \in Cursor /\ d(m) \in Cursor
    BY <1>9, <1>12 DEF Agrees
  <2>. QED
    BY <1>1, <1>9, <1>12, <2>1, PassesOn
<1>14. d(m).col = c.col + m
  BY <1>1, <1>5, <1>9, <1>12
<1>. QED
  BY <1>5, <1>12, <1>13, <1>14

\* What find_next_nonspace finds.
LEMMA NonspaceFacts ==
  ASSUME NEW ln \in Seq(Tokens), NEW c, Agrees(ln, c)
  PROVE  LET n == NextNonspace(ln, c)
         IN  /\ n.pos \in c.off..Len(ln) /\ n.col = ColumnAt(ln, n.pos) /\ n.col \in Nat
             /\ Tok(ln, n.pos) \notin Space /\ Passes(ln, c, ToNonspace(n))
             /\ Agrees(ln, ToNonspace(n))
             /\ n.indent = n.col - c.col /\ n.indent \in Nat
             /\ n.blank \in BOOLEAN /\ (n.blank <=> n.pos = Len(ln))
<1>. DEFINE At(i) == /\ Tok(ln, i) \notin Space
                     /\ \A j \in c.off..(i-1) : Tok(ln, j) \in Space
            pos == CHOOSE i \in c.off..Len(ln) : At(i)
            Def(f) == f = [i \in c.off..pos |->
                             IF i = c.off THEN c.col
                             ELSE f[i-1] + (IF ln[i] = "tab" THEN ToTabStop(f[i-1]) ELSE 1)]
            col == CHOOSE f : Def(f)
            n   == NextNonspace(ln, c)
<1>1. n = [pos |-> pos, col |-> col[pos], indent |-> col[pos] - c.col, blank |-> pos = Len(ln)]
  BY Zenon DEF NextNonspace
<1>2. c \in Cursor /\ c.off \in Nat /\ c.col \in Nat /\ c.off <= Len(ln) /\ Len(ln) \in Nat
  BY TokFacts DEF Agrees, Cursor
<1>3. pos \in c.off..Len(ln) /\ At(pos)
  <2>. DEFINE Ends == {i \in c.off..Len(ln) : Tok(ln, i) \notin Space}
  <2>1. Ends # {} /\ Ends \subseteq Nat
    <3>1. Len(ln) \in Ends
      BY <1>2, TokFacts
    <3>. QED
      BY <1>2, <3>1
  <2>2. PICK m \in Ends : \A i \in Ends : m <= i
    <3>. HIDE DEF Ends
    <3>. QED
      BY <2>1, LeastNatural
  <2>3. m \in c.off..Len(ln) /\ Tok(ln, m) \notin Space
    BY <2>2
  <2>4. \A j \in c.off..(m - 1) : Tok(ln, j) \in Space
    <3>1. \A j \in c.off..(m - 1) : j \in c.off..Len(ln) /\ ~(m <= j)
      BY <1>2, <2>3
    <3>. QED
      BY <2>2, <3>1
  <2>5. \E i \in c.off..Len(ln) : At(i)
    BY <2>3, <2>4
  <2>. HIDE DEF At
  <2>. QED
    BY <2>5, Zenon
<1>. HIDE DEF pos
<1>. DEFINE g == [i \in c.off..pos |-> IF i = c.off THEN c.col ELSE ColumnAt(ln, i)]
<1>4. pos \in Nat
  BY <1>2, <1>3
<1>5. \A i \in c.off..pos : i # c.off =>
        ColumnAt(ln, i) = g[i-1] + (IF ln[i] = "tab" THEN ToTabStop(g[i-1]) ELSE 1)
  <2>. TAKE i \in c.off..pos
  <2>. HAVE i # c.off
  <2>. DEFINE k == ColumnAt(ln, i - 1)
  <2>1. i \in 1..Len(ln) /\ i - 1 \in c.off..pos /\ i - 1 \in 0..Len(ln) /\ i - 1 \in Nat
        /\ i - 1 < Len(ln) /\ (i - 1) + 1 = i /\ i \in Nat /\ i - 1 \in c.off..(pos - 1)
    BY <1>2, <1>3, <1>4
  <2>2. ColumnAt(ln, i) = k + Wide(ln, i, k) /\ k \in Nat
    BY <1>2, <2>1, ColumnEquation
  <2>. HIDE DEF k
  <2>3. ln[i] \in Space /\ Tok(ln, i - 1) = ln[i]
    <3>1. Tok(ln, i - 1) \in Space
      BY <1>3, <2>1
    <3>. QED
      BY <2>1, <3>1, TokFacts
  <2>4. Wide(ln, i, k) = IF ln[i] = "tab" THEN ToTabStop(k) ELSE 1
    BY <2>3 DEF Wide, Width, Space, Ordered
  <2>5. g[i-1] = IF i - 1 = c.off THEN c.col ELSE k
    BY <2>1 DEF k
  <2>. HIDE DEF g
  <2>6. CASE i - 1 = c.off /\ c.part
    <3>1. ln[i] = "tab" /\ k < c.col /\ c.col < ColumnAt(ln, i)
      BY <2>1, <2>3, <2>6 DEF Agrees, k
    <3>2. ColumnAt(ln, i) = k + ToTabStop(k)
      BY <2>2, <2>4, <3>1
    <3>3. k < c.col /\ c.col < k + ToTabStop(k) => c.col + ToTabStop(c.col) = k + ToTabStop(k)
      BY <1>2, <2>2, TabStops
    <3>4. c.col + ToTabStop(c.col) = ColumnAt(ln, i)
      BY <3>1, <3>2, <3>3
    <3>. QED
      BY <2>5, <2>6, <3>1, <3>4
  <2>7. CASE ~(i - 1 = c.off /\ c.part)
    <3>1. g[i-1] = k
      BY <2>5, <2>7 DEF Agrees, k
    <3>. QED
      BY <2>2, <2>4, <3>1
  <2>. QED
    BY <2>6, <2>7
<1>6. Def(g)
  <2>1. \A i \in c.off..pos :
          g[i] = IF i = c.off THEN c.col
                 ELSE g[i-1] + (IF ln[i] = "tab" THEN ToTabStop(g[i-1]) ELSE 1)
    <3>1. \A i \in c.off..pos : g[i] = IF i = c.off THEN c.col ELSE ColumnAt(ln, i)
      OBVIOUS
    <3>. HIDE DEF g
    <3>. QED
      BY <1>5, <3>1, Zenon
  <2>2. g = [i \in c.off..pos |-> g[i]]
    OBVIOUS
  <2>. HIDE DEF g
  <2>. QED
    BY <2>1, <2>2, Zenon
<1>7. Def(col)
  <2>. HIDE DEF g
  <2>. QED
    BY <1>6, Zenon
<1>. HIDE DEF col
<1>8. \A i \in c.off..pos : col[i] = g[i]
  <2>. DEFINE Bad == {i \in c.off..pos : col[i] # g[i]}
  <2>1. SUFFICES ASSUME Bad # {} PROVE FALSE
    OBVIOUS
  <2>2. PICK m \in Bad : \A i \in Bad : m <= i
    <3>1. Bad \subseteq Nat
      BY <1>2
    <3>. HIDE DEF Bad
    <3>. QED
      BY <2>1, <3>1, LeastNatural
  <2>3. m \in c.off..pos /\ col[m] # g[m]
    BY <2>2
  <2>. HIDE DEF g
  <2>4. /\ col[m] = IF m = c.off THEN c.col
                    ELSE col[m-1] + (IF ln[m] = "tab" THEN ToTabStop(col[m-1]) ELSE 1)
        /\ g[m] = IF m = c.off THEN c.col
                  ELSE g[m-1] + (IF ln[m] = "tab" THEN ToTabStop(g[m-1]) ELSE 1)
    BY <1>6, <1>7, <2>3, Zenon
  <2>5. m # c.off /\ col[m-1] # g[m-1]
    BY <2>3, <2>4
  <2>6. m - 1 \in c.off..pos /\ m - 1 < m /\ m \in Nat
    BY <1>2, <1>4, <2>3, <2>5
  <2>7. m - 1 \in Bad
    BY <2>5, <2>6
  <2>. HIDE DEF Bad
  <2>. QED
    BY <2>2, <2>6, <2>7
<1>9. col[pos] = ColumnAt(ln, pos) /\ c.col <= col[pos] /\ col[pos] \in Nat
  <2>1. pos \in c.off..pos /\ pos \in 0..Len(ln)
    BY <1>2, <1>3, <1>4
  <2>2. col[pos] = IF pos = c.off THEN c.col ELSE ColumnAt(ln, pos)
    BY <1>8, <2>1
  <2>3. pos = c.off => ~c.part
    BY <1>3 DEF Agrees, Space
  <2>4. col[pos] = ColumnAt(ln, pos) /\ col[pos] \in Nat
    BY <1>2, <2>1, <2>2, <2>3, ColumnEquation DEF Agrees
  <2>5. CASE pos = c.off
    BY <1>2, <2>2, <2>4, <2>5
  <2>6. CASE pos # c.off
    <3>. DEFINE Bad == {i \in (c.off + 1)..pos : ~(c.col <= ColumnAt(ln, i))}
    <3>1. Bad = {}
      <4>1. SUFFICES ASSUME Bad # {} PROVE FALSE
        OBVIOUS
      <4>2. PICK m \in Bad : \A i \in Bad : m <= i
        <5>1. Bad \subseteq Nat
          BY <1>2
        <5>. HIDE DEF Bad
        <5>. QED
          BY <4>1, <5>1, LeastNatural
      <4>3. m \in (c.off + 1)..pos /\ ~(c.col <= ColumnAt(ln, m))
        BY <4>2
      <4>4. m \in 1..Len(ln) /\ m \in Nat /\ m - 1 \in 0..Len(ln) /\ m \in 0..Len(ln)
        BY <1>2, <1>3, <1>4, <4>3
      <4>5. /\ ColumnAt(ln, m) = ColumnAt(ln, m - 1) + Wide(ln, m, ColumnAt(ln, m - 1))
            /\ ColumnAt(ln, m - 1) \in Nat /\ ColumnAt(ln, m) \in Nat
            /\ Wide(ln, m, ColumnAt(ln, m - 1)) \in Nat
        BY <1>2, <4>4, ColumnEquation, WideType
      <4>6. m - 1 # c.off
        <5>1. m - 1 = c.off => c.col <= ColumnAt(ln, m)
          BY <1>2, <4>4, <4>5 DEF Agrees
        <5>. QED
          BY <4>3, <5>1
      <4>7. m - 1 \in (c.off + 1)..pos /\ m - 1 < m
        BY <1>2, <1>4, <4>3, <4>6
      <4>8. ~(c.col <= ColumnAt(ln, m - 1))
        BY <1>2, <4>3, <4>5
      <4>9. m - 1 \in Bad
        BY <4>7, <4>8
      <4>. HIDE DEF Bad
      <4>. QED
        BY <4>2, <4>4, <4>7, <4>9
    <3>2. pos \in (c.off + 1)..pos
      BY <1>2, <1>3, <1>4, <2>6
    <3>. QED
      BY <2>4, <3>1, <3>2
  <2>. QED
    BY <2>4, <2>5, <2>6
<1>10. /\ n.pos = pos /\ n.col = col[pos] /\ n.indent = col[pos] - c.col
       /\ n.blank = (pos = Len(ln))
  BY <1>1
<1>. HIDE DEF n
<1>11. ToNonspace(n) = [off |-> pos, col |-> col[pos], part |-> FALSE]
  BY <1>10 DEF ToNonspace
<1>12. Agrees(ln, ToNonspace(n))
  BY <1>2, <1>3, <1>4, <1>9, <1>11 DEF Agrees, Cursor
<1>13. Passes(ln, c, ToNonspace(n))
  BY <1>2, <1>3, <1>11 DEF Passes
<1>14. n.indent = n.col - c.col /\ n.indent \in Nat
  BY <1>2, <1>9, <1>10
<1>15. n.blank \in BOOLEAN /\ (n.blank <=> n.pos = Len(ln))
  BY <1>10
<1>16. n.pos \in c.off..Len(ln) /\ n.col = ColumnAt(ln, n.pos) /\ n.col \in Nat
  BY <1>3, <1>9, <1>10
<1>17. Tok(ln, n.pos) \notin Space
  BY <1>3, <1>10
<1>. QED
  BY <1>12, <1>13, <1>14, <1>15, <1>16, <1>17 DEF n

\* As many columns as there are before the next non-space character.
LEMMA AdvanceIndent ==
  ASSUME NEW ln \in Seq(Tokens), NEW c, Agrees(ln, c), NEW k \in Nat,
         k <= NextNonspace(ln, c).indent
  PROVE  Agrees(ln, Advance(ln, c, k)) /\ Passes(ln, c, Advance(ln, c, k))
<1>. DEFINE n   == NextNonspace(ln, c)
            Bad == {j \in 0..(k - 1) : Tok(ln, Advance(ln, c, j).off) \notin Space}
<1>1. /\ n.pos \in c.off..Len(ln) /\ n.col = ColumnAt(ln, n.pos) /\ n.col \in Nat
      /\ Tok(ln, n.pos) \notin Space /\ Passes(ln, c, ToNonspace(n))
      /\ n.indent = n.col - c.col /\ n.indent \in Nat
  BY NonspaceFacts
<1>2. c \in Cursor /\ c.off \in Nat /\ c.col \in Nat /\ k <= n.indent /\ Len(ln) \in Nat
  BY TokFacts DEF Agrees, Cursor
<1>. HIDE DEF n
<1>3. ToNonspace(n).off = n.pos
  BY DEF ToNonspace
<1>4. SUFFICES Bad = {}
  <2>1. Bad = {} => \A j \in 0..(k - 1) : Tok(ln, Advance(ln, c, j).off) \in Space
    OBVIOUS
  <2>. HIDE DEF Bad
  <2>. QED
    BY <2>1, AdvanceOver
<1>5. SUFFICES ASSUME Bad # {} PROVE FALSE
  OBVIOUS
<1>6. PICK m \in Bad : \A j \in Bad : m <= j
  <2>1. Bad \subseteq Nat
    OBVIOUS
  <2>. HIDE DEF Bad
  <2>. QED
    BY <1>5, <2>1, LeastNatural
<1>. DEFINE d == Advance(ln, c, m)
<1>7. m \in 0..(k - 1) /\ m \in Nat /\ Tok(ln, d.off) \notin Space
  BY <1>6
<1>8. \A j \in 0..(m - 1) : Tok(ln, Advance(ln, c, j).off) \in Space
  <2>1. \A j \in 0..(m - 1) : j \in 0..(k - 1) /\ ~(m <= j)
    BY <1>7
  <2>. QED
    BY <1>6, <2>1
<1>9. Agrees(ln, d) /\ Passes(ln, c, d) /\ d.col = c.col + m
  BY <1>7, <1>8, AdvanceOver
<1>. HIDE DEF d
<1>10. d \in Cursor /\ d.off \in Nat /\ c.off <= d.off /\ c.off <= n.pos /\ n.pos \in Nat
  BY <1>1, <1>2, <1>9 DEF Agrees, Cursor, Passes
<1>11. ~(d.off < n.pos)
  <2>1. d.off < n.pos => d.off \in c.off..(n.pos - 1)
    BY <1>2, <1>10
  <2>. QED
    BY <1>1, <1>3, <1>7, <2>1 DEF Passes
<1>12. ~(n.pos < d.off)
  <2>1. n.pos < d.off => n.pos \in c.off..(d.off - 1)
    BY <1>2, <1>10
  <2>. QED
    BY <1>1, <1>9, <2>1 DEF Passes
<1>13. d.off = n.pos
  BY <1>10, <1>11, <1>12
<1>14. d.col = n.col
  BY <1>1, <1>7, <1>9, <1>13 DEF Agrees, Space
<1>. QED
  BY <1>1, <1>2, <1>7, <1>9, <1>14

\* Past a token that is no space the cursor stands at the next token's column.
LEMMA MarkerAgrees ==
  ASSUME NEW ln \in Seq(Tokens), NEW c, Agrees(ln, c), Tok(ln, c.off) \notin Space \cup {"end"}
  PROVE  Agrees(ln, PastMarker(ln, c)) /\ PastMarker(ln, c).off = c.off + 1
<1>1. /\ c \in Cursor /\ c.off \in Nat /\ c.col \in Nat /\ Len(ln) \in Nat /\ c.off <= Len(ln)
      /\ c.off < Len(ln) /\ Tok(ln, c.off) = ln[c.off + 1]
  BY TokFacts DEF Agrees, Cursor
<1>2. ~c.part /\ c.col = ColumnAt(ln, c.off)
  BY DEF Agrees, Space
<1>3. c.off + 1 \in 1..Len(ln) /\ (c.off + 1) - 1 = c.off
  BY <1>1
<1>4. ColumnAt(ln, c.off + 1) = c.col + Wide(ln, c.off + 1, c.col)
  BY <1>1, <1>2, <1>3, ColumnEquation
<1>5. Wide(ln, c.off + 1, c.col) = Width(Tok(ln, c.off)) /\ Width(Tok(ln, c.off)) \in Nat
  BY <1>1, WidthType DEF Wide, Space
<1>. DEFINE d == PastMarker(ln, c)
<1>6. d = [off |-> c.off + 1, col |-> c.col + Width(Tok(ln, c.off)), part |-> FALSE]
  BY DEF PastMarker
<1>. HIDE DEF d
<1>7. d.off = c.off + 1 /\ d.col = ColumnAt(ln, c.off + 1) /\ ~d.part /\ d \in Cursor
  BY <1>1, <1>4, <1>5, <1>6 DEF Cursor
<1>8. d.off <= Len(ln)
  BY <1>1, <1>3, <1>7
<1>9. Agrees(ln, d) /\ d.off = c.off + 1
  BY <1>7, <1>8 DEF Agrees
<1>. QED
  BY <1>9 DEF d

(***************************************************************************)
(* Nothing that could be kept is passed over                               *)
(***************************************************************************)
\* The cursor agrees, and has no definition's label behind it unless it is at
\* the end of the line.
CursorOk(ln, c) ==
  /\ Agrees(ln, c)
  /\ c.off = Len(ln) \/ \A i \in 1..c.off : ln[i] \notin Labels

LEMMA OkPasses ==
  ASSUME NEW ln \in Seq(Tokens), NEW c, CursorOk(ln, c), NEW d, Agrees(ln, d), Passes(ln, c, d)
  PROVE  CursorOk(ln, d)
<1>1. /\ c.off \in Nat /\ d.off \in Nat /\ Len(ln) \in Nat /\ c.off <= d.off
      /\ c.off <= Len(ln) /\ d.off <= Len(ln)
  BY TokFacts DEF CursorOk, Agrees, Cursor, Passes
<1>2. CASE c.off = Len(ln)
  BY <1>1, <1>2 DEF CursorOk
<1>3. CASE \A i \in 1..c.off : ln[i] \notin Labels
  <2>1. ASSUME NEW i \in 1..d.off, ~(i <= c.off) PROVE ln[i] \notin Labels
    <3>1. i - 1 \in c.off..(d.off - 1) /\ i - 1 \in Nat /\ i - 1 < Len(ln) /\ (i - 1) + 1 = i
      BY <1>1, <2>1
    <3>2. ln[i] \in Space
      BY <3>1, TokFacts DEF Passes
    <3>. QED
      BY <3>2 DEF Space, Labels
  <2>2. \A i \in 1..d.off : i <= c.off => i \in 1..c.off
    BY <1>1
  <2>. QED
    BY <1>3, <2>1, <2>2 DEF CursorOk
<1>. QED
  BY <1>2, <1>3 DEF CursorOk

LEMMA OkNonspace ==
  ASSUME NEW ln \in Seq(Tokens), NEW c, CursorOk(ln, c)
  PROVE  /\ CursorOk(ln, ToNonspace(NextNonspace(ln, c)))
         /\ NextNonspace(ln, c).indent \in Nat /\ NextNonspace(ln, c).pos \in Nat
         /\ ToNonspace(NextNonspace(ln, c)).off = NextNonspace(ln, c).pos
         /\ Tok(ln, NextNonspace(ln, c).pos) \notin Space
<1>. DEFINE n == NextNonspace(ln, c)
<1>1. /\ Agrees(ln, ToNonspace(n)) /\ Passes(ln, c, ToNonspace(n)) /\ n.indent \in Nat
      /\ n.pos \in c.off..Len(ln) /\ Tok(ln, n.pos) \notin Space
  BY NonspaceFacts DEF CursorOk
<1>. HIDE DEF n
<1>2. CursorOk(ln, ToNonspace(n))
  BY <1>1, OkPasses
<1>3. n.pos \in Nat
  BY <1>1, TokFacts DEF CursorOk, Agrees, Cursor
<1>4. ToNonspace(n).off = n.pos
  BY DEF ToNonspace
<1>. QED
  BY <1>1, <1>2, <1>3, <1>4 DEF n

LEMMA OkOptional ==
  ASSUME NEW ln \in Seq(Tokens), NEW c, CursorOk(ln, c)
  PROVE  CursorOk(ln, OptionalSpace(ln, c))
  BY StepAgrees, OkPasses DEF OptionalSpace, CursorOk

LEMMA OkAdvance ==
  ASSUME NEW ln \in Seq(Tokens), NEW c, CursorOk(ln, c), NEW k \in Nat,
         \/ k <= NextNonspace(ln, c).indent
         \/ \A j \in 0..(k - 1) : Tok(ln, Advance(ln, c, j).off) \in Space
  PROVE  CursorOk(ln, Advance(ln, c, k))
  BY AdvanceIndent, AdvanceOver, OkPasses DEF CursorOk

LEMMA OkMarker ==
  ASSUME NEW ln \in Seq(Tokens), NEW c, CursorOk(ln, c),
         Tok(ln, c.off) \notin Space \cup Labels \cup {"end"}
  PROVE  CursorOk(ln, PastMarker(ln, c))
<1>. DEFINE d == PastMarker(ln, c)
<1>1. Agrees(ln, d) /\ d.off = c.off + 1
  BY MarkerAgrees DEF CursorOk
<1>2. /\ c.off \in Nat /\ c.off < Len(ln) /\ Tok(ln, c.off) = ln[c.off + 1] /\ Len(ln) \in Nat
  BY TokFacts DEF CursorOk, Agrees, Cursor
<1>. HIDE DEF d
<1>3. \A i \in 1..c.off : ln[i] \notin Labels
  BY <1>2 DEF CursorOk
<1>4. \A i \in 1..d.off : i \in 1..c.off \/ i = c.off + 1
  BY <1>1, <1>2
<1>5. CursorOk(ln, d)
  BY <1>1, <1>2, <1>3, <1>4 DEF CursorOk
<1>. QED
  BY <1>5 DEF d

LEMMA OkEnds ==
  ASSUME NEW ln \in Seq(Tokens)
  PROVE  CursorOk(ln, LineStart) /\ CursorOk(ln, ToLineEnd(ln))
<1>1. Len(ln) \in Nat /\ 0 \in 0..Len(ln) /\ Len(ln) \in 0..Len(ln)
  BY TokFacts
<1>2. ColumnAt(ln, 0) = 0 /\ ColumnAt(ln, Len(ln)) \in Nat
  BY <1>1, ColumnEquation
<1>3. LineStart \in Cursor /\ ToLineEnd(ln) \in Cursor
  BY <1>1, <1>2 DEF LineStart, ToLineEnd, Cursor
<1>4. CursorOk(ln, LineStart)
  BY <1>1, <1>2, <1>3 DEF CursorOk, Agrees, LineStart
<1>5. CursorOk(ln, ToLineEnd(ln))
  BY <1>1, <1>2, <1>3 DEF CursorOk, Agrees, ToLineEnd
<1>. QED
  BY <1>4, <1>5

LEMMA FirstStop ==
  ASSUME NEW lo \in Nat, NEW hi \in Nat, lo <= hi, NEW S
  PROVE  \E k \in lo..hi : (k = hi \/ k \in S) /\ \A j \in lo..(k - 1) : j \notin S
<1>. DEFINE T == {k \in lo..hi : k = hi \/ k \in S}
<1>1. T \subseteq Nat /\ hi \in T
  OBVIOUS
<1>2. PICK k \in T : \A j \in T : k <= j
  <2>. HIDE DEF T
  <2>. QED
    BY <1>1, LeastNatural
<1>3. k \in lo..hi /\ (k = hi \/ k \in S)
  BY <1>2
<1>4. \A j \in lo..(k - 1) : j \in lo..hi /\ ~(k <= j)
  BY <1>3
<1>5. \A j \in lo..(k - 1) : j \notin S
  BY <1>2, <1>4
<1>. QED
  BY <1>3, <1>5

\* Past a list marker and the space that belongs to it.
LEMMA OkListMarker ==
  ASSUME NEW ln \in Seq(Tokens), NEW c, CursorOk(ln, c), NEW p,
         IsListMarker(ln, NextNonspace(ln, c), p)
  PROVE  LET lm == ListMarker(ln, NextNonspace(ln, c))
         IN  CursorOk(ln, lm.cur) /\ lm.indent \in Nat
<1>. DEFINE n     == NextNonspace(ln, c)
            m     == PastMarker(ln, ToNonspace(n))
            width == Width(Tok(ln, n.pos))
            Ok(k) == /\ k = 5 \/ Tok(ln, Advance(ln, m, k).off) \notin Space
                     /\ \A j \in 1..(k-1) : Tok(ln, Advance(ln, m, j).off) \in Space
            taken == CHOOSE k \in 1..5 : Ok(k)
            far   == Advance(ln, m, taken)
            short == (far.col - m.col) \notin 1..4 \/ Tok(ln, far.off) = "end"
            lm    == ListMarker(ln, n)
<1>1. lm = [indent |-> n.indent + width + (IF short THEN 1 ELSE far.col - m.col),
            cur    |-> IF short THEN OptionalSpace(ln, m) ELSE far]
  BY Zenon DEF ListMarker
<1>2. /\ CursorOk(ln, ToNonspace(n)) /\ n.indent \in Nat /\ ToNonspace(n).off = n.pos
      /\ Tok(ln, n.pos) \in Bullets \cup Ordered /\ n.pos \in Nat
      /\ Tok(ln, n.pos + 1) \in Space \cup {"end"}
  BY OkNonspace DEF IsListMarker
<1>. HIDE DEF n
<1>3. CursorOk(ln, m) /\ m.off = n.pos + 1 /\ m.col \in Nat /\ m \in Cursor
  <2>1. Tok(ln, n.pos) \notin Space \cup Labels \cup {"end"}
    BY <1>2 DEF Bullets, Ordered, Space, Labels
  <2>2. CursorOk(ln, m)
    BY <1>2, <2>1, OkMarker
  <2>3. m.off = n.pos + 1
    BY <1>2 DEF PastMarker
  <2>. HIDE DEF m
  <2>. QED
    BY <2>2, <2>3 DEF CursorOk, Agrees, Cursor
<1>. HIDE DEF m
<1>4. taken \in 1..5 /\ Ok(taken)
  <2>1. \E k \in 1..5 : Ok(k)
    <3>. DEFINE T == {k \in 1..5 : Tok(ln, Advance(ln, m, k).off) \notin Space}
    <3>1. \E k \in 1..5 : (k = 5 \/ k \in T) /\ \A j \in 1..(k - 1) : j \notin T
      <4>. HIDE DEF T
      <4>. QED
        BY FirstStop, 1 \in Nat, 5 \in Nat, 1 <= 5
    <3>2. \A k \in 1..5 : \A j \in 1..(k - 1) : j \in 1..5
      OBVIOUS
    <3>3. \A k \in 1..5 : k \in T <=> Tok(ln, Advance(ln, m, k).off) \notin Space
      OBVIOUS
    <3>. HIDE DEF T
    <3>. QED
      BY <3>1, <3>2, <3>3
  <2>. HIDE DEF Ok
  <2>. QED
    BY <2>1, Zenon
<1>. HIDE DEF taken
<1>5. CursorOk(ln, far)
  <2>1. CASE Tok(ln, m.off) = "end"
    <3>1. Step(ln, m) = m /\ Advance(ln, m, 0) = m
      BY <1>3, <2>1, AdvanceEquation DEF Step
    <3>2. Advance(ln, m, 1) = m
      BY <1>3, <3>1, AdvanceEquation, 0 + 1 = 1
    <3>3. Tok(ln, Advance(ln, m, 1).off) \notin Space
      BY <2>1, <3>2, TokFacts
    <3>4. taken = 1
      <4>1. taken # 1 => 1 \in 1..(taken - 1)
        BY <1>4
      <4>. QED
        BY <1>4, <3>3, <4>1
    <3>. QED
      BY <1>3, <3>2, <3>4
  <2>2. CASE Tok(ln, m.off) # "end"
    <3>1. Tok(ln, m.off) \in Space /\ Advance(ln, m, 0) = m
      BY <1>2, <1>3, <2>2, AdvanceEquation
    <3>2. \A j \in 0..(taken - 1) : j = 0 \/ j \in 1..(taken - 1)
      OBVIOUS
    <3>3. \A j \in 0..(taken - 1) : Tok(ln, Advance(ln, m, j).off) \in Space
      BY <1>4, <3>1, <3>2
    <3>4. taken \in Nat
      BY <1>4
    <3>. QED
      BY <1>3, <3>3, <3>4, OkAdvance
  <2>. QED
    BY <2>1, <2>2
<1>. HIDE DEF far, Ok
<1>6. lm.cur = (IF short THEN OptionalSpace(ln, m) ELSE far)
      /\ lm.indent = n.indent + width + (IF short THEN 1 ELSE far.col - m.col)
  BY <1>1
<1>7. CursorOk(ln, lm.cur)
  BY <1>3, <1>5, <1>6, OkOptional
<1>8. lm.indent \in Nat
  <2>. DEFINE more == IF short THEN 1 ELSE far.col - m.col
  <2>1. more \in Nat
    OBVIOUS
  <2>2. width \in Nat
    BY WidthType
  <2>3. lm.indent = n.indent + width + more
    BY <1>6
  <2>. HIDE DEF more, width, lm
  <2>. QED
    BY <1>2, <2>1, <2>2, <2>3
<1>. QED
  BY <1>7, <1>8 DEF n

(***************************************************************************)
(* The cursor in the block phase                                           *)
(***************************************************************************)
\* A block has the measures the walk advances by.
Measured(b) == {"indent", "inset"} \subseteq DOMAIN b /\ b.indent \in Nat /\ b.inset \in Nat

AllMeasured(f) == DOMAIN f = Node /\ \A n \in Node : Measured(f[n])
PendMeasured == Opening => \A i \in 1..Len(pend) : Measured(pend[i].blk)

\* A line is being read.
AtWork == pc \notin {"read", "finish", "done"}

CursorAtWork ==
  AtWork => /\ lineNo > 0
            /\ CursorOk(line, cur) /\ CursorOk(line, ToNonspace(nx))

\* The inductive strengthening of CursorAgrees.
CursorIInv == DatedIInv /\ AllMeasured(blk) /\ PendMeasured /\ CursorAtWork

LEMMA LineIsTokens ==
  ASSUME input \in Seq(Lines), lineNo > 0
  PROVE  line \in Seq(Tokens)
<1>1. line \in Lines
  BY DEF line, lineNo
<1>. QED
  BY <1>1, BlockPhaseAssumption

LEMMA RecordMeasured ==
  ASSUME NEW r, Measured(r), NEW v
  PROVE  /\ Measured([r EXCEPT !.start = v]) /\ Measured([r EXCEPT !.end = v])
         /\ Measured([r EXCEPT !.of = v]) /\ Measured([r EXCEPT !.content = v])
         /\ Measured([r EXCEPT !.rows = v]) /\ Measured([r EXCEPT !.tight = v])
         /\ Measured([r EXCEPT !.task = v])
  BY DEF Measured

LEMMA NodeMeasured ==
  ASSUME NEW f, AllMeasured(f), NEW m, NEW b, m \in Node => Measured(b)
  PROVE  AllMeasured([f EXCEPT ![m] = b])
<1>. DEFINE g == [f EXCEPT ![m] = b]
<1>1. DOMAIN g = Node /\ \A n \in Node : g[n] = IF n = m THEN b ELSE f[n]
  BY DEF AllMeasured
<1>. HIDE DEF g
<1>2. \A n \in Node : Measured(g[n])
  BY <1>1 DEF AllMeasured
<1>3. AllMeasured(g)
  BY <1>1, <1>2 DEF AllMeasured
<1>. QED
  BY <1>3 DEF g

\* Any field but the measures may change.
LEMMA FieldMeasured ==
  ASSUME NEW f, AllMeasured(f), NEW m, NEW v
  PROVE  /\ AllMeasured([f EXCEPT ![m] = [f[m] EXCEPT !.end = v]])
         /\ AllMeasured([f EXCEPT ![m] = [f[m] EXCEPT !.of = v]])
         /\ AllMeasured([f EXCEPT ![m] = [f[m] EXCEPT !.content = v]])
         /\ AllMeasured([f EXCEPT ![m] = [f[m] EXCEPT !.rows = v]])
         /\ AllMeasured([f EXCEPT ![m] = [f[m] EXCEPT !.tight = v]])
<1>1. m \in Node =>
        /\ Measured([f[m] EXCEPT !.end = v]) /\ Measured([f[m] EXCEPT !.of = v])
        /\ Measured([f[m] EXCEPT !.content = v]) /\ Measured([f[m] EXCEPT !.rows = v])
        /\ Measured([f[m] EXCEPT !.tight = v])
  BY RecordMeasured DEF AllMeasured
<1>. QED
  BY <1>1, NodeMeasured, Zenon

LEMMA NewMeasured ==
  /\ Measured(NewBlk) /\ Measured([NewBlk EXCEPT !.start = 1])
  /\ \A x, y : /\ Measured([NewBlk EXCEPT !.start = x, !.content = y])
               /\ Measured([NewBlk EXCEPT !.cols = x, !.rows = y])
               /\ Measured([NewBlk EXCEPT !.content = x])
               /\ Measured([NewBlk EXCEPT !.kind = x])
               /\ y \in Nat => /\ Measured([NewBlk EXCEPT !.fence = x, !.inset = y])
                               /\ Measured([NewBlk EXCEPT !.mark = x, !.indent = y])
  BY DEF Measured, NewBlk

LEMMA ClosingMeasured ==
  ASSUME AllMeasured(blk), NEW x, NEW content, NEW at, NEW of, FinalizeWith(x, content, at, of)
  PROVE  AllMeasured(blk')
<1>. DEFINE k     == IF type[x] = "para" THEN Definitions(content) ELSE 0
            e     == EndOf(x, at, of)
            left  == AfterDefinitions(content, k)
            one   == [blk EXCEPT ![x] = [blk[x] EXCEPT !.end = e[1]]]
            two   == [one EXCEPT ![x] = [one[x] EXCEPT !.of = e[2]]]
            dated == [two EXCEPT ![x] = [two[x] EXCEPT !.content = left]]
            rows  == BodyRows(x).rows
            rowed == [dated EXCEPT ![x] = [dated[x] EXCEPT !.rows = rows]]
            loose == [dated EXCEPT ![x] = [dated[x] EXCEPT !.tight = FALSE]]
            child == tree.first[x]
<1>1. \/ blk' = dated
      \/ blk' = [rowed EXCEPT ![x] = [rowed[x] EXCEPT !.content = <<>>]]
      \/ blk' = [loose EXCEPT ![child] = [loose[child] EXCEPT !.tight = FALSE]]
  <2>. HIDE DEF k, e, rows, left, child
  <2>. QED
    BY DEF FinalizeWith, k, e, rows, left, child
<1>. HIDE DEF k, e, rows, left, child
<1>2. AllMeasured(dated)
  <2>1. AllMeasured(one)
    BY FieldMeasured, Zenon
  <2>. HIDE DEF one
  <2>2. AllMeasured(two)
    BY <2>1, FieldMeasured, Zenon
  <2>. HIDE DEF two
  <2>. QED
    BY <2>2, FieldMeasured, Zenon
<1>. HIDE DEF dated
<1>3. AllMeasured(rowed) /\ AllMeasured(loose)
  BY <1>2, FieldMeasured, Zenon
<1>. HIDE DEF rowed, loose
<1>4. /\ AllMeasured([rowed EXCEPT ![x] = [rowed[x] EXCEPT !.content = <<>>]])
      /\ AllMeasured([loose EXCEPT ![child] = [loose[child] EXCEPT !.tight = FALSE]])
  BY <1>3, FieldMeasured, Zenon
<1>. QED
  BY <1>1, <1>2, <1>4, Zenon

\* What a step of the block phase owes to the cursor.
CursorKept == AllMeasured(blk') /\ PendMeasured' /\ CursorAtWork'

\* A step that leaves the line and the cursor alone.
LEMMA CursorStays ==
  ASSUME CursorAtWork, UNCHANGED <<input, cur, nx>>, AtWork \/ ~AtWork'
  PROVE  CursorAtWork'
  BY DEF CursorAtWork, line, lineNo

LEMMA WorkFacts ==
  ASSUME CursorIInv, AtWork
  PROVE  /\ line \in Seq(Tokens) /\ lineNo > 0 /\ input \in Seq(Lines)
         /\ CursorOk(line, cur) /\ CursorOk(line, ToNonspace(nx)) /\ AllMeasured(blk)
         /\ LET n == NextNonspace(line, cur)
            IN  /\ CursorOk(line, ToNonspace(n)) /\ n.indent \in Nat
                /\ ToNonspace(n).off = n.pos /\ Tok(line, n.pos) \notin Space
<1>1. /\ input \in Seq(Lines) /\ lineNo > 0 /\ AllMeasured(blk)
      /\ CursorOk(line, cur) /\ CursorOk(line, ToNonspace(nx))
  BY DatedFacts DEF CursorIInv, CursorAtWork
<1>2. line \in Seq(Tokens)
  BY <1>1, LineIsTokens
<1>. QED
  BY <1>1, <1>2, OkNonspace

\* Whatever a block asks of the line before it goes on, the cursor agrees.
LEMMA ContinueOk ==
  ASSUME CursorIInv, AtWork, NEW x \in Node
  PROVE  CursorOk(line, Continue(x, NextNonspace(line, cur)).cur)
<1>. DEFINE n == NextNonspace(line, cur)
<1>1. /\ line \in Seq(Tokens) /\ CursorOk(line, cur) /\ CursorOk(line, ToNonspace(n))
      /\ n.indent \in Nat /\ ToNonspace(n).off = n.pos
      /\ blk[x].indent \in Nat /\ blk[x].inset \in Nat
  BY WorkFacts DEF AllMeasured, Measured
<1>2. \A c : No(c).cur = c /\ Yes(c).cur = c
  BY DEF No, Yes
<1>3. CursorOk(line, ContinueQuote(x, n).cur)
  <2>1. Tok(line, n.pos) = ">" => Tok(line, n.pos) \notin Space \cup Labels \cup {"end"}
    BY DEF Space, Labels
  <2>2. Tok(line, n.pos) = ">" => CursorOk(line, PastMarker(line, ToNonspace(n)))
    BY <1>1, <2>1, OkMarker
  <2>3. Tok(line, n.pos) = ">" =>
          CursorOk(line, OptionalSpace(line, PastMarker(line, ToNonspace(n))))
    BY <1>1, <2>2, OkOptional
  <2>. HIDE DEF n
  <2>. QED
    BY <1>1, <1>2, <2>3 DEF ContinueQuote
<1>4. CursorOk(line, ContinueItem(x, n).cur)
  <2>1. blk[x].indent <= n.indent => CursorOk(line, Advance(line, cur, blk[x].indent))
    BY <1>1, OkAdvance
  <2>2. n.indent >= blk[x].indent => blk[x].indent <= n.indent
    BY <1>1
  <2>. HIDE DEF n
  <2>3. \/ ContinueItem(x, n) = No(cur) \/ ContinueItem(x, n) = Yes(ToNonspace(n))
        \/ n.indent >= blk[x].indent /\ ContinueItem(x, n) = Yes(Advance(line, cur, blk[x].indent))
    BY <1>1 DEF ContinueItem
  <2>. QED
    BY <1>1, <1>2, <2>1, <2>2, <2>3
<1>5. CursorOk(line, ContinueCode(x, n).cur)
  <2>. DEFINE Ok(k) == /\ k = blk[x].inset \/ Tok(line, Advance(line, cur, k).off) \notin Space
                       /\ \A j \in 0..(k-1) : Tok(line, Advance(line, cur, j).off) \in Space
              spaces == CHOOSE k \in 0..blk[x].inset : Ok(k)
  <2>1. spaces \in 0..blk[x].inset /\ Ok(spaces)
    <3>. DEFINE T == {k \in 0..blk[x].inset : Tok(line, Advance(line, cur, k).off) \notin Space}
    <3>1. \E k \in 0..blk[x].inset : (k = blk[x].inset \/ k \in T) /\ \A j \in 0..(k - 1) : j \notin T
      <4>1. 0 \in Nat /\ 0 <= blk[x].inset
        BY <1>1
      <4>. HIDE DEF T
      <4>. QED
        BY <1>1, <4>1, FirstStop
    <3>2. \A k \in 0..blk[x].inset : \A j \in 0..(k - 1) : j \in 0..blk[x].inset
      BY <1>1
    <3>3. \A k \in 0..blk[x].inset :
            k \in T <=> Tok(line, Advance(line, cur, k).off) \notin Space
      OBVIOUS
    <3>. HIDE DEF T
    <3>4. \E k \in 0..blk[x].inset : Ok(k)
      BY <3>1, <3>2, <3>3
    <3>. HIDE DEF Ok
    <3>. QED
      BY <3>4, Zenon
  <2>2. \/ ContinueCode(x, n) = Yes(Advance(line, cur, spaces))
        \/ Indented(n) /\ ContinueCode(x, n) = Yes(Advance(line, cur, CodeIndent))
        \/ ContinueCode(x, n) = Yes(ToNonspace(n)) \/ ContinueCode(x, n) = No(cur)
    <3>1. CASE Fenced(x)
      BY <3>1, Zenon DEF ContinueCode
    <3>2. CASE ~Fenced(x)
      <4>. HIDE DEF n, spaces
      <4>. QED
        BY <3>2 DEF ContinueCode
    <3>. QED
      BY <3>1, <3>2
  <2>. HIDE DEF spaces, n
  <2>3. spaces \in Nat
    BY <1>1, <2>1
  <2>4. CursorOk(line, Advance(line, cur, spaces))
    BY <1>1, <2>1, <2>3, OkAdvance
  <2>5. Indented(n) => CursorOk(line, Advance(line, cur, CodeIndent))
    <3>1. Indented(n) => CodeIndent <= n.indent /\ CodeIndent \in Nat
      BY <1>1 DEF Indented, CodeIndent
    <3>. QED
      BY <1>1, <3>1, OkAdvance DEF n
  <2>. QED
    BY <1>1, <1>2, <2>2, <2>4, <2>5
<1>. HIDE DEF n
<1>6. \/ Continue(x, n) = ContinueQuote(x, n) \/ Continue(x, n) = ContinueItem(x, n)
      \/ Continue(x, n) = ContinueCode(x, n) \/ Continue(x, n) = Yes(cur) \/ Continue(x, n) = No(cur)
  BY DEF Continue
<1>7. CursorOk(line, Continue(x, n).cur)
  BY <1>1, <1>2, <1>3, <1>4, <1>5, <1>6
<1>. QED
  BY <1>7 DEF n

LEMMA WalkCursor ==
  ASSUME CursorIInv, ReadLine \/ Walk
  PROVE  CursorKept
<1>1. /\ input \in Seq(Lines) /\ Shape /\ Pointers /\ AllMeasured(blk) /\ CursorAtWork
  BY DatedFacts DEF CursorIInv
<1>2. CASE ReadLine
  <2>1. PICK ln \in Lines : input' = Append(input, ln)
    BY <1>2 DEF ReadLine
  <2>2. /\ cur' = LineStart /\ nx' = [pos |-> 0, col |-> 0, indent |-> 0, blank |-> FALSE]
        /\ pc' = "walk" /\ blk' = blk
    BY <1>2 DEF ReadLine, treeVars
  <2>3. Len(input') \in Nat /\ Len(input') > 0 /\ input'[Len(input')] = ln
    BY <1>1, <2>1
  <2>4. CursorOk(ln, LineStart)
    BY BlockPhaseAssumption, OkEnds
  <2>5. ToNonspace(nx') = LineStart
    BY <2>2 DEF ToNonspace, LineStart
  <2>6. CursorAtWork'
    BY <2>2, <2>3, <2>4, <2>5 DEF CursorAtWork, line, lineNo
  <2>. QED
    BY <1>1, <2>2, <2>6 DEF CursorKept, PendMeasured, Opening
<1>3. CASE ContinueMatched \/ ContinueNotMatched \/ NoMoreOpen
  <2>. DEFINE child == NextOpen(cont)
              n     == NextNonspace(line, cur)
  <2>1. /\ pc = "walk" /\ UNCHANGED <<blk, input>> /\ pc' \in {"walk", "starts", "text"}
    BY <1>3 DEF ContinueMatched, ContinueNotMatched, NoMoreOpen, WalkEnds, treeVars
  <2>2. \/ nx' = n /\ cur' = Continue(child, n).cur /\ child # Nil
        \/ nx' = n /\ cur' = cur
        \/ UNCHANGED <<nx, cur>>
    BY <1>3 DEF ContinueMatched, ContinueNotMatched, NoMoreOpen, WalkEnds, cursorVars
  <2>3. child # Nil => child \in Node
    <3>1. open \subseteq 1..used /\ used \in Node
      BY <1>1 DEF Shape
    <3>2. child # Nil => child \in open
      BY DEF NextOpen
    <3>3. 1..used \subseteq Node
      BY <3>1, MaxNodesAssumption DEF Node
    <3>. QED
      BY <3>1, <3>2, <3>3
  <2>4. AtWork
    BY <2>1 DEF AtWork
  <2>5. /\ CursorOk(line, cur) /\ CursorOk(line, ToNonspace(nx)) /\ CursorOk(line, ToNonspace(n))
        /\ (child # Nil => CursorOk(line, Continue(child, n).cur)) /\ lineNo > 0
    BY <2>3, <2>4, WorkFacts, ContinueOk
  <2>. HIDE DEF child, n
  <2>6. line' = line /\ lineNo' = lineNo
    BY <2>1 DEF line, lineNo
  <2>7. CursorAtWork'
    BY <2>2, <2>5, <2>6 DEF CursorAtWork
  <2>. QED
    BY <1>1, <2>1, <2>7 DEF CursorKept, PendMeasured, Opening
<1>4. CASE CloseFence
  <2>1. pc' = "read" /\ \E x : Finalize(x, lineNo, lineNo)
    BY <1>4 DEF CloseFence
  <2>2. AllMeasured(blk')
    BY <1>1, <2>1, ClosingMeasured DEF Finalize
  <2>. QED
    BY <2>1, <2>2 DEF CursorKept, CursorAtWork, AtWork, PendMeasured, Opening
<1>. QED
  BY <1>2, <1>3, <1>4 DEF Walk

\* What a start that takes the line has seen of it.
LEMMA TakenBy ==
  ASSUME NEW n, NEW k, Takes(k, n)
  PROVE  /\ k = 0 => Tok(line, n.pos) = ">"
         /\ k = 2 => Tok(line, n.pos) \in Fences
         /\ k = 6 => IsListMarker(line, n, type[cont] = "para")
         /\ k = 7 => Indented(n)
<1>1. /\ k = 0 => IsQuote(n)
      /\ k = 2 => OpensFence(line, n.pos)
      /\ k = 6 => IsItem(n)
      /\ k = 7 => IsIndentedCode(n)
  BY DEF Takes, Takers
<1>. QED
  BY <1>1 DEF IsQuote, OpensFence, IsItem, IsIndentedCode

LEMMA StartCursor ==
  ASSUME CursorIInv, Start
  PROVE  CursorKept
<1>. DEFINE n == NextNonspace(line, cur)
<1>1. /\ pc = "starts" /\ UNCHANGED <<blk, input>> /\ pc' \in {"close", "text"}
      /\ nx' = n
  BY DEF Start, StartQuote, StartHeading, StartFence, StartHtml, StartSetext, StartBreak, StartItem,
         StartIndentedCode, StartTable, NoStart, Begin, treeVars
<1>2. AtWork
  BY <1>1 DEF AtWork
<1>3. /\ line \in Seq(Tokens) /\ lineNo > 0 /\ CursorOk(line, cur) /\ AllMeasured(blk)
      /\ CursorOk(line, ToNonspace(n)) /\ n.indent \in Nat /\ ToNonspace(n).off = n.pos
      /\ PendMeasured
  BY <1>2, WorkFacts DEF CursorIInv
<1>4. line' = line /\ lineNo' = lineNo
  BY <1>1 DEF line, lineNo
<1>5. SUFFICES CursorOk(line, cur') /\ PendMeasured'
  <2>. HIDE DEF n
  <2>. QED
    BY <1>1, <1>3, <1>4 DEF CursorKept, CursorAtWork
<1>6. ASSUME NEW k, NEW g, NEW blocks, NEW c, NEW then, Begin(k, g, blocks, c, then)
      PROVE  Takes(k, n) /\ pend' = blocks /\ goal' = g /\ pc' = "close" /\ cur' = c
  BY <1>6 DEF Begin
<1>7. \A t, f : Block(t, f).blk = f
  BY DEF Block
<1>8. ASSUME NEW b, pend' = <<b>>, Measured(b.blk) PROVE PendMeasured'
  BY <1>8 DEF PendMeasured
<1>9. CursorOk(line, ToLineEnd(line))
  BY <1>3, OkEnds
<1>10. CASE StartQuote
  <2>1. /\ Takes(0, n) /\ pend' = <<Block("quote", NewBlk)>>
        /\ cur' = OptionalSpace(line, PastMarker(line, ToNonspace(n)))
    BY <1>6, <1>10 DEF StartQuote
  <2>. HIDE DEF n
  <2>2. Tok(line, n.pos) \notin Space \cup Labels \cup {"end"}
    BY <2>1, TakenBy DEF Space, Labels
  <2>3. CursorOk(line, PastMarker(line, ToNonspace(n)))
    BY <1>3, <2>2, OkMarker
  <2>. QED
    BY <1>3, <1>7, <1>8, <2>1, <2>3, OkOptional, NewMeasured
<1>11. CASE StartBreak
  <2>1. cur' = ToLineEnd(line) /\ pend' = <<Block("break", NewBlk)>>
    BY <1>6, <1>11 DEF StartBreak
  <2>2. Measured(Block("break", NewBlk).blk)
    BY <1>7, NewMeasured
  <2>. HIDE DEF n
  <2>. QED
    BY <1>8, <1>9, <2>1, <2>2
<1>18. CASE StartHeading
  <2>. DEFINE text == <<[at   |-> lineNo,
                         toks |-> Rest(line, NextNonspace(line, PastMarker(line, ToNonspace(n))).pos)]>>
  <2>1. cur' = ToLineEnd(line) /\ pend' = <<Block("heading", [NewBlk EXCEPT !.content = text])>>
    BY <1>6, <1>18 DEF StartHeading
  <2>. HIDE DEF n, text
  <2>2. Measured([NewBlk EXCEPT !.content = text])
    BY NewMeasured
  <2>. QED
    BY <1>7, <1>8, <1>9, <2>1, <2>2
<1>12. CASE StartFence
  <2>1. /\ Takes(2, n) /\ cur' = PastMarker(line, ToNonspace(n))
        /\ pend' = <<Block("code", [NewBlk EXCEPT !.fence = Tok(line, n.pos), !.inset = n.indent])>>
    BY <1>6, <1>12 DEF StartFence
  <2>. HIDE DEF n
  <2>2. Tok(line, n.pos) \notin Space \cup Labels \cup {"end"}
    BY <2>1, TakenBy DEF Space, Labels, Fences
  <2>3. CursorOk(line, cur')
    BY <1>3, <2>1, <2>2, OkMarker
  <2>4. Measured([NewBlk EXCEPT !.fence = Tok(line, n.pos), !.inset = n.indent])
    BY <1>3, NewMeasured
  <2>. QED
    BY <1>7, <1>8, <2>1, <2>3, <2>4
<1>13. CASE StartHtml
  <2>. DEFINE kind == HtmlKind(line, n.pos)
  <2>1. cur' = cur /\ pend' = <<Block("html", [NewBlk EXCEPT !.kind = kind])>>
    BY <1>6, <1>13 DEF StartHtml
  <2>. HIDE DEF n, kind
  <2>2. Measured([NewBlk EXCEPT !.kind = kind])
    BY NewMeasured
  <2>. QED
    BY <1>3, <1>7, <1>8, <2>1, <2>2
<1>14. CASE StartItem
  <2>. DEFINE m    == ListMarker(line, n)
              data == [NewBlk EXCEPT !.mark = ListMark(Tok(line, n.pos)), !.indent = m.indent]
  <2>1. /\ Takes(6, n) /\ cur' = m.cur
        /\ pend' = IF SameList(n) THEN <<Block("item", data)>>
                   ELSE <<Block("list", data), Block("item", data)>>
    BY <1>6, <1>14 DEF StartItem
  <2>2. IsListMarker(line, n, type[cont] = "para")
    <3>. HIDE DEF n
    <3>. QED
      BY <2>1, TakenBy
  <2>3. CursorOk(line, m.cur) /\ m.indent \in Nat
    BY <1>3, <2>2, OkListMarker
  <2>. HIDE DEF n, m
  <2>4. Measured(data)
    BY <2>3, NewMeasured
  <2>. HIDE DEF data
  <2>5. CASE SameList(n)
    BY <1>7, <1>8, <2>1, <2>3, <2>4, <2>5
  <2>6. CASE ~SameList(n)
    <3>1. pend' = <<Block("list", data), Block("item", data)>>
      BY <2>1, <2>6
    <3>2. \A i \in 1..Len(pend') : Measured(pend'[i].blk)
      BY <1>7, <2>4, <3>1
    <3>. QED
      BY <2>1, <2>3, <3>2 DEF PendMeasured
  <2>. QED
    BY <2>5, <2>6
<1>15. CASE StartIndentedCode
  <2>1. /\ Takes(7, n) /\ cur' = Advance(line, cur, CodeIndent) /\ pend' = <<Block("code", NewBlk)>>
    BY <1>6, <1>15 DEF StartIndentedCode
  <2>. HIDE DEF n
  <2>2. CodeIndent <= n.indent /\ CodeIndent \in Nat
    <3>1. Indented(n)
      BY <2>1, TakenBy
    <3>. QED
      BY <1>3, <3>1 DEF Indented, CodeIndent
  <2>3. CursorOk(line, cur')
    BY <1>3, <2>1, <2>2, OkAdvance DEF n
  <2>4. Measured(Block("code", NewBlk).blk)
    BY <1>7, NewMeasured
  <2>. QED
    BY <1>8, <2>1, <2>3, <2>4
<1>16. CASE StartSetext \/ StartTable
  <2>1. pc' = "close" /\ goal' \in {"setext", "table"} /\ cur' = cur
    BY <1>6, <1>16 DEF StartSetext, StartTable
  <2>. QED
    BY <1>3, <2>1 DEF PendMeasured, Opening
<1>17. CASE NoStart
  <2>1. pc' = "text" /\ cur' = ToNonspace(n)
    BY <1>17 DEF NoStart
  <2>. QED
    BY <1>3, <2>1 DEF PendMeasured, Opening
<1>. QED
  BY <1>10, <1>11, <1>12, <1>13, <1>14, <1>15, <1>16, <1>17, <1>18 DEF Start

LEMMA OpenCursor ==
  ASSUME CursorIInv, Open
  PROVE  CursorKept
<1>1. /\ pc \in {"close", "add"} /\ UNCHANGED <<input, cur, nx>> /\ AtWork
  BY DEF Open, CloseOne, AllClosed, MakeRoom, AddChild, cursorVars, AtWork
<1>2. CursorAtWork' /\ AllMeasured(blk) /\ PendMeasured
  BY <1>1, CursorStays DEF CursorIInv
<1>3. CASE CloseOne \/ MakeRoom
  <2>1. /\ \E x, at, of : Finalize(x, at, of)
        /\ UNCHANGED <<pend, goal, pc>>
    BY <1>3 DEF CloseOne, MakeRoom, startVars
  <2>2. AllMeasured(blk')
    BY <1>2, <2>1, ClosingMeasured DEF Finalize
  <2>. QED
    BY <1>2, <2>1, <2>2 DEF CursorKept, PendMeasured, Opening
<1>4. CASE AllClosed
  <2>1. UNCHANGED <<blk, pend, goal>> /\ pc = "close" /\ pc' = goal
    BY <1>4 DEF AllClosed, treeVars, startVars
  <2>2. goal \in {"add", "setext", "table", "body"}
    BY DatedFacts DEF CursorIInv, Pointers
  <2>. QED
    BY <1>2, <2>1, <2>2 DEF CursorKept, PendMeasured, Opening
<1>5. CASE AddChild
  <2>. DEFINE start == IF pend[1].type = "table" THEN lineNo - 1 ELSE lineNo
  <2>1. /\ pc = "add" /\ blk' = [blk EXCEPT ![used + 1] = [pend[1].blk EXCEPT !.start = start]]
        /\ pend' = Tail(pend) /\ pc' = IF Len(pend) = 1 THEN after ELSE "add"
    BY <1>5 DEF AddChild
  <2>. HIDE DEF start
  <2>2. (\E b : pend = <<b>>) \/ (\E b, c : pend = <<b, c>>)
    BY <2>1, DatedFacts DEF CursorIInv, ContainedIInv, ListsForItems, Opening
  <2>3. after \in {"starts", "text", "line"}
    BY DatedFacts DEF CursorIInv, Pointers
  <2>4. \A i \in 1..Len(pend) : Measured(pend[i].blk)
    BY <1>2, <2>1 DEF PendMeasured, Opening
  <2>5. 1 \in 1..Len(pend)
    BY <2>2
  <2>6. AllMeasured(blk')
    <3>1. Measured([pend[1].blk EXCEPT !.start = start])
      BY <2>4, <2>5, RecordMeasured
    <3>. QED
      BY <1>2, <2>1, <3>1, NodeMeasured
  <2>7. PendMeasured'
    <3>1. CASE \E b : pend = <<b>>
      <4>1. Len(pend) = 1
        BY <3>1
      <4>. QED
        BY <2>1, <2>3, <4>1 DEF PendMeasured, Opening
    <3>2. CASE \E b, c : pend = <<b, c>>
      <4>1. PICK b, c : pend = <<b, c>>
        BY <3>2
      <4>2. pend' = <<pend[2]>> /\ 2 \in 1..Len(pend)
        BY <2>1, <4>1
      <4>3. \A i \in 1..Len(pend') : Measured(pend'[i].blk)
        BY <2>4, <4>2
      <4>. QED
        BY <4>3 DEF PendMeasured
    <3>. QED
      BY <2>2, <3>1, <3>2
  <2>. QED
    BY <1>2, <2>6, <2>7 DEF CursorKept
<1>. QED
  BY <1>3, <1>4, <1>5 DEF Open

LEMMA ConvertCursor ==
  ASSUME CursorIInv, Convert
  PROVE  CursorKept
<1>1. /\ pc \in {"setext", "table"} /\ UNCHANGED <<input, nx>> /\ AtWork
  BY DEF Convert, SetextFalls, SetextHeading, SplitParagraph, ReplaceParagraph, OpenTable,
         cursorVars, AtWork
<1>2. AllMeasured(blk) /\ CursorAtWork /\ CursorOk(line, ToLineEnd(line))
  BY <1>1, WorkFacts, OkEnds DEF CursorIInv
<1>3. \A x, v : /\ AllMeasured([blk EXCEPT ![x].content = v])
                /\ \A m, y, z :
                     AllMeasured([blk EXCEPT ![x].content = v,
                                             ![m] = [NewBlk EXCEPT !.start = y, !.content = z]])
  <2>. TAKE x, v
  <2>1. AllMeasured([blk EXCEPT ![x] = [blk[x] EXCEPT !.content = v]])
    BY <1>2, FieldMeasured, Zenon
  <2>2. AllMeasured([blk EXCEPT ![x].content = v])
    BY <2>1
  <2>. DEFINE f == [blk EXCEPT ![x].content = v]
  <2>3. ASSUME NEW m, NEW y, NEW z
        PROVE  AllMeasured([f EXCEPT ![m] = [NewBlk EXCEPT !.start = y, !.content = z]])
    <3>. HIDE DEF f
    <3>1. AllMeasured(f)
      BY <2>2 DEF f
    <3>. QED
      BY <3>1, NodeMeasured, NewMeasured
  <2>. QED
    BY <2>2, <2>3
<1>4. CASE SetextFalls
  <2>1. UNCHANGED cur /\ pc' = "starts" /\ blk' = [blk EXCEPT ![cont].content = <<>>]
    BY <1>4 DEF SetextFalls, cursorVars
  <2>. QED
    BY <1>1, <1>2, <1>3, <2>1, CursorStays DEF CursorKept, PendMeasured, Opening
<1>5. CASE SetextHeading
  <2>. DEFINE left == AfterDefinitions(blk[cont].content, Definitions(blk[cont].content))
  <2>1. /\ cur' = ToLineEnd(line) /\ pc' = "text"
        /\ blk' = [blk EXCEPT ![cont].content = <<>>,
                     ![used + 1] = [NewBlk EXCEPT !.start = blk[cont].start, !.content = left]]
    BY <1>5 DEF SetextHeading
  <2>2. AllMeasured(blk')
    <3>. HIDE DEF left
    <3>. QED
      BY <1>3, <2>1
  <2>3. line' = line /\ lineNo' = lineNo
    BY <1>1 DEF line, lineNo
  <2>4. CursorAtWork'
    BY <1>1, <1>2, <2>1, <2>3 DEF CursorAtWork
  <2>. QED
    BY <2>1, <2>2, <2>4 DEF CursorKept, PendMeasured, Opening
<1>6. CASE SplitParagraph \/ ReplaceParagraph
  <2>. DEFINE cols   == DelimiterColumns(line, nx.pos)
              header == WithRow([rows |-> <<>>, padded |-> padded], cols,
                                lastAdded.toks, lineNo - 1, lineNo - 1)
  <2>1. UNCHANGED cur /\ pc' = "add"
        /\ pend' = <<Block("table", [NewBlk EXCEPT !.cols = cols, !.rows = header.rows])>>
    BY <1>6 DEF SplitParagraph, ReplaceParagraph, OpenTable, cursorVars
  <2>. HIDE DEF cols, header
  <2>2. Measured([NewBlk EXCEPT !.cols = cols, !.rows = header.rows])
    BY NewMeasured
  <2>3. PendMeasured'
    BY <2>1, <2>2 DEF PendMeasured, Block
  <2>4. AllMeasured(blk')
    <3>1. CASE SplitParagraph
      BY <1>2, <3>1, ClosingMeasured DEF SplitParagraph
    <3>2. CASE ReplaceParagraph
      BY <1>2, <3>2 DEF ReplaceParagraph
    <3>. QED
      BY <1>6, <3>1, <3>2
  <2>5. CursorAtWork'
    BY <1>1, <1>2, <2>1, CursorStays
  <2>. QED
    BY <2>3, <2>4, <2>5 DEF CursorKept
<1>. QED
  BY <1>4, <1>5, <1>6 DEF Convert

LEMMA TextCursor ==
  ASSUME CursorIInv, Text
  PROVE  CursorKept
<1>1. /\ pc \in {"text", "body", "line"} /\ UNCHANGED <<input, nx>> /\ AtWork
  BY DEF Text, LazyLine, CloseForText, GiveToBlock, OpenParagraph, NoText, TakeLine,
         TakeLastHtmlLine, MarkBlank, cursorVars, AtWork
<1>2. AllMeasured(blk) /\ CursorAtWork
  BY DEF CursorIInv
<1>3. CASE LazyLine \/ TakeLine
  <2>1. UNCHANGED cur /\ pc' = "read" /\ \E v : blk' = [blk EXCEPT ![tip].content = v]
    <3>1. AddLine /\ UNCHANGED cur /\ pc' = "read"
      BY <1>3 DEF LazyLine, TakeLine, cursorVars
    <3>. QED
      BY <3>1 DEF AddLine
  <2>2. AllMeasured(blk')
    <3>1. PICK v : blk' = [blk EXCEPT ![tip].content = v]
      BY <2>1
    <3>2. AllMeasured([blk EXCEPT ![tip] = [blk[tip] EXCEPT !.content = v]])
      BY <1>2, FieldMeasured, Zenon
    <3>. QED
      BY <3>1, <3>2
  <2>. QED
    BY <2>1, <2>2 DEF CursorKept, CursorAtWork, AtWork, PendMeasured, Opening
<1>4. CASE CloseForText
  <2>1. UNCHANGED <<cur, blk>> /\ goal' = "body" /\ pc' = "close"
    BY <1>4 DEF CloseForText, cursorVars, treeVars
  <2>. QED
    BY <1>1, <1>2, <2>1, CursorStays DEF CursorKept, PendMeasured, Opening
<1>5. CASE GiveToBlock \/ NoText
  <2>1. UNCHANGED <<cur, blk>> /\ pc' \in {"line", "read"}
    BY <1>5 DEF GiveToBlock, NoText, cursorVars, MarkBlank
  <2>. QED
    BY <1>1, <1>2, <2>1, CursorStays DEF CursorKept, PendMeasured, Opening
<1>6. CASE OpenParagraph
  <2>1. /\ cur' = ToNonspace(nx) /\ UNCHANGED blk
        /\ pend' = <<Block("para", NewBlk)>>
    BY <1>6 DEF OpenParagraph, MarkBlank
  <2>2. line' = line /\ lineNo' = lineNo
    BY <1>1 DEF line, lineNo
  <2>3. CursorAtWork'
    BY <1>1, <1>2, <2>1, <2>2 DEF CursorAtWork
  <2>4. Measured(Block("para", NewBlk).blk)
    BY NewMeasured DEF Block
  <2>5. PendMeasured'
    <3>1. \A i \in 1..Len(pend') : Measured(pend'[i].blk)
      BY <2>1, <2>4
    <3>. QED
      BY <3>1 DEF PendMeasured
  <2>. QED
    BY <1>2, <2>1, <2>3, <2>5 DEF CursorKept
<1>7. CASE TakeLastHtmlLine
  <2>1. pc' = "read" /\ \E x, content : FinalizeWith(x, content, lineNo, lineNo)
    BY <1>7 DEF TakeLastHtmlLine
  <2>2. AllMeasured(blk')
    BY <1>2, <2>1, ClosingMeasured
  <2>. QED
    BY <2>1, <2>2 DEF CursorKept, CursorAtWork, AtWork, PendMeasured, Opening
<1>. QED
  BY <1>3, <1>4, <1>5, <1>6, <1>7 DEF Text

LEMMA FinishCursor ==
  ASSUME CursorIInv, Finish
  PROVE  CursorKept
<1>1. AllMeasured(blk) /\ pc' \in {"finish", "done"}
  BY DEF CursorIInv, Finish, EndOfInput, FinishOne, MarkTasks
<1>2. SUFFICES AllMeasured(blk')
  BY <1>1 DEF CursorKept, CursorAtWork, AtWork, PendMeasured, Opening
<1>3. CASE EndOfInput
  BY <1>1, <1>3 DEF EndOfInput, treeVars
<1>4. CASE FinishOne
  BY <1>1, <1>4, ClosingMeasured DEF FinishOne, Finalize
<1>5. CASE MarkTasks
  <2>. DEFINE unmarked(p) ==
                LET toks == blk[p].content[1].toks
                IN  Rest(toks, NextNonspace(toks, [off |-> 1, col |-> 1, part |-> FALSE]).pos)
              one(n) == [blk[n] EXCEPT !.task = TRUE]
              two(n) == [blk[n] EXCEPT !.content[1].toks = unmarked(n)]
              f == [n \in Node |-> CASE n \in Tasks -> one(n)
                                     [] n \in {tree.first[m] : m \in Tasks} -> two(n)
                                     [] OTHER -> blk[n]]
  <2>1. blk' = IF ~Gfm THEN blk ELSE f
    BY <1>5 DEF MarkTasks
  <2>2. \A n \in Node : Measured(one(n)) /\ Measured(two(n)) /\ Measured(blk[n])
    <3>. TAKE n \in Node
    <3>1. Measured(blk[n])
      BY <1>1 DEF AllMeasured
    <3>2. Measured(one(n))
      BY <3>1, RecordMeasured
    <3>3. two(n) = [blk[n] EXCEPT !.content = [blk[n].content EXCEPT ![1] =
                                                 [blk[n].content[1] EXCEPT !.toks = unmarked(n)]]]
      <4>. HIDE DEF unmarked
      <4>. QED
        OBVIOUS
    <3>. DEFINE v == [blk[n].content EXCEPT ![1] = [blk[n].content[1] EXCEPT !.toks = unmarked(n)]]
    <3>4. Measured([blk[n] EXCEPT !.content = v])
      <4>. HIDE DEF v
      <4>. QED
        BY <3>1, RecordMeasured
    <3>5. two(n) = [blk[n] EXCEPT !.content = v]
      BY <3>3
    <3>. HIDE DEF two, v
    <3>6. Measured(two(n))
      BY <3>4, <3>5, Zenon
    <3>. QED
      BY <3>1, <3>2, <3>6
  <2>. HIDE DEF one, two
  <2>3. AllMeasured(f)
    BY <2>2 DEF AllMeasured
  <2>. HIDE DEF f
  <2>. QED
    BY <1>1, <2>1, <2>3
<1>. QED
  BY <1>3, <1>4, <1>5 DEF Finish

LEMMA StepCursor == CursorIInv /\ [Next]_vars => CursorIInv'
<1>1. SUFFICES ASSUME CursorIInv, [Next]_vars PROVE DatedIInv' /\ CursorKept
  BY DEF CursorIInv, CursorKept
<1>2. DatedIInv'
  BY <1>1, StepDated DEF CursorIInv
<1>3. CASE UNCHANGED vars
  <2>1. UNCHANGED <<blk, pend, goal, input, cur, nx, pc>>
    BY <1>3 DEF vars, treeVars, startVars, cursorVars
  <2>2. AllMeasured(blk) /\ PendMeasured /\ CursorAtWork
    BY <1>1 DEF CursorIInv
  <2>3. AllMeasured(blk')
    BY <2>1, <2>2
  <2>4. PendMeasured'
    BY <2>1, <2>2 DEF PendMeasured, Opening
  <2>5. CursorAtWork'
    BY <2>1, <2>2, CursorStays DEF AtWork
  <2>. QED
    BY <1>2, <2>3, <2>4, <2>5 DEF CursorKept
<1>. QED
  BY <1>1, <1>2, <1>3, WalkCursor, StartCursor, OpenCursor, ConvertCursor, TextCursor, FinishCursor
     DEF Next, Done

LEMMA CursorInit == Init => CursorIInv
<1>1. SUFFICES ASSUME Init PROVE AllMeasured(blk) /\ PendMeasured /\ CursorAtWork
  BY DatedInit DEF CursorIInv
<1>2. AllMeasured(blk)
  BY <1>1, NewMeasured DEF Init, AllMeasured
<1>. QED
  BY <1>1, <1>2 DEF Init, PendMeasured, Opening, CursorAtWork, AtWork

\* Whatever lines a document holds, the column the parser counts as it goes is
\* the column of its offset, or one inside the tab that stands there: no
\* sequence of markers, partly consumed tabs and indents makes them part.
THEOREM CursorSafe == Spec => []CursorAgrees
<1>1. Init => CursorIInv
  BY CursorInit
<1>2. CursorIInv /\ [Next]_vars => CursorIInv'
  BY StepCursor
<1>3. CursorIInv => CursorAgrees
  BY DEF CursorIInv, CursorAtWork, AtWork, CursorOk, Agrees, CursorAgrees
<1>. QED
  BY <1>1, <1>2, <1>3, PTL DEF Spec

(***************************************************************************)
(* Link reference definitions                                              *)
(***************************************************************************)
\* A line that holds the label l.
Names(ln, l) == \E j \in 1..Len(ln) : ln[j] = l

\* The last line the parser has done with.
LastDone == IF Mid THEN lineNo - 1 ELSE lineNo

\* An entry of a paragraph's text is read from its line: if it is a
\* definition, the label is the line's only one.
Sourced(e) ==
  /\ "at" \in DOMAIN e /\ e.at \in 1..LastDone
  /\ IsDefinition(e.toks) => \A l \in Labels : Names(input[e.at], l) <=> e.toks[1] = l

\* It is below every definition taken so far.
Later(e) == \A d \in defLines : d < e.at

Recorded == defLines \subseteq 1..LastDone

TipSourced ==
  tip # Nil /\ type[tip] = "para" =>
    \A i \in 1..Len(blk[tip].content) : Sourced(blk[tip].content[i]) /\ Later(blk[tip].content[i])

\* The inductive strengthening of FirstDefinitionWins.
DefsIInv == CursorIInv /\ FirstDefinitionWins /\ Recorded /\ TipSourced

\* What the earlier invariants give the proofs below.
DefsFacts == /\ Shape /\ Pointers /\ lineNo \in Nat /\ input \in Seq(Lines) /\ Lengths /\ Runs
             /\ LastDone \in Nat /\ LastDone <= lineNo /\ Len(input) = lineNo

LEMMA DefsFactsHold ==
  ASSUME DefsIInv
  PROVE  DefsFacts /\ DatedIInv
<1>1. /\ Shape /\ Pointers /\ lineNo \in Nat /\ input \in Seq(Lines) /\ Lengths /\ Runs /\ DatedIInv
  BY DatedFacts DEF DefsIInv, CursorIInv, DatedIInv, Clock
<1>2. LastDone \in Nat /\ LastDone <= lineNo
  BY <1>1 DEF LastDone, Lengths
<1>. QED
  BY <1>1, <1>2 DEF DefsFacts, lineNo

\* D is a set of lines.
LineNumbers(D) == D \subseteq Nat \ {0}

\* The line of D that wins the label l.
Winner(inp, D, l) == LET at == {i \in D : Names(inp[i], l)} IN IF at = {} THEN 0 ELSE Min(at)

LEMMA WinnersSay == FirstDefinitionWins <=> \A l \in Labels : refs[l] = Winner(input, defLines, l)
  BY DEF FirstDefinitionWins, Winner, Names

\* Later definitions take the labels that are free, and only those.
LEMMA WinnerGrows ==
  ASSUME NEW inp, NEW D, NEW E, NEW l, LineNumbers(D), LineNumbers(E),
         \A d \in D : \A e \in E : d < e
  PROVE  /\ Winner(inp, D, l) # 0 => Winner(inp, D \cup E, l) = Winner(inp, D, l)
         /\ Winner(inp, D, l) = 0 => Winner(inp, D \cup E, l) = Winner(inp, E, l)
<1>. DEFINE A == {i \in D : Names(inp[i], l)}
            B == {i \in E : Names(inp[i], l)}
            C == {i \in D \cup E : Names(inp[i], l)}
<1>1. C = A \cup B /\ A \subseteq D /\ B \subseteq E
  OBVIOUS
<1>2. /\ Winner(inp, D, l) = IF A = {} THEN 0 ELSE Min(A)
      /\ Winner(inp, E, l) = IF B = {} THEN 0 ELSE Min(B)
      /\ Winner(inp, D \cup E, l) = IF C = {} THEN 0 ELSE Min(C)
  BY DEF Winner
<1>. HIDE DEF A, B, C
<1>3. CASE A = {}
  <2>1. C = B
    BY <1>1, <1>3
  <2>. QED
    BY <1>2, <1>3, <2>1
<1>4. CASE A # {}
  <2>1. A \subseteq Nat /\ C \subseteq Nat /\ C # {}
    BY <1>1, <1>4 DEF LineNumbers
  <2>2. Min(A) \in A /\ \A m \in A : Min(A) <= m
    BY <1>4, <2>1, MinOf
  <2>. DEFINE k == Min(A)
  <2>. HIDE DEF k
  <2>3. k \in C /\ k \in D /\ k \in Nat \ {0} /\ \A m \in A : k <= m
    BY <1>1, <2>2 DEF k, LineNumbers
  <2>4. \A m \in C : k <= m
    <3>. TAKE m \in C
    <3>1. CASE m \in A
      BY <2>3, <3>1
    <3>2. CASE m \in B
      <4>1. k < m /\ m \in Nat
        BY <1>1, <2>3, <3>2 DEF LineNumbers
      <4>. QED
        BY <2>3, <4>1
    <3>. QED
      BY <1>1, <3>1, <3>2
  <2>5. Min(C) = k
    BY <2>1, <2>3, <2>4, MinOf
  <2>. QED
    BY <1>2, <1>4, <2>1, <2>3, <2>5 DEF k
<1>. QED
  BY <1>3, <1>4

\* What `Defined` makes of the definitions a text begins with.
LEMMA DefinedWins ==
  ASSUME NEW map, NEW c, NEW k, NEW l \in Labels,
         \A i \in 1..k : IsDefinition(c[i].toks) /\ Sourced(c[i])
  PROVE  Defined(map, c, k)[l] = IF map[l] # 0 THEN map[l] ELSE Winner(input, DefinitionLines(c, k), l)
<1>. DEFINE at == {c[i].at : i \in {j \in 1..k : c[j].toks[1] = l}}
            B  == {i \in DefinitionLines(c, k) : Names(input[i], l)}
<1>1. at = B
  BY DEF DefinitionLines, Sourced
<1>2. Defined(map, c, k)[l] = IF map[l] # 0 \/ at = {} THEN map[l] ELSE Min(at)
  BY DEF Defined
<1>3. Winner(input, DefinitionLines(c, k), l) = IF B = {} THEN 0 ELSE Min(B)
  BY DEF Winner
<1>. HIDE DEF at, B
<1>. QED
  BY <1>1, <1>2, <1>3

\* A step that takes the definitions a text begins with.
LEMMA DefsTaken ==
  ASSUME DefsIInv, NEW c, IsRun(c), \A i \in 1..Len(c) : Sourced(c[i]) /\ Later(c[i]),
         NEW k \in 0..Len(c), \A i \in 1..k : IsDefinition(c[i].toks),
         refs' = Defined(refs, c, k), defLines' = defLines \cup DefinitionLines(c, k),
         UNCHANGED input, LastDone' \in Nat, LastDone <= LastDone'
  PROVE  FirstDefinitionWins' /\ Recorded'
<1>. DEFINE taken == DefinitionLines(c, k)
<1>1. DefsFacts
  BY DefsFactsHold
<1>2. k \in Nat /\ Len(c) \in Nat /\ \A i \in 1..k : i \in 1..Len(c)
  BY DEF IsRun, IsSeq
<1>3. \A i \in 1..k : IsDefinition(c[i].toks) /\ Sourced(c[i]) /\ Later(c[i])
  BY <1>2
<1>4. taken \subseteq 1..LastDone /\ \A d \in defLines : \A e \in taken : d < e
  BY <1>3 DEF DefinitionLines, Sourced, Later
<1>5. \A l \in Labels : refs'[l] = IF refs[l] # 0 THEN refs[l] ELSE Winner(input, taken, l)
  BY <1>3, DefinedWins
<1>. HIDE DEF taken
<1>6. defLines \subseteq 1..LastDone
  BY DEF DefsIInv, Recorded
<1>7. Recorded'
  <2>1. defLines' = defLines \cup taken
    BY DEF taken
  <2>2. \A x \in 1..LastDone : x \in 1..LastDone'
    BY <1>1 DEF DefsFacts
  <2>. QED
    BY <1>4, <1>6, <2>1, <2>2 DEF Recorded
<1>8. \A l \in Labels : refs[l] = Winner(input, defLines, l)
  BY WinnersSay DEF DefsIInv
<1>9. \A l \in Labels : refs'[l] = Winner(input, defLines \cup taken, l)
  <2>1. LineNumbers(defLines) /\ LineNumbers(taken)
    BY <1>1, <1>4, <1>6 DEF DefsFacts, LineNumbers
  <2>. DEFINE inp == input
              old == defLines
  <2>2. /\ LineNumbers(old) /\ LineNumbers(taken) /\ \A d \in old : \A e \in taken : d < e
    BY <1>4, <2>1
  <2>. HIDE DEF inp, old
  <2>3. \A l : /\ Winner(inp, old, l) # 0 => Winner(inp, old \cup taken, l) = Winner(inp, old, l)
               /\ Winner(inp, old, l) = 0 => Winner(inp, old \cup taken, l) = Winner(inp, taken, l)
    BY <2>2, WinnerGrows
  <2>. QED
    BY <1>5, <1>8, <2>3 DEF inp, old
<1>10. \A l \in Labels : Winner(input, defLines \cup taken, l) = (Winner(input, defLines, l))'
  BY DEF Winner, taken
<1>11. FirstDefinitionWins'
  BY <1>9, <1>10 DEF FirstDefinitionWins, Winner, Names
<1>. QED
  BY <1>7, <1>11

\* A step that takes none.
LEMMA DefsStay ==
  ASSUME DefsIInv, \A l \in Labels : refs'[l] = refs[l], UNCHANGED defLines,
         \A i \in 1..LastDone : input'[i] = input[i],
         LastDone' \in Nat, LastDone <= LastDone'
  PROVE  FirstDefinitionWins' /\ Recorded'
<1>1. DefsFacts /\ defLines \subseteq 1..LastDone
  BY DefsFactsHold DEF DefsIInv, Recorded
<1>2. Recorded'
  BY <1>1 DEF Recorded, DefsFacts
<1>3. \A l \in Labels : {i \in defLines : \E j \in 1..Len(input'[i]) : input'[i][j] = l}
                          = {i \in defLines : \E j \in 1..Len(input[i]) : input[i][j] = l}
  BY <1>1
<1>4. FirstDefinitionWins
  BY DEF DefsIInv
<1>5. FirstDefinitionWins'
  BY <1>3, <1>4 DEF FirstDefinitionWins
<1>. QED
  BY <1>2, <1>5

\* What a step owes to the definitions.
DefsKept == FirstDefinitionWins' /\ Recorded' /\ TipSourced'

\* A text read earlier stays what it was.
LEMMA SourcedStays ==
  ASSUME DefsIInv, NEW e, Sourced(e), \A i \in 1..LastDone : input'[i] = input[i],
         LastDone' \in Nat, LastDone <= LastDone'
  PROVE  /\ "at" \in DOMAIN e /\ e.at \in 1..LastDone'
         /\ IsDefinition(e.toks) => \A l \in Labels : Names(input'[e.at], l) <=> e.toks[1] = l
<1>1. LastDone \in Nat
  BY DefsFactsHold DEF DefsFacts
<1>2. e.at \in 1..LastDone /\ input'[e.at] = input[e.at] /\ e.at \in 1..LastDone'
  BY <1>1 DEF Sourced
<1>. QED
  BY <1>2 DEF Sourced

\* A step that adds nothing to the tip's text.
LEMMA TipStays ==
  ASSUME DefsIInv, \A i \in 1..LastDone : input'[i] = input[i],
         LastDone' \in Nat, LastDone <= LastDone', UNCHANGED <<defLines, tip, type>>,
         tip # Nil => blk'[tip].content = blk[tip].content
  PROVE  TipSourced'
<1>. SUFFICES ASSUME tip # Nil, type[tip] = "para", NEW i \in 1..Len(blk[tip].content)
              PROVE  (Sourced(blk[tip].content[i]) /\ Later(blk[tip].content[i]))'
  BY DEF TipSourced
<1>. DEFINE e == blk[tip].content[i]
<1>1. e = blk'[tip'].content[i] /\ Sourced(e) /\ Later(e)
  BY DEF DefsIInv, TipSourced
<1>. HIDE DEF e
<1>2. /\ "at" \in DOMAIN e /\ e.at \in 1..LastDone'
      /\ IsDefinition(e.toks) => \A l \in Labels : Names(input'[e.at], l) <=> e.toks[1] = l
  BY <1>1, SourcedStays
<1>. QED
  BY <1>1, <1>2 DEF Sourced, Later

\* A step that leaves the blocks' text and the definitions alone.
LEMMA QuietStep ==
  ASSUME DefsIInv, UNCHANGED <<refs, defLines, tip, type, input>>,
         LastDone' \in Nat, LastDone <= LastDone',
         tip # Nil => blk'[tip].content = blk[tip].content
  PROVE  DefsKept
<1>1. \A i \in 1..LastDone : input'[i] = input[i]
  OBVIOUS
<1>. QED
  BY <1>1, DefsStay, TipStays DEF DefsKept

\* The tip is closed: a paragraph's definitions are later than any so far.
LEMMA ClosingDefs ==
  ASSUME DefsIInv, tip # Nil, NEW c, NEW at, NEW of, FinalizeWith(tip, c, at, of), UNCHANGED input,
         LastDone' \in Nat, LastDone <= LastDone',
         type[tip] = "para" =>
           IsRun(c) /\ \A i \in 1..Len(c) : Sourced(c[i]) /\ Later(c[i])
  PROVE  DefsKept
<1>1. Shape
  BY DefsFactsHold DEF DefsFacts
<1>2. tip' # Nil => type'[tip'] # "para"
  <2>1. tip' = tree.parent[tip] /\ type' = type
    BY DEF FinalizeWith
  <2>2. tip # Doc => tip' \in OnSpine /\ tree.last[tip'] = tip /\ tip' \in Node
    BY <1>1, <2>1, TipBelow
  <2>3. tip = Doc => tip' = Nil
    BY <1>1, <2>1 DEF Shape
  <2>. QED
    BY <1>1, <2>1, <2>2, <2>3, NodeFacts DEF Shape, LeavesAreBare, Containers
<1>3. TipSourced'
  BY <1>2 DEF TipSourced
<1>4. FirstDefinitionWins' /\ Recorded'
  <2>1. CASE type[tip] = "para"
    <3>1. Definitions(c) \in 0..Len(c) /\ \A i \in 1..Definitions(c) : IsDefinition(c[i].toks)
      BY <2>1, DefinitionsBound
    <3>2. /\ refs' = Defined(refs, c, Definitions(c))
          /\ defLines' = defLines \cup DefinitionLines(c, Definitions(c))
      BY <2>1 DEF FinalizeWith
    <3>. QED
      BY <2>1, <3>1, <3>2, DefsTaken
  <2>2. CASE type[tip] # "para"
    <3>1. refs' = Defined(refs, c, 0) /\ defLines' = defLines \cup DefinitionLines(c, 0)
      BY <2>2 DEF FinalizeWith
    <3>2. defLines' = defLines
      BY <3>1 DEF DefinitionLines
    <3>3. \A l \in Labels : refs'[l] = refs[l]
      BY <3>1 DEF Defined
    <3>. QED
      BY <3>2, <3>3, DefsStay
  <2>. QED
    BY <2>1, <2>2
<1>. QED
  BY <1>3, <1>4 DEF DefsKept

\* A line that reads as a definition from where the cursor stands holds the
\* label it defines and no other.
LEMMA LineSourced ==
  ASSUME CursorIInv, AtWork, IsDefinition(LineText.toks), NEW l \in Labels
  PROVE  Names(line, l) <=> LineText.toks[1] = l
<1>. DEFINE toks == LineText.toks
            o    == cur.off
<1>1. /\ line \in Seq(Tokens) /\ cur \in Cursor /\ cur.off <= Len(line)
      /\ cur.off = Len(line) \/ \A i \in 1..cur.off : line[i] \notin Labels
  BY WorkFacts DEF CursorOk, Agrees
<1>2. toks = TextFrom(line, cur) /\ IsDefinition(toks)
  BY DEF LineText
<1>3. o \in Nat /\ Len(line) \in Nat /\ cur.col \in Nat /\ o <= Len(line)
  BY <1>1 DEF Cursor
<1>4. "sp" \notin Labels /\ Labels \cap Space = {} /\ "end" \notin Labels
  BY DEF Labels, Space
<1>5. Len(toks) > 0 /\ toks[1] \in Labels /\ Blank(SubSeq(toks, 2, Len(toks)))
  BY <1>2, <1>4 DEF IsDefinition, Alone, Tok, Rest
<1>6. ~cur.part
  <2>1. ASSUME cur.part PROVE FALSE
    <3>. DEFINE pad == [i \in 1..ToTabStop(cur.col) |-> "sp"]
                text == Rest(line, o + 1)
    <3>1. toks = pad \o text
      BY <1>2, <2>1 DEF TextFrom
    <3>2. ToTabStop(cur.col) \in Nat /\ ToTabStop(cur.col) >= 1
      BY <1>3 DEF ToTabStop
    <3>3. pad \in Seq({"sp"}) /\ Len(pad) >= 1 /\ pad[1] = "sp"
      BY <3>2
    <3>4. text \in Seq(Tokens)
      BY <1>1, <1>3 DEF Rest
    <3>. HIDE DEF pad, text
    <3>5. toks[1] = "sp"
      <4>1. pad \in Seq({"sp"} \cup Tokens) /\ text \in Seq({"sp"} \cup Tokens)
        BY <3>3, <3>4
      <4>. QED
        BY <3>1, <3>3, <4>1
    <3>. QED
      BY <1>4, <1>5, <3>5
  <2>. QED
    BY <2>1
<1>7. toks = SubSeq(line, o + 1, Len(line))
  BY <1>2, <1>6 DEF TextFrom, Rest
<1>. HIDE DEF toks, o
<1>8. /\ toks \in Seq(Tokens) /\ Len(toks) = Len(line) - o
      /\ \A i \in 1..Len(toks) : toks[i] = line[o + i]
  BY <1>1, <1>3, <1>7
<1>9. \A i \in 2..Len(toks) : toks[i] \in Space
  <2>. DEFINE rest == SubSeq(toks, 2, Len(toks))
  <2>1. Len(toks) \in Nat
    BY <1>8
  <2>2. Len(rest) = Len(toks) - 1 /\ \A i \in 1..Len(rest) : rest[i] = toks[i + 1]
    BY <1>5, <1>8, <2>1
  <2>. HIDE DEF rest
  <2>3. \A i \in 1..Len(rest) : rest[i] \in Space
    BY <1>5 DEF Blank, rest
  <2>. TAKE i \in 2..Len(toks)
  <2>4. i - 1 \in 1..Len(rest) /\ (i - 1) + 1 = i
    BY <2>1, <2>2
  <2>. QED
    BY <2>2, <2>3, <2>4
<1>10. \A i \in 1..o : line[i] \notin Labels
  BY <1>1, <1>3, <1>5, <1>8 DEF o
<1>11. ASSUME NEW j \in 1..Len(line), line[j] = l PROVE toks[1] = l
  <2>1. j \notin 1..o
    BY <1>10, <1>11
  <2>2. j - o \in 1..Len(toks) /\ o + (j - o) = j
    BY <1>3, <1>8, <2>1
  <2>3. toks[j - o] = l
    BY <1>8, <1>11, <2>2
  <2>4. j - o \notin 2..Len(toks)
    BY <1>4, <1>9, <2>3
  <2>5. j - o = 1
    BY <1>3, <2>2, <2>4
  <2>. QED
    BY <2>3, <2>5
<1>12. ASSUME toks[1] = l PROVE \E j \in 1..Len(line) : line[j] = l
  <2>1. 1 \in 1..Len(toks) /\ o + 1 \in 1..Len(line)
    BY <1>3, <1>5, <1>8
  <2>2. line[o + 1] = l
    BY <1>8, <1>12, <2>1
  <2>. QED
    BY <2>1, <2>2
<1>. QED
  BY <1>11, <1>12 DEF Names, toks

(***************************************************************************)
(* The steps, and the definitions                                          *)
(***************************************************************************)
\* No step on a line takes the parser back to an earlier one.
LEMMA SameLine ==
  ASSUME DefsIInv, UNCHANGED input, Mid' => Mid
  PROVE  LastDone' \in Nat /\ LastDone <= LastDone' /\ lineNo' = lineNo
<1>1. lineNo \in Nat /\ lineNo' = lineNo /\ (Mid => lineNo > 0)
  BY DefsFactsHold DEF DefsFacts, Lengths, lineNo
<1>. QED
  BY <1>1 DEF LastDone

LEMMA ReadLineDefs ==
  ASSUME DefsIInv, ReadLine
  PROVE  DefsKept
<1>1. DefsFacts
  BY DefsFactsHold
<1>2. /\ pc = "read" /\ pc' = "walk" /\ UNCHANGED <<type, blk, tip, refs, defLines>>
  BY DEF ReadLine, treeVars, closeVars
<1>3. /\ lineNo' = lineNo + 1 /\ \A i \in 1..lineNo : input'[i] = input[i]
  <2>1. PICK ln \in Lines : input' = Append(input, ln)
    BY DEF ReadLine
  <2>. QED
    BY <1>1, <2>1 DEF lineNo, DefsFacts
<1>4. LastDone = lineNo /\ LastDone' = lineNo
  BY <1>1, <1>2, <1>3 DEF LastDone, Mid, DefsFacts
<1>5. (\A i \in 1..LastDone : input'[i] = input[i]) /\ LastDone' \in Nat /\ LastDone <= LastDone'
  BY <1>1, <1>3, <1>4 DEF DefsFacts
<1>. QED
  BY <1>2, <1>5, DefsStay, TipStays DEF DefsKept

LEMMA WalkDefs ==
  ASSUME DefsIInv, Walk
  PROVE  DefsKept
<1>1. DefsFacts /\ pc = "walk" /\ Mid /\ tip # Nil /\ cont \in OnSpine /\ UNCHANGED input
  <2>1. pc = "walk" /\ UNCHANGED input
    BY DEF Walk, ContinueMatched, ContinueNotMatched, NoMoreOpen, CloseFence, WalkEnds
  <2>. QED
    BY <2>1, DefsFactsHold DEF DefsFacts, Pointers, Mid
<1>2. LastDone' \in Nat /\ LastDone <= LastDone'
  BY <1>1, SameLine
<1>3. CASE ContinueMatched \/ ContinueNotMatched \/ NoMoreOpen
  <2>1. UNCHANGED <<type, blk, tip, refs, defLines>>
    BY <1>3 DEF ContinueMatched, ContinueNotMatched, NoMoreOpen, WalkEnds, treeVars, closeVars
  <2>. QED
    BY <1>1, <1>2, <2>1, QuietStep
<1>4. CASE CloseFence
  <2>. DEFINE child == NextOpen(cont)
  <2>1. child # Nil /\ type[child] = "code" /\ Finalize(child, lineNo, lineNo)
    BY <1>4 DEF CloseFence, ClosesCode, Fenced
  <2>2. child = tip
    BY <1>1, <2>1, DatedFacts, DefsFactsHold, WalkFacts, LeafIsTip
       DEF Containers, ContainedIInv, DefsFacts
  <2>. HIDE DEF child
  <2>. QED
    BY <1>1, <1>2, <2>1, <2>2, ClosingDefs DEF Finalize
<1>. QED
  BY <1>3, <1>4 DEF Walk

LEMMA StartDefs ==
  ASSUME DefsIInv, Start
  PROVE  DefsKept
<1>1. /\ pc = "starts" /\ UNCHANGED <<type, blk, tip, refs, defLines, input>>
  BY DEF Start, StartQuote, StartHeading, StartFence, StartHtml, StartSetext, StartBreak, StartItem,
         StartIndentedCode, StartTable, NoStart, Begin, treeVars, closeVars
<1>2. Mid
  BY <1>1 DEF Mid
<1>3. LastDone' \in Nat /\ LastDone <= LastDone'
  BY <1>1, <1>2, SameLine
<1>. QED
  BY <1>1, <1>3, QuietStep

LEMMA OpenDefs ==
  ASSUME DefsIInv, Open
  PROVE  DefsKept
<1>1. /\ pc \in {"close", "add"} /\ UNCHANGED input /\ Mid /\ DefsFacts /\ tip # Nil
      /\ TipSourced /\ DatedIInv /\ tip \in Node
  <2>1. pc \in {"close", "add"} /\ UNCHANGED input
    BY DEF Open, CloseOne, AllClosed, MakeRoom, AddChild
  <2>2. DefsFacts /\ tip # Nil /\ Mid
    BY <2>1, DefsFactsHold DEF DefsFacts, Pointers, Mid
  <2>. QED
    BY <2>1, <2>2, DefsFactsHold, OpenFacts DEF DefsFacts, DefsIInv
<1>2. LastDone' \in Nat /\ LastDone <= LastDone'
  BY <1>1, SameLine
<1>3. CASE CloseOne \/ MakeRoom
  <2>1. \E of : FinalizeWith(tip, blk[tip].content, LineAbove, of)
    BY <1>1, <1>3 DEF CloseOne, MakeRoom, Finalize, Pointers, DefsFacts
  <2>2. type[tip] = "para" => /\ IsRun(blk[tip].content)
                              /\ \A i \in 1..Len(blk[tip].content) :
                                   Sourced(blk[tip].content[i]) /\ Later(blk[tip].content[i])
    BY <1>1 DEF TipSourced, DefsFacts, Runs
  <2>. QED
    BY <1>1, <1>2, <2>1, <2>2, ClosingDefs
<1>4. CASE AllClosed
  <2>1. UNCHANGED <<type, blk, tip, refs, defLines>>
    BY <1>4 DEF AllClosed, treeVars, closeVars
  <2>. QED
    BY <1>1, <1>2, <2>1, QuietStep
<1>5. CASE AddChild
  <2>1. UNCHANGED <<refs, defLines>>
    BY <1>5 DEF AddChild, closeVars
  <2>2. \A i \in 1..LastDone : input'[i] = input[i]
    BY <1>1
  <2>3. FirstDefinitionWins' /\ Recorded'
    BY <1>2, <2>1, <2>2, DefsStay
  <2>4. type'[tip'] = "para" => blk'[tip'].content = <<>>
    <3>. DEFINE new    == used + 1
                start  == IF pend[1].type = "table" THEN lineNo - 1 ELSE lineNo
                opened == [pend[1].blk EXCEPT !.start = start]
    <3>1. /\ pc = "add" /\ used < MaxNodes /\ blk' = [blk EXCEPT ![new] = opened]
          /\ type' = [type EXCEPT ![new] = pend[1].type] /\ tip' = new
      BY <1>5 DEF AddChild
    <3>2. new \in Node /\ DOMAIN blk = Node /\ DOMAIN type = Node
      BY <1>1, <3>1, DatedFacts, MaxNodesAssumption DEF Shape, DefsFacts, Node, BlkFields
    <3>3. 1 \in 1..Len(pend)
      <4>1. (\E b : pend = <<b>>) \/ (\E b, c : pend = <<b, c>>)
        BY <1>1, <3>1, DatedFacts DEF ContainedIInv, ListsForItems, Opening
      <4>. QED
        BY <4>1
    <3>4. /\ pend[1].type = "para" => pend[1].blk.content = <<>>
          /\ Kept \subseteq DOMAIN pend[1].blk
      BY <1>1, <3>1, <3>3, DatedFacts DEF DatedIInv, Clock, NoParaEarly, PendFields, Opening
    <3>5. opened.content = pend[1].blk.content
      BY <3>4 DEF Kept
    <3>. HIDE DEF opened
    <3>. QED
      BY <3>1, <3>2, <3>4, <3>5
  <2>5. TipSourced'
    BY <2>4 DEF TipSourced
  <2>. QED
    BY <2>3, <2>5 DEF DefsKept
<1>. QED
  BY <1>3, <1>4, <1>5 DEF Open

LEMMA ConvertDefs ==
  ASSUME DefsIInv, Convert
  PROVE  DefsKept
<1>1. /\ pc \in {"setext", "table"} /\ UNCHANGED input /\ Mid /\ DefsFacts /\ tip # Nil
      /\ TipSourced /\ DatedIInv /\ type[cont] = "para" /\ cont \in OnSpine
  <2>1. pc \in {"setext", "table"} /\ UNCHANGED input
    BY DEF Convert, SetextFalls, SetextHeading, SplitParagraph, ReplaceParagraph, OpenTable
  <2>. QED
    BY <2>1, DefsFactsHold DEF DefsFacts, DefsIInv, Pointers, Mid
<1>2. cont = tip /\ tip \in Node /\ tip # Doc
  BY <1>1, LeafIsTip, OpenFacts DEF DefsFacts, Containers
<1>3. LastDone' \in Nat /\ LastDone <= LastDone'
  BY <1>1, SameLine
<1>. DEFINE c == blk[tip].content
            k == Definitions(c)
<1>4. IsRun(c) /\ \A i \in 1..Len(c) : Sourced(c[i]) /\ Later(c[i])
  BY <1>1, <1>2 DEF TipSourced, DefsFacts, Runs
<1>5. k \in 0..Len(c) /\ \A i \in 1..k : IsDefinition(c[i].toks)
  BY <1>4, DefinitionsBound
<1>6. DOMAIN blk = Node /\ DOMAIN type = Node /\ \A n \in Node : Kept \subseteq DOMAIN blk[n]
  BY <1>1, DatedFacts DEF BlkFields, Shape
<1>7. CASE SetextFalls \/ SetextHeading
  <2>1. refs' = Defined(refs, c, k) /\ defLines' = defLines \cup DefinitionLines(c, k)
    BY <1>2, <1>7 DEF SetextFalls, SetextHeading
  <2>2. FirstDefinitionWins' /\ Recorded'
    <3>. HIDE DEF c, k
    <3>. QED
      BY <1>1, <1>3, <1>4, <1>5, <2>1, DefsTaken
  <2>3. TipSourced'
    <3>1. CASE SetextFalls
      <4>1. blk' = [blk EXCEPT ![tip].content = <<>>] /\ tip' = tip
        BY <1>2, <3>1 DEF SetextFalls
      <4>2. blk'[tip'].content = <<>>
        BY <1>2, <1>6, <4>1 DEF Kept
      <4>. QED
        BY <4>2 DEF TipSourced
    <3>2. CASE SetextHeading
      <4>1. tip' = used + 1 /\ type' = [type EXCEPT ![used + 1] = "heading"] /\ used < MaxNodes
        BY <3>2 DEF SetextHeading
      <4>2. used + 1 \in Node
        BY <1>1, <4>1, MaxNodesAssumption DEF DefsFacts, Shape, Node
      <4>3. type'[tip'] = "heading"
        BY <1>6, <4>1, <4>2
      <4>. QED
        BY <4>3 DEF TipSourced
    <3>. QED
      BY <1>7, <3>1, <3>2
  <2>. QED
    BY <2>2, <2>3 DEF DefsKept
<1>8. CASE SplitParagraph
  <2>1. Len(c) > 1 /\ FinalizeWith(tip, Front(c), LineAboveHeader, LengthAboveHeader)
    BY <1>2, <1>8 DEF SplitParagraph
  <2>. HIDE DEF c
  <2>2. Len(c) \in Nat
    BY <1>4 DEF IsRun, IsSeq
  <2>3. /\ IsRun(Front(c)) /\ Len(Front(c)) = Len(c) - 1
        /\ \A i \in 1..(Len(c) - 1) : Front(c)[i] = c[i]
    BY <1>4, <2>1, <2>2, RunFront
  <2>4. \A i \in 1..Len(Front(c)) : Sourced(Front(c)[i]) /\ Later(Front(c)[i])
    <3>. TAKE i \in 1..Len(Front(c))
    <3>1. i \in 1..(Len(c) - 1) /\ i \in 1..Len(c)
      BY <2>2, <2>3
    <3>2. Front(c)[i] = c[i] /\ Sourced(c[i]) /\ Later(c[i])
      BY <1>4, <2>3, <3>1
    <3>. QED
      BY <3>2
  <2>. QED
    BY <1>1, <1>3, <2>1, <2>3, <2>4, ClosingDefs
<1>9. CASE ReplaceParagraph
  <2>1. /\ UNCHANGED <<type, blk, refs, defLines>> /\ tip' = tree.parent[tip]
    BY <1>2, <1>9 DEF ReplaceParagraph, closeVars
  <2>2. \A i \in 1..LastDone : input'[i] = input[i]
    BY <1>1
  <2>3. FirstDefinitionWins' /\ Recorded'
    BY <1>3, <2>1, <2>2, DefsStay
  <2>4. type[tree.parent[tip]] # "para"
    BY <1>1, <1>2, TipBelow, NodeFacts DEF DefsFacts, Shape, LeavesAreBare, Containers
  <2>. QED
    BY <2>1, <2>3, <2>4 DEF DefsKept, TipSourced
<1>. QED
  BY <1>7, <1>8, <1>9 DEF Convert

LEMMA TextDefs ==
  ASSUME DefsIInv, Text
  PROVE  DefsKept
<1>1. /\ pc \in {"text", "body", "line"} /\ UNCHANGED input /\ Mid /\ DefsFacts /\ tip # Nil
      /\ TipSourced /\ Recorded /\ DatedIInv /\ AtWork /\ CursorIInv
  <2>1. pc \in {"text", "body", "line"} /\ UNCHANGED input
    BY DEF Text, LazyLine, CloseForText, GiveToBlock, OpenParagraph, NoText, TakeLine,
           TakeLastHtmlLine, MarkBlank
  <2>. QED
    BY <2>1, DefsFactsHold DEF DefsFacts, DefsIInv, Pointers, Mid, AtWork
<1>2. LastDone' \in Nat /\ LastDone <= LastDone' /\ lineNo' = lineNo /\ LastDone = lineNo - 1
  BY <1>1, SameLine DEF LastDone
<1>3. \A i \in 1..LastDone : input'[i] = input[i]
  BY <1>1
<1>4. CASE LazyLine \/ TakeLine
  <2>1. /\ UNCHANGED <<type, tip, refs, defLines>> /\ pc' = "read"
        /\ blk' = [blk EXCEPT ![tip].content = Append(@, LineText)]
    BY <1>4 DEF LazyLine, TakeLine, AddLine, closeVars
  <2>2. FirstDefinitionWins' /\ Recorded'
    BY <1>2, <1>3, <2>1, DefsStay
  <2>3. LastDone' = lineNo /\ lineNo \in Nat /\ lineNo > 0
    <3>1. ~Mid'
      BY <2>1 DEF Mid
    <3>. QED
      BY <1>1, <1>2, <3>1 DEF LastDone, DefsFacts, Lengths
  <2>4. TipSourced'
    <3>. SUFFICES ASSUME type[tip] = "para", NEW i \in 1..Len(blk'[tip].content)
                  PROVE  (Sourced(blk[tip].content[i]) /\ Later(blk[tip].content[i]))'
      BY <2>1 DEF TipSourced
    <3>. DEFINE c == blk[tip].content
                d == blk'[tip].content
                e == d[i]
    <3>1. tip \in Node /\ DOMAIN blk = Node /\ Kept \subseteq DOMAIN blk[tip]
      BY <1>1, OpenFacts, DatedFacts DEF BlkFields, DefsFacts
    <3>2. d = Append(c, LineText)
      BY <2>1, <3>1 DEF Kept
    <3>3. IsRun(c) /\ \A j \in 1..Len(c) : Sourced(c[j]) /\ Later(c[j])
      BY <1>1, <3>1 DEF TipSourced, DefsFacts, Runs
    <3>4. Len(c) \in Nat /\ \A j \in 1..(Len(c) + 1) : d[j] = IF j = Len(c) + 1 THEN LineText ELSE c[j]
      BY <3>2, <3>3 DEF IsRun, IsSeq
    <3>5. i \in 1..(Len(c) + 1)
      BY <3>2, <3>3 DEF IsRun, IsSeq
    <3>. HIDE DEF c, d
    <3>6. e = LineText \/ \E j \in 1..Len(c) : e = c[j]
      BY <3>4, <3>5
    <3>. HIDE DEF e
    <3>7. /\ "at" \in DOMAIN e /\ e.at \in 1..LastDone' /\ \A x \in defLines : x < e.at
          /\ IsDefinition(e.toks) => \A l \in Labels : Names(input[e.at], l) <=> e.toks[1] = l
      <4>1. CASE e = LineText
        <5>1. "at" \in DOMAIN e /\ e.at = lineNo
          BY <4>1 DEF LineText
        <5>2. \A x \in defLines : x < lineNo
          BY <1>1, <1>2, <2>3 DEF Recorded
        <5>3. IsDefinition(e.toks) => \A l \in Labels : Names(line, l) <=> e.toks[1] = l
          BY <1>1, <4>1, LineSourced
        <5>. QED
          BY <2>3, <5>1, <5>2, <5>3 DEF line
      <4>2. CASE \E j \in 1..Len(c) : e = c[j]
        <5>1. Sourced(e) /\ Later(e)
          BY <3>3, <4>2
        <5>2. e.at \in 1..LastDone'
          BY <1>2, <2>3, <5>1 DEF Sourced
        <5>. QED
          BY <5>1, <5>2 DEF Sourced, Later
      <4>. QED
        BY <3>6, <4>1, <4>2
    <3>8. e = (blk[tip].content[i])'
      BY <2>1 DEF e, d
    <3>. QED
      BY <1>1, <2>1, <3>7, <3>8 DEF Sourced, Later
  <2>. QED
    BY <2>2, <2>4 DEF DefsKept
<1>5. CASE CloseForText \/ GiveToBlock \/ OpenParagraph \/ NoText
  <2>1. UNCHANGED <<type, blk, tip, refs, defLines>>
    BY <1>5 DEF CloseForText, GiveToBlock, OpenParagraph, NoText, MarkBlank, treeVars, closeVars
  <2>. QED
    BY <1>1, <1>2, <2>1, QuietStep
<1>6. CASE TakeLastHtmlLine
  <2>1. pc = "line" /\ type[cont] = "html"
    BY <1>6 DEF TakeLastHtmlLine, EndsHtml
  <2>2. cont = tip
    BY <1>1, <2>1, LeafIsTip DEF DefsFacts, Pointers, Containers
  <2>3. PICK content : FinalizeWith(tip, content, lineNo, lineNo)
    BY <1>6, <2>2 DEF TakeLastHtmlLine
  <2>. QED
    BY <1>1, <1>2, <2>1, <2>2, <2>3, ClosingDefs
<1>. QED
  BY <1>4, <1>5, <1>6 DEF Text

LEMMA FinishDefs ==
  ASSUME DefsIInv, Finish
  PROVE  DefsKept
<1>1. /\ UNCHANGED input /\ pc \in {"read", "finish"} /\ pc' \in {"finish", "done"}
      /\ DefsFacts /\ TipSourced
  BY DefsFactsHold DEF Finish, EndOfInput, FinishOne, MarkTasks, DefsIInv
<1>2. LastDone' \in Nat /\ LastDone <= LastDone'
  <2>1. ~Mid'
    BY <1>1 DEF Mid
  <2>. QED
    BY <1>1, <2>1, SameLine
<1>3. CASE EndOfInput
  <2>1. UNCHANGED <<type, blk, tip, refs, defLines>>
    BY <1>3 DEF EndOfInput, treeVars, closeVars
  <2>. QED
    BY <1>1, <1>2, <2>1, QuietStep
<1>4. CASE FinishOne
  <2>1. tip # Nil /\ FinalizeWith(tip, blk[tip].content, lineNo, lastLen)
    BY <1>4 DEF FinishOne, Finalize
  <2>2. type[tip] = "para" => /\ IsRun(blk[tip].content)
                              /\ \A i \in 1..Len(blk[tip].content) :
                                   Sourced(blk[tip].content[i]) /\ Later(blk[tip].content[i])
    BY <1>1, <2>1, OpenFacts DEF TipSourced, DefsFacts, Runs
  <2>. QED
    BY <1>1, <1>2, <2>1, <2>2, ClosingDefs
<1>5. CASE MarkTasks
  <2>1. tip = Nil /\ UNCHANGED <<type, tip, refs, defLines>>
    BY <1>5 DEF MarkTasks, closeVars
  <2>. QED
    BY <1>1, <1>2, <2>1, QuietStep
<1>. QED
  BY <1>3, <1>4, <1>5 DEF Finish

LEMMA StepDefs == DefsIInv /\ [Next]_vars => DefsIInv'
<1>1. SUFFICES ASSUME DefsIInv, [Next]_vars PROVE CursorIInv' /\ DefsKept
  BY DEF DefsIInv, DefsKept
<1>2. CursorIInv'
  BY <1>1, StepCursor DEF DefsIInv
<1>3. CASE UNCHANGED vars
  <2>1. UNCHANGED <<type, blk, tip, refs, defLines, input, pc>>
    BY <1>3 DEF vars, treeVars, closeVars
  <2>2. LastDone' \in Nat /\ LastDone <= LastDone'
    BY <1>1, <2>1, SameLine DEF Mid
  <2>. QED
    BY <1>1, <1>2, <2>1, <2>2, QuietStep
<1>. QED
  BY <1>1, <1>2, <1>3, ReadLineDefs, WalkDefs, StartDefs, OpenDefs, ConvertDefs, TextDefs, FinishDefs
     DEF Next, Done

LEMMA DefsInit == Init => DefsIInv
<1>1. SUFFICES ASSUME Init PROVE FirstDefinitionWins /\ Recorded /\ TipSourced
  BY CursorInit DEF DefsIInv
<1>. QED
  BY <1>1, NodeFacts DEF Init, FirstDefinitionWins, Recorded, TipSourced

\* Whatever lines a document holds, and however its paragraphs are closed, a
\* label names the first line of the document that defines it: definitions are
\* taken in the order of their lines, though a paragraph gives up its own only
\* when it is closed or turned into a heading.
THEOREM FirstDefinitionSafe == Spec => []FirstDefinitionWins
<1>1. Init => DefsIInv
  BY DefsInit
<1>2. DefsIInv /\ [Next]_vars => DefsIInv'
  BY StepDefs
<1>3. DefsIInv => FirstDefinitionWins
  BY DEF DefsIInv
<1>. QED
  BY <1>1, <1>2, <1>3, PTL DEF Spec
=============================================================================
