------------------------- MODULE InlineStackProofs -------------------------
(***************************************************************************)
(* The two lists the inline phase keeps beside the tree, and the memo of   *)
(* its backtick runs: the delimiter stack is one chain in both directions, *)
(* each entry is the text still unused of its node, no bracket's floor     *)
(* leaves the stack while the bracket waits, and the memo never changes    *)
(* whether a code span is found; for every document, every set of          *)
(* definitions, and every limit.                                           *)
(***************************************************************************)
EXTENDS InlineProperties, InductionProofs

(***************************************************************************)
(* Runs of characters                                                      *)
(***************************************************************************)
LEMMA StopFacts ==
  ASSUME NEW s, Len(s) \in Nat, NEW i \in Nat, i <= Len(s) + 1, NEW S
  PROVE  /\ Stop(s, i, S) \in i..(Len(s) + 1)
         /\ \A k \in i..(Stop(s, i, S) - 1) : s[k] \in S
         /\ Stop(s, i, S) <= Len(s) => s[Stop(s, i, S)] \notin S
<1>. DEFINE Ends == {j \in i..(Len(s) + 1) : AtEnd(s, j) \/ s[j] \notin S}
<1>1. Ends \subseteq Nat /\ Len(s) + 1 \in Ends
  BY DEF AtEnd
<1>2. Stop(s, i, S) = Min(Ends)
  BY Zenon DEF Stop
<1>. HIDE DEF Ends
<1>3. Min(Ends) \in Ends /\ \A m \in Ends : Min(Ends) <= m
  BY <1>1, MinOf
<1>. USE DEF Ends
<1>. DEFINE m == Min(Ends)
<1>4. m \in i..(Len(s) + 1) /\ (m <= Len(s) => s[m] \notin S)
  BY <1>3 DEF AtEnd
<1>. HIDE DEF m
<1>5. \A k \in i..(m - 1) : s[k] \in S
  <2>. TAKE k \in i..(m - 1)
  <2>1. k \in i..(Len(s) + 1) /\ ~(m <= k)
    BY <1>4
  <2>2. k \notin Ends
    BY <1>3, <2>1 DEF m
  <2>. QED
    BY <2>1, <2>2
<1>. QED
  BY <1>2, <1>4, <1>5 DEF m

\* A run of backticks in the text s, after its first character.
RunAt(s, i) == i \in 2..Len(s) /\ s[i] = "tick" /\ s[i-1] # "tick"

LEMMA RunLengthFacts ==
  ASSUME NEW s, Len(s) \in Nat, NEW i \in 1..Len(s), s[i] = "tick"
  PROVE  /\ RunLength(s, i) \in 1..Len(s) /\ i + RunLength(s, i) <= Len(s) + 1
         /\ i + RunLength(s, i) <= Len(s) => s[i + RunLength(s, i)] # "tick"
<1>. DEFINE j == Stop(s, i, {"tick"})
<1>1. j \in i..(Len(s) + 1) /\ (j <= Len(s) => s[j] \notin {"tick"})
  BY StopFacts
<1>2. RunLength(s, i) = j - i
  BY DEF RunLength
<1>. HIDE DEF j
<1>3. j # i
  BY <1>1
<1>4. i + (j - i) = j
  BY <1>1
<1>. QED
  BY <1>1, <1>2, <1>3, <1>4

\* What a memo may hold for the text s.
Memo(s) == [last : [1..Len(s) -> 0..Len(s)], toEnd : BOOLEAN]

LEMMA RecordedFacts ==
  ASSUME NEW s, Len(s) \in Nat, NEW memo \in Memo(s), NEW runs \in SUBSET (1..Len(s))
  PROVE  /\ Recorded(memo, s, runs) \in Memo(s)
         /\ Recorded(memo, s, runs).toEnd = memo.toEnd
         /\ \A n \in 1..Len(s) : memo.last[n] <= Recorded(memo, s, runs).last[n]
         /\ \A i \in runs : RunLength(s, i) \in 1..Len(s) => i <= Recorded(memo, s, runs).last[RunLength(s, i)]
<1>. DEFINE N     == Len(s)
            of(n) == {memo.last[n]} \cup {i \in runs : RunLength(s, i) = n}
            last  == [n \in 1..N |-> Max(of(n))]
<1>1. memo.last \in [1..N -> 0..N] /\ runs \subseteq 0..N /\ N \in Nat
  <2>1. \A i \in runs : i \in 1..Len(s) /\ i \in 0..N
    OBVIOUS
  <2>. QED
    BY <2>1 DEF Memo
<1>2. \A n \in 1..N : of(n) \subseteq 0..N /\ of(n) # {}
  <2>. HIDE DEF N
  <2>. QED
    BY <1>1
<1>9. \A n \in 1..N : Max(of(n)) \in of(n) /\ \A m \in of(n) : m <= Max(of(n))
  <2>. HIDE DEF of, N
  <2>. QED
    BY <1>1, <1>2, MaxBelow
<1>3. Recorded(memo, s, runs) = [memo EXCEPT !.last = last]
  BY DEF Recorded, Memo
<1>4. \A n \in 1..N : memo.last[n] \in of(n)
  OBVIOUS
<1>5. \A i \in runs : RunLength(s, i) \in 1..N => i \in of(RunLength(s, i))
  OBVIOUS
<1>. HIDE DEF of
<1>6. last \in [1..N -> 0..N]
  BY <1>2, <1>9
<1>7. \A n \in 1..N : last[n] = Max(of(n))
  OBVIOUS
<1>. HIDE DEF last
<1>8. [memo EXCEPT !.last = last] = [last |-> last, toEnd |-> memo.toEnd]
  BY DEF Memo
<1>. QED
  BY <1>3, <1>4, <1>5, <1>6, <1>7, <1>8, <1>9 DEF Memo

(***************************************************************************)
(* Code spans                                                              *)
(***************************************************************************)
\* A memo that says a scan reached the end has every run from `from` on.
Honest(s, memo, from) ==
  memo.toEnd => \A i \in Nat : RunAt(s, i) /\ from <= i => i <= memo.last[RunLength(s, i)]

\* Where the scan goes on after the run of backticks at `at`.
AfterTicks(s, at, end) == IF end = 0 THEN at + RunLength(s, at) ELSE end

LEMMA SearchFacts ==
  ASSUME NEW s, Len(s) \in Nat, NEW at \in 1..Len(s), s[at] = "tick", NEW memo \in Memo(s)
  PROVE  LET r == SearchCodeSpan(s, at, memo)
         IN  /\ r.memo \in Memo(s)
             /\ r.end = 0 \/ (r.end \in Nat /\ at < r.end)
             /\ \A n \in 1..Len(s) : memo.last[n] <= r.memo.last[n]
             /\ r.end # 0 => r.memo.toEnd = memo.toEnd
             /\ r.end = 0 => Honest(s, r.memo, at + RunLength(s, at))
<1>. DEFINE N       == Len(s)
            size    == RunLength(s, at)
            runs    == RunStarts(s, at + size)
            closers == {i \in runs : RunLength(s, i) = size}
            near    == {i \in runs : i <= Min(closers)}
            lost    == [Recorded(memo, s, runs) EXCEPT !.toEnd = TRUE]
            r       == SearchCodeSpan(s, at, memo)
<1>1. size \in 1..N /\ at + size \in Nat /\ at + size <= N + 1 /\ (at + size <= N => s[at + size] # "tick")
  BY RunLengthFacts
<1>2. /\ runs \subseteq 1..N /\ near \subseteq 1..N /\ closers \subseteq runs
      /\ \A i \in runs : s[i] = "tick"
      /\ \A i \in Nat : RunAt(s, i) /\ at + size <= i => i \in runs
  <2>. HIDE DEF size
  <2>. QED
    BY <1>1 DEF RunStarts, RunAt
<1>3. IF closers = {} THEN r = [end |-> 0, memo |-> lost]
      ELSE r = [end |-> Min(closers) + size, memo |-> Recorded(memo, s, near)]
  BY Zenon DEF SearchCodeSpan
<1>4. \A i \in runs : RunLength(s, i) \in 1..N
  <2>. TAKE i \in runs
  <2>1. i \in 1..Len(s) /\ s[i] = "tick"
    BY <1>2
  <2>. QED
    BY <2>1, RunLengthFacts
<1>. HIDE DEF size, runs, near, closers, r
<1>5. CASE closers = {}
  <2>. DEFINE all == Recorded(memo, s, runs)
  <2>1. /\ all \in Memo(s)
        /\ \A n \in 1..N : memo.last[n] <= all.last[n]
        /\ \A i \in runs : i <= all.last[RunLength(s, i)]
    BY <1>2, <1>4, RecordedFacts
  <2>. HIDE DEF all
  <2>2. lost \in Memo(s) /\ lost.last = all.last
    BY <2>1 DEF Memo, all
  <2>. HIDE DEF lost
  <2>3. r.end = 0 /\ r.memo = lost
    BY <1>3, <1>5
  <2>4. Honest(s, lost, at + size)
    BY <1>2, <2>1, <2>2 DEF Honest
  <2>. HIDE DEF N
  <2>5. r.memo \in Memo(s) /\ \A n \in 1..N : memo.last[n] <= r.memo.last[n]
    BY <2>1, <2>2, <2>3
  <2>. QED
    BY <2>3, <2>4, <2>5 DEF r, size, N
<1>6. CASE closers # {}
  <2>1. Min(closers) \in closers
    <3>1. closers \subseteq Nat
      BY <1>2
    <3>. QED
      BY <1>6, <3>1, MinOf
  <2>2. Min(closers) \in Nat /\ at < Min(closers)
    <3>1. \A i \in runs : i \in Nat /\ at + size <= i
      BY <1>2 DEF runs, RunStarts
    <3>2. Min(closers) \in runs
      BY <1>2, <2>1
    <3>. QED
      BY <1>1, <3>1, <3>2
  <2>. DEFINE some == Recorded(memo, s, near)
  <2>3. some \in Memo(s) /\ some.toEnd = memo.toEnd /\ \A n \in 1..N : memo.last[n] <= some.last[n]
    BY <1>2, RecordedFacts
  <2>. HIDE DEF some
  <2>4. r.end = Min(closers) + size /\ r.memo = some
    BY <1>3, <1>6 DEF some
  <2>5. r.end \in Nat /\ at < r.end /\ r.end # 0
    BY <1>1, <2>2, <2>4
  <2>. QED
    BY <2>3, <2>4, <2>5 DEF r
<1>. QED
  BY <1>5, <1>6

LEMMA ScanHonest ==
  ASSUME NEW s, Len(s) \in Nat, NEW at \in 1..Len(s), s[at] = "tick", NEW memo \in Memo(s),
         Honest(s, memo, at)
  PROVE  LET r == ScanCodeSpan(s, at, memo)
         IN  /\ r.memo \in Memo(s)
             /\ AfterTicks(s, at, r.end) \in Nat /\ at < AfterTicks(s, at, r.end)
             /\ Honest(s, r.memo, AfterTicks(s, at, r.end))
<1>. DEFINE r     == ScanCodeSpan(s, at, memo)
            found == SearchCodeSpan(s, at, memo)
<1>1. RunLength(s, at) \in 1..Len(s) /\ at + RunLength(s, at) \in Nat /\ at < at + RunLength(s, at)
  BY RunLengthFacts
<1>2. \A i \in Nat : RunAt(s, i) => RunLength(s, i) \in 1..Len(s)
  <2>. TAKE i \in Nat
  <2>1. RunAt(s, i) => i \in 1..Len(s) /\ s[i] = "tick"
    BY DEF RunAt
  <2>. QED
    BY <2>1, RunLengthFacts
<1>3. /\ found.memo \in Memo(s)
      /\ found.end = 0 \/ (found.end \in Nat /\ at < found.end)
      /\ \A n \in 1..Len(s) : memo.last[n] <= found.memo.last[n]
      /\ found.end # 0 => found.memo.toEnd = memo.toEnd
      /\ found.end = 0 => Honest(s, found.memo, at + RunLength(s, at))
  BY SearchFacts
<1>4. r = [end |-> 0, memo |-> memo] \/ r = found
  BY DEF ScanCodeSpan
<1>. HIDE DEF r, found
<1>5. CASE r = found /\ found.end = 0
  BY <1>1, <1>3, <1>5 DEF AfterTicks, r
<1>6. CASE r = [end |-> 0, memo |-> memo]
  <2>1. r.end = 0 /\ r.memo = memo
    BY <1>6
  <2>2. Honest(s, memo, at + RunLength(s, at))
    BY <1>1 DEF Honest
  <2>. QED
    BY <1>1, <2>1, <2>2 DEF AfterTicks, r
<1>7. CASE r = found /\ found.end # 0
  <2>1. \A i \in Nat : RunAt(s, i) => /\ memo.last[RunLength(s, i)] <= found.memo.last[RunLength(s, i)]
                                      /\ memo.last[RunLength(s, i)] \in Nat
                                      /\ found.memo.last[RunLength(s, i)] \in Nat
    BY <1>2, <1>3 DEF Memo
  <2>2. Honest(s, found.memo, found.end)
    <3>1. ASSUME found.memo.toEnd, NEW i \in Nat, RunAt(s, i), found.end <= i
          PROVE  i <= found.memo.last[RunLength(s, i)]
      <4>1. at <= i
        BY <1>3, <1>7, <3>1
      <4>2. i <= memo.last[RunLength(s, i)]
        BY <1>3, <1>7, <3>1, <4>1 DEF Honest
      <4>. QED
        BY <2>1, <3>1, <4>2
    <3>. QED
      BY <3>1 DEF Honest
  <2>. QED
    BY <1>3, <1>7, <2>2 DEF AfterTicks, r
<1>. QED
  BY <1>4, <1>5, <1>6, <1>7

LEMMA ScanComplete ==
  ASSUME NEW s, Len(s) \in Nat, NEW at \in 1..Len(s), s[at] = "tick", NEW memo \in Memo(s),
         Honest(s, memo, at)
  PROVE  ScanCodeSpan(s, at, memo).end = ScanCodeSpan(s, at, NoTicks(s)).end
<1>. DEFINE size    == RunLength(s, at)
            closers == {i \in RunStarts(s, at + size) : RunLength(s, i) = size}
<1>1. size \in 1..Len(s) /\ at + size \in Nat /\ at + size <= Len(s) + 1
      /\ (at + size <= Len(s) => s[at + size] # "tick")
  BY RunLengthFacts
<1>2. \A m : SearchCodeSpan(s, at, m).end = IF closers = {} THEN 0 ELSE Min(closers) + size
  BY DEF SearchCodeSpan
<1>3. ScanCodeSpan(s, at, NoTicks(s)).end = IF closers = {} THEN 0 ELSE Min(closers) + size
  BY <1>2 DEF ScanCodeSpan, NoTicks
<1>4. CASE ~(memo.toEnd /\ memo.last[size] <= at)
  <2>1. ScanCodeSpan(s, at, memo) = SearchCodeSpan(s, at, memo)
    BY <1>4 DEF ScanCodeSpan
  <2>. QED
    BY <1>2, <1>3, <2>1
<1>5. CASE memo.toEnd /\ memo.last[size] <= at
  <2>1. ScanCodeSpan(s, at, memo).end = 0
    BY <1>5 DEF ScanCodeSpan
  <2>2. closers = {}
    <3>1. ASSUME NEW i \in closers PROVE FALSE
      <4>. HIDE DEF size
      <4>1. i \in Nat /\ RunAt(s, i) /\ at < i /\ RunLength(s, i) = size
        BY <1>1 DEF RunStarts, RunAt
      <4>2. i <= memo.last[size]
        BY <1>5, <4>1 DEF Honest
      <4>3. memo.last[size] \in Nat
        BY <1>1 DEF Memo
      <4>. QED
        BY <1>5, <4>1, <4>2, <4>3
    <3>. QED
      BY <3>1
  <2>. QED
    BY <1>3, <2>1, <2>2
<1>. QED
  BY <1>4, <1>5

(***************************************************************************)
(* Labels, destinations, titles and tails                                  *)
(***************************************************************************)
\* The offsets in the text s from `at` on, and 0 for none.
EndFrom(s, at) == {0} \cup at..(Len(s) + 1)

LEMMA LabelFacts ==
  ASSUME NEW s, Len(s) \in Nat, NEW at \in 1..(Len(s) + 1)
  PROVE  LinkLabel(s, at).raw \in Nat
<1>. DEFINE I == at..(Len(s) + 1)
            T == 0..(MaxLabel + 1)
            V == [T -> EndFrom(s, at)]
            Value(i, g, taken) ==
                CASE AtEnd(s, i) \/ Ch(s, i) = "[" -> 0
                  [] Ch(s, i) = "]" -> i
                  [] Ch(s, i) = "bslash" ->
                       IF taken > MaxLabel \/ AtEnd(s, i + 1) THEN 0 ELSE g[i + 2][taken + 1]
                  [] OTHER -> IF taken > MaxLabel THEN 0 ELSE g[i + 1][taken + 1]
            Body(i, g) == [taken \in 0..(MaxLabel + 1) |-> Value(i, g, taken)]
            H      == [p \in I \X [I -> V] |-> Body(p[1], p[2])]
            Def(f) == f = [i \in at..(Len(s) + 1) |-> Body(i, f)]
            scan   == CHOOSE f : Def(f)
            close  == IF ~AtEnd(s, at) /\ s[at] = "[" THEN scan[at + 1][0] ELSE 0
<1>1. LinkLabel(s, at) = IF close = 0 THEN [raw |-> 0, valid |-> FALSE]
                         ELSE [raw |-> close + 1 - at, valid |-> close - at - 1 <= MaxLabel]
  BY Zenon DEF LinkLabel
<1>. HIDE DEF scan
<1>2. ASSUME NEW i \in I, NEW g, \A j \in I : i < j => g[j] \in V
      PROVE  Body(i, g) \in V
  <2>1. \A j \in I : i < j => \A taken \in T : g[j][taken] \in EndFrom(s, at)
    BY <1>2
  <2>2. i \in EndFrom(s, at) /\ 0 \in EndFrom(s, at)
    BY DEF EndFrom
  <2>3. /\ ~AtEnd(s, i) => i + 1 \in I /\ i < i + 1
        /\ ~AtEnd(s, i) /\ ~AtEnd(s, i + 1) => i + 2 \in I /\ i < i + 2
    BY DEF AtEnd
  <2>4. \A taken \in T : ~(taken > MaxLabel) => taken + 1 \in T
    BY InlineLexisAssumption
  <2>. HIDE DEF I
  <2>5. \A taken \in T : Value(i, g, taken) \in EndFrom(s, at)
    <3>. HIDE DEF T
    <3>. TAKE taken \in T
    <3>. DEFINE one == g[i + 1][taken + 1]
                two == g[i + 2][taken + 1]
    <3>1. ~AtEnd(s, i) /\ ~(taken > MaxLabel) => one \in EndFrom(s, at)
      BY <2>1, <2>3, <2>4
    <3>2. ~AtEnd(s, i) /\ ~(taken > MaxLabel) /\ ~AtEnd(s, i + 1) => two \in EndFrom(s, at)
      BY <2>1, <2>3, <2>4
    <3>3. AtEnd(s, i) => Ch(s, i) = "nl"
      BY DEF Ch, AtEnd
    <3>4. CASE Ch(s, i) = "["
      <4>1. Value(i, g, taken) = 0
        BY <3>3, <3>4
      <4>. QED
        BY <2>2, <4>1
    <3>5. CASE AtEnd(s, i)
      <4>1. Value(i, g, taken) = 0
        BY <3>3, <3>5
      <4>. QED
        BY <2>2, <4>1
    <3>6. CASE Ch(s, i) = "]"
      <4>1. Value(i, g, taken) = i
        BY <3>3, <3>6
      <4>. QED
        BY <2>2, <4>1
    <3>7. CASE Ch(s, i) = "bslash"
      <4>1. Value(i, g, taken) = IF taken > MaxLabel \/ AtEnd(s, i + 1) THEN 0 ELSE two
        BY <3>3, <3>7
      <4>. HIDE DEF Value, two
      <4>. QED
        BY <2>2, <3>2, <3>3, <3>7, <4>1
    <3>8. CASE ~AtEnd(s, i) /\ Ch(s, i) \notin {"[", "]", "bslash"}
      <4>1. Value(i, g, taken) = IF taken > MaxLabel THEN 0 ELSE one
        BY <3>8
      <4>. HIDE DEF Value, one
      <4>. QED
        BY <2>2, <3>1, <3>8, <4>1
    <3>. HIDE DEF Value
    <3>. QED
      BY <3>4, <3>5, <3>6, <3>7, <3>8
  <2>. HIDE DEF Value
  <2>. QED
    BY <2>5
<1>3. ASSUME NEW i \in I, NEW g \in [I -> V], NEW h \in [I -> V], \A j \in I : i < j => g[j] = h[j]
      PROVE  Body(i, g) = Body(i, h)
  <2>1. /\ ~AtEnd(s, i) => i + 1 \in I /\ i < i + 1
        /\ ~AtEnd(s, i) /\ ~AtEnd(s, i + 1) => i + 2 \in I /\ i < i + 2
    BY DEF AtEnd
  <2>. HIDE DEF I, V
  <2>2. \A taken \in T : Value(i, g, taken) = Value(i, h, taken)
    <3>. TAKE taken \in T
    <3>1. AtEnd(s, i) => Ch(s, i) = "nl"
      BY DEF Ch, AtEnd
    <3>2. ~AtEnd(s, i) => g[i + 1] = h[i + 1]
      BY <1>3, <2>1
    <3>3. ~AtEnd(s, i) /\ ~AtEnd(s, i + 1) => g[i + 2] = h[i + 2]
      BY <1>3, <2>1
    <3>4. CASE AtEnd(s, i) \/ Ch(s, i) = "["
      BY <3>1, <3>4
    <3>5. CASE Ch(s, i) = "]"
      BY <3>1, <3>5
    <3>6. CASE Ch(s, i) = "bslash"
      BY <3>1, <3>3, <3>6
    <3>7. CASE ~AtEnd(s, i) /\ Ch(s, i) \notin {"[", "]", "bslash"}
      BY <3>2, <3>7
    <3>. QED
      BY <3>4, <3>5, <3>6, <3>7
  <2>. HIDE DEF Value
  <2>. QED
    BY <2>2
<1>. HIDE DEF Body
<1>4. H \in [I \X [I -> V] -> V] /\ \A i \in I : \A g \in [I -> V] : H[<<i, g>>] = Body(i, g)
  <2>. HIDE DEF I, V
  <2>. QED
    BY <1>2
<1>. HIDE DEF H
<1>5. PICK f \in [I -> V] : \A i \in I : f[i] = H[<<i, f>>]
  <2>. DEFINE none == [taken \in T |-> 0]
  <2>1. none \in V /\ at \in Nat /\ Len(s) + 1 \in Nat
    BY DEF EndFrom
  <2>. HIDE DEF V, none
  <2>2. LooksAhead(at, Len(s) + 1, V, H)
    <3>. HIDE DEF I
    <3>1. \A i \in I : \A g, h \in [I -> V] : (\A j \in I : i < j => g[j] = h[j]) => H[<<i, g>>] = H[<<i, h>>]
      BY <1>3, <1>4
    <3>. QED
      BY <3>1 DEF LooksAhead, I
  <2>3. \E f \in [I -> V] : Solves(f, I, H)
    BY <1>4, <2>1, <2>2, LookAhead
  <2>. QED
    BY <2>3 DEF Solves
<1>6. Def(f)
  <2>1. \A i \in I : f[i] = Body(i, f)
    <3>. HIDE DEF I, V
    <3>. QED
      BY <1>4, <1>5
  <2>2. f = [i \in I |-> f[i]]
    <3>. HIDE DEF I, V
    <3>. QED
      OBVIOUS
  <2>. QED
    BY <2>1, <2>2, Zenon
<1>7. Def(scan)
  <2>. HIDE DEF Def
  <2>. QED
    BY <1>6 DEF scan
<1>8. \A i \in I : scan[i] \in V
  <2>1. \A i \in I : scan[i] = Body(i, scan)
    BY <1>7, Zenon
  <2>. DEFINE G == {i \in I : scan[i] \in V}
  <2>2. \A i \in I : (\A j \in I : i < j => j \in G) => i \in G
    <3>. HIDE DEF V
    <3>. QED
      BY <1>2, <2>1
  <2>3. \A i \in I : i \in G
    <3>1. at \in Nat /\ Len(s) + 1 \in Nat
      OBVIOUS
    <3>. HIDE DEF G
    <3>. QED
      BY <2>2, <3>1, DownwardInduction
  <2>. QED
    BY <2>3
<1>9. close \in EndFrom(s, at)
  <2>1. ~AtEnd(s, at) => at + 1 \in I
    BY DEF AtEnd
  <2>2. 0 \in T
    BY InlineLexisAssumption
  <2>. QED
    BY <1>8, <2>1, <2>2 DEF EndFrom
<1>. HIDE DEF close
<1>. QED
  BY <1>1, <1>9 DEF EndFrom

LEMMA BareFacts ==
  ASSUME NEW s, Len(s) \in Nat, NEW at \in 1..(Len(s) + 1)
  PROVE  BareDestination(s, at) \in EndFrom(s, at)
<1>. DEFINE I == at..(Len(s) + 1)
            T == 0..MaxLinkParens
            V == [T -> EndFrom(s, at)]
            Value(i, g, depth) ==
                CASE Ch(s, i) \in Spaces -> IF depth = 0 THEN i ELSE 0
                  [] Escapes(s, i) -> g[i + 2][depth]
                  [] Ch(s, i) = "(" -> IF depth = MaxLinkParens THEN 0 ELSE g[i + 1][depth + 1]
                  [] Ch(s, i) = ")" -> IF depth = 0 THEN i ELSE g[i + 1][depth - 1]
                  [] OTHER -> g[i + 1][depth]
            Body(i, g) == [depth \in 0..MaxLinkParens |-> Value(i, g, depth)]
            H      == [p \in I \X [I -> V] |-> Body(p[1], p[2])]
            Def(f) == f = [i \in at..(Len(s) + 1) |-> Body(i, f)]
            scan   == CHOOSE f : Def(f)
<1>1. BareDestination(s, at) = scan[at][0]
  BY Zenon DEF BareDestination
<1>. HIDE DEF scan
<1>10. \A i \in I : /\ Ch(s, i) \notin Spaces => i + 1 \in I /\ i < i + 1
                    /\ Escapes(s, i) => i + 2 \in I /\ i < i + 2 /\ Ch(s, i) = "bslash"
  BY DEF AtEnd, Ch, Spaces, Escapes
<1>11. "bslash" \notin Spaces /\ "(" \notin Spaces /\ ")" \notin Spaces
  BY DEF Spaces
<1>2. ASSUME NEW i \in I, NEW g, \A j \in I : i < j => g[j] \in V
      PROVE  Body(i, g) \in V
  <2>1. \A j \in I : i < j => \A depth \in T : g[j][depth] \in EndFrom(s, at)
    BY <1>2
  <2>2. i \in EndFrom(s, at) /\ 0 \in EndFrom(s, at)
    BY DEF EndFrom
  <2>3. \A depth \in T : (depth # MaxLinkParens => depth + 1 \in T) /\ (depth # 0 => depth - 1 \in T)
    BY InlineLexisAssumption
  <2>. HIDE DEF I
  <2>4. \A depth \in T : Value(i, g, depth) \in EndFrom(s, at)
    <3>. HIDE DEF T
    <3>. TAKE depth \in T
    <3>1. CASE Ch(s, i) \in Spaces
      BY <1>10, <1>11, <2>2, <3>1
    <3>2. CASE Escapes(s, i)
      <4>1. Value(i, g, depth) = g[i + 2][depth]
        BY <1>10, <1>11, <3>2
      <4>. HIDE DEF Value
      <4>. QED
        BY <1>10, <2>1, <3>2, <4>1
    <3>3. CASE Ch(s, i) = "("
      <4>1. Value(i, g, depth) = IF depth = MaxLinkParens THEN 0 ELSE g[i + 1][depth + 1]
        BY <1>10, <1>11, <3>3
      <4>. HIDE DEF Value
      <4>. QED
        BY <1>10, <1>11, <2>1, <2>2, <2>3, <3>3, <4>1
    <3>4. CASE Ch(s, i) = ")"
      <4>1. Value(i, g, depth) = IF depth = 0 THEN i ELSE g[i + 1][depth - 1]
        BY <1>10, <1>11, <3>4
      <4>. HIDE DEF Value
      <4>. QED
        BY <1>10, <1>11, <2>1, <2>2, <2>3, <3>4, <4>1
    <3>5. CASE Ch(s, i) \notin Spaces \cup {"(", ")"} /\ ~Escapes(s, i)
      <4>1. Value(i, g, depth) = g[i + 1][depth]
        BY <3>5
      <4>. HIDE DEF Value
      <4>. QED
        BY <1>10, <2>1, <3>5, <4>1
    <3>. HIDE DEF Value
    <3>. QED
      BY <3>1, <3>2, <3>3, <3>4, <3>5
  <2>. HIDE DEF Value
  <2>. QED
    BY <2>4
<1>3. ASSUME NEW i \in I, NEW g \in [I -> V], NEW h \in [I -> V], \A j \in I : i < j => g[j] = h[j]
      PROVE  Body(i, g) = Body(i, h)
  <2>. HIDE DEF I, V
  <2>2. \A depth \in T : Value(i, g, depth) = Value(i, h, depth)
    <3>. TAKE depth \in T
    <3>1. Ch(s, i) \notin Spaces => g[i + 1] = h[i + 1]
      BY <1>3, <1>10
    <3>2. Escapes(s, i) => g[i + 2] = h[i + 2]
      BY <1>3, <1>10
    <3>3. CASE Ch(s, i) \in Spaces
      BY <1>10, <1>11, <3>3
    <3>4. CASE Escapes(s, i)
      BY <1>10, <1>11, <3>2, <3>4
    <3>5. CASE Ch(s, i) = "("
      BY <1>10, <1>11, <3>1, <3>5
    <3>6. CASE Ch(s, i) = ")"
      BY <1>10, <1>11, <3>1, <3>6
    <3>7. CASE Ch(s, i) \notin Spaces \cup {"(", ")"} /\ ~Escapes(s, i)
      BY <3>1, <3>7
    <3>. QED
      BY <3>3, <3>4, <3>5, <3>6, <3>7
  <2>. HIDE DEF Value
  <2>. QED
    BY <2>2
<1>. HIDE DEF Body
<1>4. H \in [I \X [I -> V] -> V] /\ \A i \in I : \A g \in [I -> V] : H[<<i, g>>] = Body(i, g)
  <2>. HIDE DEF I, V
  <2>. QED
    BY <1>2
<1>. HIDE DEF H
<1>5. PICK f \in [I -> V] : \A i \in I : f[i] = H[<<i, f>>]
  <2>. DEFINE none == [depth \in T |-> 0]
  <2>1. none \in V /\ at \in Nat /\ Len(s) + 1 \in Nat
    BY DEF EndFrom
  <2>. HIDE DEF V, none
  <2>2. LooksAhead(at, Len(s) + 1, V, H)
    <3>. HIDE DEF I
    <3>1. \A i \in I : \A g, h \in [I -> V] : (\A j \in I : i < j => g[j] = h[j]) => H[<<i, g>>] = H[<<i, h>>]
      BY <1>3, <1>4
    <3>. QED
      BY <3>1 DEF LooksAhead, I
  <2>3. \E f \in [I -> V] : Solves(f, I, H)
    BY <1>4, <2>1, <2>2, LookAhead
  <2>. QED
    BY <2>3 DEF Solves
<1>6. Def(f)
  <2>1. \A i \in I : f[i] = Body(i, f)
    <3>. HIDE DEF I, V
    <3>. QED
      BY <1>4, <1>5
  <2>2. f = [i \in I |-> f[i]]
    <3>. HIDE DEF I, V
    <3>. QED
      OBVIOUS
  <2>. QED
    BY <2>1, <2>2, Zenon
<1>7. Def(scan)
  <2>. HIDE DEF Def
  <2>. QED
    BY <1>6 DEF scan
<1>8. \A i \in I : scan[i] \in V
  <2>1. \A i \in I : scan[i] = Body(i, scan)
    BY <1>7, Zenon
  <2>. DEFINE G == {i \in I : scan[i] \in V}
  <2>2. \A i \in I : (\A j \in I : i < j => j \in G) => i \in G
    <3>. HIDE DEF V
    <3>. QED
      BY <1>2, <2>1
  <2>3. \A i \in I : i \in G
    <3>1. at \in Nat /\ Len(s) + 1 \in Nat
      OBVIOUS
    <3>. HIDE DEF G
    <3>. QED
      BY <2>2, <3>1, DownwardInduction
  <2>. QED
    BY <2>3
<1>. QED
  <2>1. 0 \in T /\ at \in I
    BY InlineLexisAssumption
  <2>. HIDE DEF I, T
  <2>. QED
    BY <1>1, <1>8, <2>1

LEMMA TitleFacts ==
  ASSUME NEW s, Len(s) \in Nat, NEW at \in 1..(Len(s) + 1)
  PROVE  LinkTitle(s, at) \in EndFrom(s, at)
<1>. DEFINE I == at..(Len(s) + 1)
            V == EndFrom(s, at)
            Body(i, g) ==
                CASE AtEnd(s, i) \/ Ch(s, i) = "(" -> 0
                  [] Ch(s, i) = ")" -> i + 1
                  [] Escapes(s, i) -> IF g[i + 2] # 0 THEN g[i + 2] ELSE g[i + 1]
                  [] OTHER -> g[i + 1]
            H      == [p \in I \X [I -> V] |-> Body(p[1], p[2])]
            Def(f) == f = [i \in at..(Len(s) + 1) |-> Body(i, f)]
            scan   == CHOOSE f : Def(f)
<1>1. LinkTitle(s, at) = CASE Ch(s, at) = "title" -> at + 1
                           [] Ch(s, at) = "(" -> scan[at + 1]
                           [] OTHER -> 0
  BY Zenon DEF LinkTitle
<1>. HIDE DEF scan
<1>10. \A i \in I : /\ ~AtEnd(s, i) => i + 1 \in I /\ i < i + 1
                    /\ Escapes(s, i) => i + 2 \in I /\ i < i + 2 /\ Ch(s, i) = "bslash" /\ ~AtEnd(s, i)
                    /\ AtEnd(s, i) => Ch(s, i) = "nl"
  BY DEF AtEnd, Ch, Escapes
<1>2. ASSUME NEW i \in I, NEW g, \A j \in I : i < j => g[j] \in V
      PROVE  Body(i, g) \in V
  <2>1. i \in I /\ \A j \in I : j \in V
    BY DEF EndFrom
  <2>2. 0 \in V
    BY DEF EndFrom
  <2>. HIDE DEF I, V
  <2>3. CASE AtEnd(s, i) \/ Ch(s, i) = "("
    BY <1>10, <2>1, <2>2, <2>3
  <2>4. CASE Ch(s, i) = ")"
    BY <1>10, <2>1, <2>4
  <2>5. CASE Escapes(s, i)
    BY <1>2, <1>10, <2>1, <2>5
  <2>6. CASE ~AtEnd(s, i) /\ ~Escapes(s, i) /\ Ch(s, i) \notin {"(", ")"}
    BY <1>2, <1>10, <2>1, <2>6
  <2>. HIDE DEF Body
  <2>. QED
    BY <2>3, <2>4, <2>5, <2>6
<1>3. ASSUME NEW i \in I, NEW g \in [I -> V], NEW h \in [I -> V], \A j \in I : i < j => g[j] = h[j]
      PROVE  Body(i, g) = Body(i, h)
  <2>. HIDE DEF I, V
  <2>1. ~AtEnd(s, i) => g[i + 1] = h[i + 1]
    BY <1>3, <1>10
  <2>2. Escapes(s, i) => g[i + 2] = h[i + 2]
    BY <1>3, <1>10
  <2>3. CASE AtEnd(s, i) \/ Ch(s, i) = "("
    BY <1>10, <2>3
  <2>4. CASE Ch(s, i) = ")"
    BY <1>10, <2>4
  <2>5. CASE Escapes(s, i)
    BY <1>10, <2>1, <2>2, <2>5
  <2>6. CASE ~AtEnd(s, i) /\ ~Escapes(s, i) /\ Ch(s, i) \notin {"(", ")"}
    BY <2>1, <2>6
  <2>. HIDE DEF Body
  <2>. QED
    BY <2>3, <2>4, <2>5, <2>6
<1>. HIDE DEF Body
<1>4. H \in [I \X [I -> V] -> V] /\ \A i \in I : \A g \in [I -> V] : H[<<i, g>>] = Body(i, g)
  <2>. HIDE DEF I, V
  <2>. QED
    BY <1>2
<1>. HIDE DEF H
<1>5. PICK f \in [I -> V] : \A i \in I : f[i] = H[<<i, f>>]
  <2>1. 0 \in V /\ at \in Nat /\ Len(s) + 1 \in Nat
    BY DEF EndFrom
  <2>. HIDE DEF V
  <2>2. LooksAhead(at, Len(s) + 1, V, H)
    <3>. HIDE DEF I
    <3>1. \A i \in I : \A g, h \in [I -> V] : (\A j \in I : i < j => g[j] = h[j]) => H[<<i, g>>] = H[<<i, h>>]
      BY <1>3, <1>4
    <3>. QED
      BY <3>1 DEF LooksAhead, I
  <2>3. \E f \in [I -> V] : Solves(f, I, H)
    BY <1>4, <2>1, <2>2, LookAhead
  <2>. QED
    BY <2>3 DEF Solves
<1>6. Def(f)
  <2>1. \A i \in I : f[i] = Body(i, f)
    <3>. HIDE DEF I, V
    <3>. QED
      BY <1>4, <1>5
  <2>2. f = [i \in I |-> f[i]]
    <3>. HIDE DEF I, V
    <3>. QED
      OBVIOUS
  <2>. QED
    BY <2>1, <2>2, Zenon
<1>7. Def(scan)
  <2>. HIDE DEF Def
  <2>. QED
    BY <1>6 DEF scan
<1>8. \A i \in I : scan[i] \in V
  <2>1. \A i \in I : scan[i] = Body(i, scan)
    BY <1>7, Zenon
  <2>. DEFINE G == {i \in I : scan[i] \in V}
  <2>2. \A i \in I : (\A j \in I : i < j => j \in G) => i \in G
    <3>. HIDE DEF V
    <3>. QED
      BY <1>2, <2>1
  <2>3. \A i \in I : i \in G
    <3>1. at \in Nat /\ Len(s) + 1 \in Nat
      OBVIOUS
    <3>. HIDE DEF G
    <3>. QED
      BY <2>2, <3>1, DownwardInduction
  <2>. QED
    BY <2>3
<1>9. LinkTitle(s, at) \in V
  <2>1. 0 \in V /\ (~AtEnd(s, at) => at + 1 \in I /\ at + 1 \in V)
    BY DEF EndFrom, AtEnd
  <2>2. Ch(s, at) \in {"title", "("} => ~AtEnd(s, at)
    BY DEF Ch, AtEnd
  <2>. HIDE DEF I, V
  <2>. QED
    BY <1>1, <1>8, <2>1, <2>2
<1>. QED
  BY <1>9

\* White space is passed without leaving the text.
LEMMA SpnlFacts ==
  ASSUME NEW s, Len(s) \in Nat, NEW i \in Nat, i <= Len(s) + 1
  PROVE  Spnl(s, i) \in i..(Len(s) + 1)
<1>. DEFINE j == SkipSpaces(s, i)
            k == SkipSpaces(s, j + 1)
<1>1. j \in i..(Len(s) + 1)
  BY StopFacts DEF SkipSpaces
<1>. HIDE DEF j
<1>2. ~AtEnd(s, j) => k \in (j + 1)..(Len(s) + 1)
  <2>1. ~AtEnd(s, j) => j + 1 \in Nat /\ j + 1 <= Len(s) + 1
    BY <1>1 DEF AtEnd
  <2>. QED
    BY <2>1, StopFacts DEF SkipSpaces
<1>3. Spnl(s, i) = IF ~AtEnd(s, j) /\ s[j] = "nl" THEN k ELSE j
  BY DEF Spnl, j
<1>. HIDE DEF k
<1>. QED
  BY <1>1, <1>2, <1>3

LEMMA TailFacts ==
  ASSUME NEW s, Len(s) \in Nat, NEW at \in 1..(Len(s) + 1)
  PROVE  LinkTail(s, at) # 0 => LinkTail(s, at) \in Nat /\ at <= LinkTail(s, at)
<1>. DEFINE from  == Spnl(s, at + 1)
            dest  == IF Ch(s, at) = "(" THEN LinkDestination(s, from) ELSE 0
            gap   == Spnl(s, dest)
            title == IF Ch(s, gap - 1) \in Spaces THEN LinkTitle(s, gap) ELSE 0
            end   == Spnl(s, IF title = 0 THEN gap ELSE title)
<1>1. LinkTail(s, at) = IF dest # 0 /\ Ch(s, end) = ")" THEN end + 1 ELSE 0
  BY DEF LinkTail
<1>2. SUFFICES ASSUME dest # 0 PROVE end \in at..(Len(s) + 1)
  <2>. HIDE DEF dest, end
  <2>. QED
    BY <1>1
<1>3. Ch(s, at) = "(" /\ at + 1 \in Nat /\ at + 1 <= Len(s) + 1
  BY <1>2 DEF Ch
<1>4. from \in (at + 1)..(Len(s) + 1)
  BY <1>3, SpnlFacts
<1>. HIDE DEF from
<1>5. dest \in from..(Len(s) + 1)
  <2>1. BareDestination(s, from) \in {0} \cup from..(Len(s) + 1)
    <3>1. from \in 1..(Len(s) + 1)
      BY <1>4
    <3>. QED
      BY <3>1, BareFacts DEF EndFrom
  <2>2. dest = LinkDestination(s, from)
    BY <1>3
  <2>3. \/ dest = 0 \/ dest = from \/ dest = BareDestination(s, from)
        \/ dest = from + 1 /\ ~AtEnd(s, from)
    BY <2>2 DEF LinkDestination
  <2>. HIDE DEF dest
  <2>. QED
    BY <1>2, <1>4, <2>1, <2>3 DEF AtEnd
<1>. HIDE DEF dest
<1>6. gap \in dest..(Len(s) + 1)
  <2>1. dest \in Nat /\ dest <= Len(s) + 1
    BY <1>4, <1>5
  <2>. QED
    BY <2>1, SpnlFacts
<1>. HIDE DEF gap
<1>7. title \in {0} \cup gap..(Len(s) + 1)
  <2>1. gap \in 1..(Len(s) + 1)
    BY <1>4, <1>5, <1>6
  <2>2. LinkTitle(s, gap) \in {0} \cup gap..(Len(s) + 1)
    BY <2>1, TitleFacts DEF EndFrom
  <2>. QED
    BY <2>2
<1>. HIDE DEF title
<1>. DEFINE last == IF title = 0 THEN gap ELSE title
<1>8. last \in gap..(Len(s) + 1)
  BY <1>4, <1>5, <1>6, <1>7
<1>. HIDE DEF last
<1>9. end \in last..(Len(s) + 1)
  <2>1. last \in Nat /\ last <= Len(s) + 1 /\ end = Spnl(s, last)
    BY <1>4, <1>5, <1>6, <1>8 DEF last
  <2>. QED
    BY <2>1, SpnlFacts
<1>. QED
  BY <1>4, <1>5, <1>6, <1>8, <1>9

(***************************************************************************)
(* The memo, from step to step                                             *)
(***************************************************************************)
LEMMA TrimTyped ==
  ASSUME NEW s \in Seq(Chars)
  PROVE  Trim(s) \in Seq(Chars)
<1>. DEFINE kept == {i \in 1..Len(s) : s[i] \notin Spaces}
<1>1. Trim(s) = IF kept = {} THEN <<>> ELSE SubSeq(s, Min(kept), Max(kept))
  BY DEF Trim
<1>2. CASE kept = {}
  BY <1>1, <1>2
<1>3. CASE kept # {}
  <2>1. kept \subseteq 1..Len(s) /\ kept \subseteq Nat /\ Len(s) \in Nat
    OBVIOUS
  <2>. HIDE DEF kept
  <2>2. Min(kept) \in kept /\ Max(kept) \in kept
    BY <1>3, <2>1, MinOf, MaxOf
  <2>3. Min(kept) \in 1..Len(s) /\ Max(kept) \in 1..Len(s)
    BY <2>1, <2>2
  <2>. QED
    BY <1>1, <1>3, <2>3
<1>. QED
  BY <1>2, <1>3

\* An honest memo is honest for what comes later.
LEMMA HonestLater ==
  ASSUME NEW s, NEW memo, NEW from \in Nat, NEW to \in Nat, from <= to, Honest(s, memo, from)
  PROVE  Honest(s, memo, to)
BY DEF Honest

\* The documents are texts.
TextsHeld ==
  /\ content \in Seq(Seq(Chars))
  /\ block \in Nat \ {0}
  /\ pc # "done" => block <= Len(content)

\* A link is under construction only while emphasis is processed for it and
\* while it is decided on.
LinkOnlyHere ==
  /\ pc \notin {"emph", "link"} => link.node = Nil
  /\ pc = "link" => link.node # Nil

\* Where the scan goes on, at the earliest: a link may yet be taken back.
GoesOnAt == IF link.node = Nil THEN pos ELSE link.back

\* The memo is of the subject, and honest for all that is ahead.
MemoHonest ==
  Parsing =>
    /\ subject \in Seq(Chars)
    /\ pos \in Nat \ {0} /\ GoesOnAt \in Nat \ {0} /\ GoesOnAt <= pos
    /\ ticks \in Memo(subject)
    /\ Honest(subject, ticks, GoesOnAt)

MemoInv == TextsHeld /\ LinkOnlyHere /\ MemoHonest

LEMMA MemoInit == Init => MemoInv
<1>. SUFFICES ASSUME Init PROVE MemoInv
  OBVIOUS
<1>1. PICK texts \in Documents :
        /\ content = texts /\ block = 1 /\ link = NoLink
        /\ pc = IF texts = <<>> THEN "done" ELSE "begin"
  BY DEF Init
<1>2. texts \in Seq(Seq(Chars))
  <2>. DEFINE D == {text \in Seq(Chars) : NoBlankLine(text)}
  <2>1. texts \in Seq(D) /\ D \subseteq Seq(Chars)
    BY <1>1, InlinePhaseAssumption
  <2>. HIDE DEF D
  <2>. QED
    BY <2>1
<1>3. pc # "done" => 1 <= Len(content)
  BY <1>1, <1>2
<1>. QED
  BY <1>1, <1>2, <1>3 DEF MemoInv, TextsHeld, LinkOnlyHere, MemoHonest, Parsing, NoLink, Nil

LEMMA LinkEndFacts ==
  ASSUME NEW opener, subject \in Seq(Chars), pos \in 1..Len(subject), LinkEnd(opener) # 0
  PROVE  LinkEnd(opener) \in Nat /\ pos + 1 <= LinkEnd(opener)
<1>. DEFINE at    == pos + 1
            tail  == LinkTail(subject, pos + 1)
            label == LinkLabel(subject, pos + 1)
            n     == IF label.valid THEN label.raw ELSE 0
<1>1. at \in 1..(Len(subject) + 1) /\ Len(subject) \in Nat
  OBVIOUS
<1>2. tail # 0 => tail \in Nat /\ at <= tail
  BY <1>1, TailFacts
<1>3. n \in Nat
  BY <1>1, LabelFacts
<1>4. LinkEnd(opener) \in {tail, pos + 1 + n, 0} /\ (tail = 0 => LinkEnd(opener) # tail)
  BY DEF LinkEnd
<1>. HIDE DEF tail, n
<1>. QED
  BY <1>1, <1>2, <1>3, <1>4

\* A construct that is no run of backticks and no link moves the scan on.
LEMMA ScanMovesOn ==
  ASSUME MemoInv,
         ParseString \/ ParseNewline \/ ParseBackslash \/ ParseAutolink \/ ParseOne
           \/ HandleDelim \/ ParseOpenBracket \/ ParseBang \/ CloseNothing
  PROVE  pc = "scan" /\ pos' \in Nat /\ pos <= pos' /\ UNCHANGED <<unscanned, ticks>>
<1>1. pc = "scan" /\ pos <= Len(subject)
  <2>1. \E S : At(S)
    BY Zenon DEF ParseString, ParseNewline, ParseBackslash, ParseAutolink, ParseOne, HandleDelim,
                 ParseOpenBracket, ParseBang, CloseNothing
  <2>2. pc = "scan" /\ ~(pos > Len(subject))
    BY <2>1, Zenon DEF At, AtEnd
  <2>3. Len(subject) \in Nat /\ pos \in Nat
    BY <2>2 DEF MemoInv, MemoHonest, Parsing
  <2>. QED
    BY <2>2, <2>3
<1>2. Len(subject) \in Nat /\ pos \in Nat /\ pos <= Len(subject) + 1
  BY <1>1 DEF MemoInv, MemoHonest, Parsing
<1>3. CASE ParseString
  BY <1>1, <1>2, <1>3, StopFacts DEF ParseString, Emit
<1>4. CASE ParseNewline
  <2>1. pos + 1 \in Nat /\ pos + 1 <= Len(subject) + 1
    BY <1>1, <1>2
  <2>2. SkipSpaces(subject, pos + 1) \in (pos + 1)..(Len(subject) + 1)
    BY <1>2, <2>1, StopFacts DEF SkipSpaces
  <2>. QED
    BY <1>1, <1>2, <1>4, <2>2 DEF ParseNewline
<1>5. CASE ParseBackslash
  <2>1. pos < Len(subject) => pos + 2 \in Nat /\ pos + 2 <= Len(subject) + 1
    BY <1>2
  <2>2. pos < Len(subject) => SkipSpaces(subject, pos + 2) \in (pos + 2)..(Len(subject) + 1)
    BY <1>2, <2>1, StopFacts DEF SkipSpaces
  <2>3. \/ pos < Len(subject) /\ pos' = SkipSpaces(subject, pos + 2)
        \/ pos' = pos + 2
        \/ pos' = pos + 1
    BY <1>5 DEF ParseBackslash, Emit
  <2>. QED
    BY <1>1, <1>2, <1>5, <2>2, <2>3 DEF ParseBackslash
<1>6. CASE ParseAutolink \/ ParseOne \/ ParseOpenBracket \/ ParseBang \/ CloseNothing
  <2>1. pos' \in {pos + 1, pos + 2}
    BY <1>6 DEF ParseAutolink, ParseOne, ParseOpenBracket, ParseBang, CloseNothing, Emit
  <2>2. UNCHANGED <<unscanned, ticks>>
    BY <1>6, Zenon DEF ParseAutolink, ParseOne, ParseOpenBracket, ParseBang, CloseNothing
  <2>. QED
    BY <1>1, <1>2, <2>1, <2>2
<1>7. CASE HandleDelim
  <2>. DEFINE end == Stop(subject, pos, {subject[pos]})
  <2>1. end \in pos..(Len(subject) + 1)
    BY <1>2, StopFacts
  <2>2. DelimRun(subject, pos).num = end - pos
    BY DEF DelimRun
  <2>3. pos' = pos + DelimRun(subject, pos).num
    BY <1>7 DEF HandleDelim, Emit
  <2>. HIDE DEF end
  <2>4. pos' = end
    BY <1>2, <2>1, <2>2, <2>3
  <2>. QED
    BY <1>1, <1>2, <1>7, <2>1, <2>4 DEF HandleDelim
<1>. QED
  BY <1>3, <1>4, <1>5, <1>6, <1>7

\* Nothing of a block in hand changes but where the scan stands.
LEMMA MemoMoved ==
  ASSUME MemoInv, pc = "scan", pos' \in Nat, pos <= pos', UNCHANGED <<unscanned, ticks>>
  PROVE  MemoInv'
<1>. USE DEF unscanned
<1>1. TextsHeld' /\ LinkOnlyHere'
  BY DEF MemoInv, TextsHeld, LinkOnlyHere
<1>2. link.node = Nil /\ GoesOnAt = pos /\ GoesOnAt' = pos'
  BY DEF MemoInv, LinkOnlyHere, GoesOnAt
<1>3. /\ subject \in Seq(Chars) /\ pos \in Nat \ {0} /\ ticks \in Memo(subject)
      /\ Honest(subject, ticks, pos)
  BY <1>2 DEF MemoInv, MemoHonest, Parsing
<1>4. Honest(subject, ticks, pos')
  BY <1>3, HonestLater
<1>5. MemoHonest'
  BY <1>2, <1>3, <1>4 DEF MemoHonest
<1>. QED
  BY <1>1, <1>5 DEF MemoInv

LEMMA MemoNext == MemoInv /\ [Next \/ Done]_vars => MemoInv'
<1>. SUFFICES ASSUME MemoInv, [Next \/ Done]_vars PROVE MemoInv'
  OBVIOUS
<1>1. CASE UNCHANGED vars
  BY <1>1 DEF vars, MemoInv, TextsHeld, LinkOnlyHere, MemoHonest, GoesOnAt, Parsing
<1>2. CASE BeginBlock
  <2>1. pc = "begin" /\ pc' = "scan" /\ link.node = Nil
    BY <1>2 DEF BeginBlock, MemoInv, LinkOnlyHere
  <2>2. subject' \in Seq(Chars)
    <3>1. content[block] \in Seq(Chars)
      BY <2>1 DEF MemoInv, TextsHeld
    <3>. QED
      BY <1>2, <3>1, TrimTyped DEF BeginBlock
  <2>3. ticks' = NoTicks(subject') /\ pos' = 1 /\ link' = link /\ content' = content /\ block' = block
    BY <1>2 DEF BeginBlock
  <2>4. ticks' \in Memo(subject') /\ ~ticks'.toEnd
    BY <2>2, <2>3 DEF NoTicks, Memo
  <2>5. MemoHonest'
    BY <2>1, <2>2, <2>3, <2>4 DEF MemoHonest, GoesOnAt, Honest
  <2>. QED
    BY <2>1, <2>3, <2>5 DEF MemoInv, TextsHeld, LinkOnlyHere
<1>3. CASE ParseString \/ ParseNewline \/ ParseBackslash \/ ParseAutolink \/ ParseOne
             \/ HandleDelim \/ ParseOpenBracket \/ ParseBang \/ CloseNothing
  BY <1>3, ScanMovesOn, MemoMoved
<1>4. CASE ParseBackticks
  <2>. DEFINE r == ScanCodeSpan(subject, pos, ticks)
  <2>1. At({"tick"}) /\ UNCHANGED unscanned /\ ticks' = r.memo
        /\ pos' = AfterTicks(subject, pos, r.end)
    BY <1>4, Zenon DEF ParseBackticks, Emit, AfterTicks
  <2>2. pc = "scan" /\ pc' = "scan" /\ link.node = Nil /\ subject' = subject
    BY <2>1 DEF At, MemoInv, LinkOnlyHere, unscanned
  <2>3. /\ subject \in Seq(Chars) /\ pos \in Nat \ {0} /\ ticks \in Memo(subject)
        /\ Honest(subject, ticks, pos)
    BY <2>2 DEF MemoInv, MemoHonest, Parsing, GoesOnAt
  <2>4. Len(subject) \in Nat /\ pos \in 1..Len(subject) /\ subject[pos] = "tick"
    BY <2>1, <2>3 DEF At, AtEnd
  <2>5. ticks' \in Memo(subject) /\ pos' \in Nat /\ pos < pos' /\ Honest(subject, ticks', pos')
    BY <2>1, <2>3, <2>4, ScanHonest
  <2>. HIDE DEF r
  <2>6. GoesOnAt' = pos' /\ pos' \in Nat \ {0}
    BY <2>1, <2>2, <2>3, <2>5 DEF GoesOnAt, unscanned
  <2>7. MemoHonest'
    BY <2>2, <2>3, <2>5, <2>6 DEF MemoHonest
  <2>. QED
    BY <2>1, <2>7 DEF MemoInv, TextsHeld, LinkOnlyHere, unscanned
<1>5. CASE FinishBlock
  <2>1. /\ pc = "scan" /\ pc' = "emph" /\ UNCHANGED <<block, subject, pos, ticks, link>>
        /\ content' = [content EXCEPT ![block] = <<>>]
    BY <1>5 DEF FinishBlock, StartEmphasis, stacks
  <2>2. content' \in Seq(Seq(Chars)) /\ Len(content') = Len(content)
    <3>. DEFINE T == Seq(Chars)
                n == Len(content)
    <3>1. content \in Seq(T) /\ <<>> \in T /\ n \in Nat
      BY DEF MemoInv, TextsHeld
    <3>. HIDE DEF T
    <3>2. content \in [1..n -> T]
      BY <3>1
    <3>. HIDE DEF n
    <3>3. content' \in [1..n -> T]
      BY <2>1, <3>1, <3>2
    <3>4. content' \in Seq(T) /\ Len(content') = n
      BY <3>1, <3>3
    <3>. QED
      BY <3>4 DEF n, T
  <2>3. TextsHeld'
    BY <2>1, <2>2 DEF MemoInv, TextsHeld
  <2>. QED
    BY <2>1, <2>3 DEF MemoInv, LinkOnlyHere, MemoHonest, GoesOnAt, Parsing
<1>6. CASE SkipOpener \/ MatchDelims \/ NoOpener
  <2>1. pc = "emph" /\ pc' = "emph" /\ UNCHANGED <<content, block, subject, pos, ticks, link>>
    BY <1>6, Zenon DEF SkipOpener, MatchDelims, NoOpener, AtCloser, stacks
  <2>. QED
    BY <2>1 DEF MemoInv, TextsHeld, LinkOnlyHere, MemoHonest, GoesOnAt, Parsing
<1>7. CASE EndEmphasis
  <2>1. /\ pc = "emph" /\ UNCHANGED <<content, subject, pos, ticks, link>>
        /\ \/ link.node # Nil /\ pc' = "link" /\ block' = block
           \/ link.node = Nil /\ pc' = "linkify" /\ block' = block
           \/ link.node = Nil /\ NextBlock
    BY <1>7 DEF EndEmphasis
  <2>2. link.node = Nil /\ NextBlock => TextsHeld'
    BY <2>1 DEF MemoInv, TextsHeld, NextBlock
  <2>3. link.node = Nil /\ NextBlock => pc' \in {"done", "begin"}
    BY DEF NextBlock
  <2>. QED
    BY <2>1, <2>2, <2>3 DEF MemoInv, TextsHeld, LinkOnlyHere, MemoHonest, GoesOnAt, Parsing
<1>8. CASE MakeLink
  <2>1. /\ At({"]"}) /\ pc' = "emph" /\ UNCHANGED <<content, block, subject, ticks>>
        /\ LinkEnd(Last(brackets)) # 0
        /\ link'.back = pos + 1
        /\ pos' = LinkEnd(Last(brackets))
    BY <1>8 DEF MakeLink, StartEmphasis
  <2>2. pc = "scan" /\ link.node = Nil /\ GoesOnAt = pos
    BY <2>1 DEF At, MemoInv, LinkOnlyHere, GoesOnAt
  <2>3. /\ subject \in Seq(Chars) /\ pos \in Nat \ {0} /\ ticks \in Memo(subject)
        /\ Honest(subject, ticks, pos)
    BY <2>2 DEF MemoInv, MemoHonest, Parsing
  <2>4. pos \in 1..Len(subject)
    BY <2>1, <2>3 DEF At, AtEnd
  <2>5. pos' \in Nat /\ pos + 1 <= pos'
    BY <2>1, <2>3, <2>4, LinkEndFacts
  <2>6. Honest(subject, ticks, pos + 1) /\ Honest(subject, ticks, pos')
    BY <2>3, <2>5, HonestLater
  <2>7. GoesOnAt' \in {pos', pos + 1}
    BY <2>1 DEF GoesOnAt
  <2>8. MemoHonest'
    BY <2>1, <2>3, <2>5, <2>6, <2>7 DEF MemoHonest
  <2>. QED
    BY <2>1, <2>8 DEF MemoInv, TextsHeld, LinkOnlyHere, At
<1>9. CASE KeepLink \/ TakeBackLink
  <2>1. /\ pc = "link" /\ pc' = "scan" /\ UNCHANGED <<content, block, subject, ticks>>
        /\ link' = NoLink
        /\ pos' \in {pos, link.back}
    BY <1>9, Zenon DEF KeepLink, TakeBackLink
  <2>2. link.node # Nil /\ GoesOnAt = link.back /\ link'.node = Nil
    BY <2>1 DEF MemoInv, LinkOnlyHere, GoesOnAt, NoLink
  <2>3. /\ subject \in Seq(Chars) /\ pos \in Nat \ {0} /\ ticks \in Memo(subject)
        /\ link.back \in Nat \ {0} /\ link.back <= pos
        /\ Honest(subject, ticks, link.back)
    BY <2>1, <2>2 DEF MemoInv, MemoHonest, Parsing
  <2>4. Honest(subject, ticks, pos') /\ pos' \in Nat \ {0} /\ GoesOnAt' = pos'
    BY <2>1, <2>2, <2>3, HonestLater DEF GoesOnAt
  <2>5. MemoHonest'
    BY <2>1, <2>3, <2>4 DEF MemoHonest
  <2>. QED
    BY <2>1, <2>2, <2>5 DEF MemoInv, TextsHeld, LinkOnlyHere
<1>10. CASE LinkifyText \/ LinkifySkip \/ LinkifyNext
  <2>1. pc = "linkify" /\ pc' = pc /\ UNCHANGED <<content, block, link>>
    BY <1>10, Zenon DEF LinkifyText, LinkifySkip, LinkifyNext, AtChild
  <2>. QED
    BY <2>1 DEF MemoInv, TextsHeld, LinkOnlyHere, MemoHonest, Parsing
<1>11. CASE LinkifyDone
  <2>1. pc = "linkify" /\ UNCHANGED <<content, link>> /\ NextBlock
    BY <1>11 DEF LinkifyDone
  <2>2. pc' \in {"done", "begin"}
    BY <2>1 DEF NextBlock
  <2>. QED
    BY <2>1, <2>2 DEF MemoInv, TextsHeld, LinkOnlyHere, MemoHonest, Parsing, NextBlock
<1>12. CASE Done
  BY <1>1, <1>12 DEF Done
<1>. QED
  BY <1>1, <1>2, <1>3, <1>4, <1>5, <1>6, <1>7, <1>8, <1>9, <1>10, <1>11, <1>12
     DEF Next, ParseInline, ProcessEmphasis, Linkify

\* The memo of the backtick runs never changes an answer
\* (scan_code_span_memo): in every reachable state a scan for a code span that
\* consults the memo finds what a scan without one finds, links taken back and
\* scanned again included.
THEOREM BackticksSafe == Spec => []MemoSound
<1>1. MemoInv => MemoSound
  <2>. SUFFICES ASSUME MemoInv, At({"tick"})
                PROVE  ScanCodeSpan(subject, pos, ticks).end
                         = ScanCodeSpan(subject, pos, NoTicks(subject)).end
    BY DEF MemoSound
  <2>1. pc = "scan" /\ link.node = Nil
    BY DEF At, MemoInv, LinkOnlyHere
  <2>2. /\ subject \in Seq(Chars) /\ pos \in Nat \ {0} /\ ticks \in Memo(subject)
        /\ Honest(subject, ticks, pos)
    BY <2>1 DEF MemoInv, MemoHonest, Parsing, GoesOnAt
  <2>3. Len(subject) \in Nat /\ pos \in 1..Len(subject) /\ subject[pos] = "tick"
    BY <2>2 DEF At, AtEnd
  <2>. QED
    BY <2>2, <2>3, ScanComplete
<1>. QED
  BY <1>1, MemoInit, MemoNext, PTL DEF Spec

(***************************************************************************)
(* The delimiter stack                                                     *)
(***************************************************************************)
SlabOk(ds) == ds \in [slot : Seq(Slots), top : Nat]

\* Every slot of the slab looks back.
Backward(ds) == \A i \in 1..Len(ds.slot) : ds.slot[i].prev \in 0..(i-1)

\* p is the nearest element of S under i, and n the nearest one over it.
Beneath(S, i, p) == p \in S \cup {0} /\ p < i /\ \A j \in S : j < i => j <= p
Over(S, i, n)    == /\ n \in S \cup {0} /\ (n # 0 => i < n)
                    /\ \A j \in S : i < j => n # 0 /\ n <= j

\* The two chains of the stack run through S.
Chained(ds, S) ==
  /\ S \subseteq 1..Len(ds.slot)
  /\ ds.top \in S \cup {0} /\ \A j \in S : j <= ds.top
  /\ \A i \in S : Beneath(S, i, ds.slot[i].prev) /\ Over(S, i, ds.slot[i].next)

\* Nothing but the links differs.
SameRuns(ds, es) ==
  /\ Len(es.slot) = Len(ds.slot)
  /\ \A i \in 1..Len(ds.slot) :
       /\ es.slot[i].cc = ds.slot[i].cc /\ es.slot[i].num = ds.slot[i].num
       /\ es.slot[i].node = ds.slot[i].node

LEMMA RemovedChain ==
  ASSUME NEW ds, SlabOk(ds), Backward(ds), NEW S, Chained(ds, S), NEW d \in S
  PROVE  /\ SlabOk(Removed(ds, d)) /\ Backward(Removed(ds, d))
         /\ Chained(Removed(ds, d), S \ {d}) /\ SameRuns(ds, Removed(ds, d))
<1>. DEFINE N == Len(ds.slot)
            r == Removed(ds, d)
            p == ds.slot[d].prev
            n == ds.slot[d].next
<1>1. /\ ds.slot \in Seq(Slots) /\ ds.top \in Nat /\ N \in Nat /\ d \in 1..N /\ DOMAIN ds.slot = 1..N
      /\ S \subseteq 1..N
  BY DEF SlabOk, Chained
<1>2. \A i \in 1..N : ds.slot[i] \in Slots
  BY <1>1
<1>3. Beneath(S, d, p) /\ Over(S, d, n) /\ p \in Nat /\ n \in Nat
  BY <1>1, <1>2 DEF Chained, Slots
<1>4. p # n \/ (p = 0 /\ n = 0)
  BY <1>1, <1>3 DEF Beneath, Over
<1>. HIDE DEF p, n
<1>. DEFINE at(i) == CASE i = p -> [ds.slot[i] EXCEPT !.next = n]
                       [] i = n -> [ds.slot[i] EXCEPT !.prev = p]
                       [] OTHER -> ds.slot[i]
            closed == [i \in DOMAIN ds.slot |-> at(i)]
<1>5. r = [slot |-> closed, top |-> IF n = 0 THEN p ELSE ds.top]
  BY Zenon DEF Removed, p, n
<1>6. \A i \in 1..N : /\ at(i) \in Slots
                      /\ at(i).prev = (IF i = n THEN p ELSE ds.slot[i].prev)
                      /\ at(i).next = (IF i = p THEN n ELSE ds.slot[i].next)
                      /\ at(i).cc = ds.slot[i].cc /\ at(i).num = ds.slot[i].num
                      /\ at(i).node = ds.slot[i].node
  <2>. TAKE i \in 1..N
  <2>1. ds.slot[i] \in Slots /\ i # 0
    BY <1>2
  <2>. DEFINE x == ds.slot[i]
  <2>. HIDE DEF x
  <2>2. at(i) = CASE i = p -> [x EXCEPT !.next = n]
                  [] i = n -> [x EXCEPT !.prev = p]
                  [] OTHER -> x
    BY DEF x
  <2>3. x \in Slots
    BY <2>1 DEF x
  <2>. HIDE DEF at
  <2>4. CASE i = p
    BY <1>3, <1>4, <2>1, <2>2, <2>3, <2>4 DEF Slots, x
  <2>5. CASE i = n
    BY <1>3, <1>4, <2>1, <2>2, <2>3, <2>5 DEF Slots, x
  <2>6. CASE i # p /\ i # n
    BY <2>2, <2>3, <2>6 DEF x
  <2>. QED
    BY <2>4, <2>5, <2>6
<1>. HIDE DEF at
<1>7. closed \in Seq(Slots) /\ Len(closed) = N /\ \A i \in 1..N : closed[i] = at(i)
  BY <1>1, <1>6
<1>. HIDE DEF closed
<1>8. r.slot = closed /\ r.top = (IF n = 0 THEN p ELSE ds.top) /\ SlabOk(r)
  <2>1. (IF n = 0 THEN p ELSE ds.top) \in Nat
    BY <1>1, <1>3
  <2>. HIDE DEF r
  <2>. QED
    BY <1>5, <1>7, <2>1 DEF SlabOk
<1>. HIDE DEF r, N
<1>9. Backward(r)
  <2>1. \A i \in 1..N : ds.slot[i].prev \in 0..(i-1)
    BY DEF Backward, N
  <2>2. n # 0 => p \in 0..(n - 1)
    BY <1>1, <1>3 DEF Beneath, Over
  <2>. QED
    BY <1>6, <1>7, <1>8, <2>1, <2>2 DEF Backward
<1>10. Chained(r, S \ {d})
  <2>. DEFINE T == S \ {d}
  <2>0. S \subseteq Nat /\ d \in Nat /\ 0 \notin S
    BY <1>1
  <2>1. \A i \in S : Beneath(S, i, ds.slot[i].prev) /\ Over(S, i, ds.slot[i].next)
    BY DEF Chained
  <2>2. ASSUME NEW i \in T PROVE Beneath(T, i, r.slot[i].prev)
    <3>1. r.slot[i].prev = (IF i = n THEN p ELSE ds.slot[i].prev)
      BY <1>1, <1>6, <1>7, <1>8
    <3>2. CASE i = n
      BY <1>1, <1>3, <2>0, <3>1, <3>2 DEF Beneath, Over
    <3>3. CASE i # n
      <4>. DEFINE q == ds.slot[i].prev
      <4>. HIDE DEF q
      <4>1. r.slot[i].prev = q /\ Beneath(S, i, q)
        BY <2>1, <3>1, <3>3 DEF q
      <4>2. q # d
        <5>1. SUFFICES ASSUME q = d PROVE FALSE
          OBVIOUS
        <5>2. d < i /\ n # 0 /\ n <= i /\ n \in S
          BY <1>3, <2>0, <4>1, <5>1 DEF Beneath, Over
        <5>3. n < i /\ n <= q /\ d < n
          BY <1>3, <2>0, <3>3, <4>1, <5>2 DEF Beneath, Over
        <5>. QED
          BY <1>3, <2>0, <5>1, <5>3
      <4>. QED
        BY <4>1, <4>2 DEF Beneath
    <3>. QED
      BY <3>2, <3>3
  <2>3. ASSUME NEW i \in T PROVE Over(T, i, r.slot[i].next)
    <3>1. r.slot[i].next = (IF i = p THEN n ELSE ds.slot[i].next)
      BY <1>1, <1>6, <1>7, <1>8
    <3>2. CASE i = p
      BY <1>1, <1>3, <2>0, <3>1, <3>2 DEF Beneath, Over
    <3>3. CASE i # p
      <4>. DEFINE q == ds.slot[i].next
      <4>. HIDE DEF q
      <4>1. r.slot[i].next = q /\ Over(S, i, q)
        BY <2>1, <3>1, <3>3 DEF q
      <4>2. q # d
        <5>1. SUFFICES ASSUME q = d PROVE FALSE
          OBVIOUS
        <5>2. i < d /\ i <= p /\ i < p /\ p \in S
          BY <1>3, <2>0, <3>3, <4>1, <5>1 DEF Beneath, Over
        <5>3. q <= p /\ p < d
          BY <1>3, <2>0, <4>1, <5>2 DEF Beneath, Over
        <5>. QED
          BY <1>3, <2>0, <5>1, <5>3
      <4>. QED
        BY <4>1, <4>2 DEF Over
    <3>. QED
      BY <3>2, <3>3
  <2>4. T \subseteq 1..Len(r.slot)
    BY <1>1, <1>7, <1>8
  <2>5. r.top \in T \cup {0} /\ \A j \in T : j <= r.top
    <3>1. ds.top \in S \cup {0} /\ \A j \in S : j <= ds.top
      BY DEF Chained
    <3>2. CASE n = 0
      BY <1>3, <1>8, <2>0, <3>1, <3>2 DEF Beneath, Over
    <3>3. CASE n # 0
      <4>1. n <= ds.top /\ d < n
        BY <1>3, <3>1, <3>3 DEF Over
      <4>. QED
        BY <1>3, <1>8, <2>0, <3>1, <3>3, <4>1
    <3>. QED
      BY <3>2, <3>3
  <2>. HIDE DEF T
  <2>6. Chained(r, T)
    BY <2>2, <2>3, <2>4, <2>5 DEF Chained
  <2>. QED
    BY <2>6 DEF T
<1>11. SameRuns(ds, r)
  BY <1>6, <1>7, <1>8 DEF SameRuns, N
<1>. QED
  BY <1>8, <1>9, <1>10, <1>11 DEF r

LEMMA LessFacts ==
  ASSUME NEW x \in Slots, NEW use \in Nat, use <= x.num, NEW j \in Nat
  PROVE  /\ [x EXCEPT !.num = @ - use, !.next = j]
              = [cc |-> x.cc, num |-> x.num - use, orig |-> x.orig, node |-> x.node,
                 prev |-> x.prev, next |-> j, open |-> x.open, close |-> x.close]
         /\ [x EXCEPT !.num = @ - use, !.prev = j]
              = [cc |-> x.cc, num |-> x.num - use, orig |-> x.orig, node |-> x.node,
                 prev |-> j, next |-> x.next, open |-> x.open, close |-> x.close]
         /\ [x EXCEPT !.num = @ - use, !.next = j] \in Slots
         /\ [x EXCEPT !.num = @ - use, !.prev = j] \in Slots
<1>1. x = [cc |-> x.cc, num |-> x.num, orig |-> x.orig, node |-> x.node,
           prev |-> x.prev, next |-> x.next, open |-> x.open, close |-> x.close]
  BY DEF Slots
<1>2. x.num - use \in Nat
  BY DEF Slots
<1>. DEFINE n == x.num - use
<1>. HIDE DEF n
<1>. DEFINE y == [x EXCEPT !.num = n]
<1>6. y = [cc |-> x.cc, num |-> n, orig |-> x.orig, node |-> x.node,
            prev |-> x.prev, next |-> x.next, open |-> x.open, close |-> x.close]
  BY <1>1
<1>. HIDE DEF y
<1>3. [x EXCEPT !.num = n, !.next = j]
        = [cc |-> x.cc, num |-> n, orig |-> x.orig, node |-> x.node,
           prev |-> x.prev, next |-> j, open |-> x.open, close |-> x.close]
  <2>1. [y EXCEPT !.next = j]
        = [cc |-> x.cc, num |-> n, orig |-> x.orig, node |-> x.node,
           prev |-> x.prev, next |-> j, open |-> x.open, close |-> x.close]
    BY <1>6
  <2>. QED
    BY <2>1, Zenon DEF y
<1>4. [x EXCEPT !.num = n, !.prev = j]
        = [cc |-> x.cc, num |-> n, orig |-> x.orig, node |-> x.node,
           prev |-> j, next |-> x.next, open |-> x.open, close |-> x.close]
  <2>1. [y EXCEPT !.prev = j]
        = [cc |-> x.cc, num |-> n, orig |-> x.orig, node |-> x.node,
           prev |-> j, next |-> x.next, open |-> x.open, close |-> x.close]
    BY <1>6
  <2>. QED
    BY <2>1, Zenon DEF y
<1>5. /\ [cc |-> x.cc, num |-> n, orig |-> x.orig, node |-> x.node,
          prev |-> x.prev, next |-> j, open |-> x.open, close |-> x.close] \in Slots
      /\ [cc |-> x.cc, num |-> n, orig |-> x.orig, node |-> x.node,
          prev |-> j, next |-> x.next, open |-> x.open, close |-> x.close] \in Slots
  BY <1>2 DEF Slots, n
<1>. QED
  BY <1>3, <1>4, <1>5 DEF n

\* What a match leaves of the slab, before the delimiters it used up go.
NarrowedSlab(o, c, use) == [delims EXCEPT !.slot = Narrowed(o, c, use)]

\* The runs of a slab in which the pair has lost the delimiters it used.
LessRuns(ds, o, c, use) ==
  /\ Len(ds.slot) = Len(slot)
  /\ \A i \in 1..Len(slot) :
       /\ ds.slot[i].cc = slot[i].cc /\ ds.slot[i].node = slot[i].node
       /\ ds.slot[i].num = IF i \in {o, c} THEN slot[i].num - use ELSE slot[i].num

\* What is left of S when what is between the pair is gone.
Around(S, o, c) == {j \in S : j <= o \/ c <= j}

LEMMA NarrowedChain ==
  ASSUME SlabOk(delims), Backward(delims), NEW S, Chained(delims, S),
         NEW o \in S, NEW c \in S, o < c, NEW use \in Nat,
         use <= slot[o].num, use <= slot[c].num
  PROVE  /\ SlabOk(NarrowedSlab(o, c, use)) /\ Backward(NarrowedSlab(o, c, use))
         /\ Chained(NarrowedSlab(o, c, use), Around(S, o, c))
         /\ LessRuns(NarrowedSlab(o, c, use), o, c, use)
<1>. DEFINE N  == Len(slot)
            ds == [delims EXCEPT !.slot = Narrowed(o, c, use)]
            T  == {j \in S : j <= o \/ c <= j}
<1>1. /\ slot \in Seq(Slots) /\ delims.top \in Nat /\ N \in Nat /\ o \in 1..N /\ c \in 1..N
      /\ DOMAIN slot = 1..N /\ S \subseteq 1..N /\ S \subseteq Nat /\ o # c
  BY DEF SlabOk, Chained, slot
<1>2. \A i \in 1..N : slot[i] \in Slots
  BY <1>1
<1>. DEFINE a == [slot[o] EXCEPT !.num = @ - use, !.next = c]
            b == [slot[c] EXCEPT !.num = @ - use, !.prev = o]
<1>3. /\ a \in Slots /\ a.prev = slot[o].prev /\ a.next = c /\ a.num = slot[o].num - use
      /\ a.cc = slot[o].cc /\ a.node = slot[o].node
  <2>1. slot[o] \in Slots /\ c \in Nat
    BY <1>1, <1>2
  <2>2. a \in Slots /\ a = [cc |-> slot[o].cc, num |-> slot[o].num - use, orig |-> slot[o].orig,
                           node |-> slot[o].node, prev |-> slot[o].prev, next |-> c,
                           open |-> slot[o].open, close |-> slot[o].close]
    BY <2>1, LessFacts
  <2>. HIDE DEF a
  <2>. QED
    BY <2>2
<1>4. /\ b \in Slots /\ b.prev = o /\ b.next = slot[c].next /\ b.num = slot[c].num - use
      /\ b.cc = slot[c].cc /\ b.node = slot[c].node
  <2>1. slot[c] \in Slots /\ o \in Nat
    BY <1>1, <1>2
  <2>2. b \in Slots /\ b = [cc |-> slot[c].cc, num |-> slot[c].num - use, orig |-> slot[c].orig,
                           node |-> slot[c].node, prev |-> o, next |-> slot[c].next,
                           open |-> slot[c].open, close |-> slot[c].close]
    BY <2>1, LessFacts
  <2>. HIDE DEF b
  <2>. QED
    BY <2>2
<1>5. Narrowed(o, c, use) = [i \in 1..N |-> CASE i = o -> a [] i = c -> b [] OTHER -> slot[i]]
  <2>. DEFINE f == Narrowed(o, c, use)
  <2>1. f = [slot EXCEPT ![o].num = @ - use, ![o].next = c, ![c].num = @ - use, ![c].prev = o]
    BY Zenon DEF Narrowed
  <2>2. f = [slot EXCEPT ![o] = a, ![c] = b]
    <3>1. slot = [i \in 1..N |-> slot[i]]
      BY <1>1
    <3>. DEFINE g0 == slot
    <3>. QED
      BY <1>1, <2>1
  <2>. HIDE DEF f, a, b
  <2>. QED
    BY <1>1, <2>2 DEF f
<1>6. ds = [slot |-> Narrowed(o, c, use), top |-> delims.top]
  BY DEF SlabOk
<1>. HIDE DEF a, b, ds
<1>. DEFINE new == Narrowed(o, c, use)
<1>7. new[o] = a /\ new[c] = b /\ \A i \in 1..N : i # o /\ i # c => new[i] = slot[i]
  BY <1>1, <1>5
<1>8. new \in Seq(Slots) /\ Len(new) = N
  <2>1. \A i \in 1..N : (CASE i = o -> a [] i = c -> b [] OTHER -> slot[i]) \in Slots
    BY <1>1, <1>2, <1>3, <1>4
  <2>. QED
    BY <1>1, <1>5, <2>1
<1>. HIDE DEF new
<1>9. ds.slot = new /\ ds.top = delims.top /\ SlabOk(ds)
  BY <1>1, <1>6, <1>8 DEF SlabOk, new
<1>10. \A i \in 1..N : /\ ds.slot[i].prev = (IF i = c THEN o ELSE slot[i].prev)
                       /\ ds.slot[i].next = (IF i = o THEN c ELSE slot[i].next)
                       /\ ds.slot[i].cc = slot[i].cc /\ ds.slot[i].node = slot[i].node
                       /\ ds.slot[i].num = IF i \in {o, c} THEN slot[i].num - use ELSE slot[i].num
  <2>. TAKE i \in 1..N
  <2>1. CASE i = o
    BY <1>1, <1>3, <1>7, <1>9, <2>1
  <2>2. CASE i = c
    BY <1>1, <1>4, <1>7, <1>9, <2>2
  <2>3. CASE i # o /\ i # c
    BY <1>7, <1>9, <2>3
  <2>. QED
    BY <2>1, <2>2, <2>3
<1>11. Backward(ds)
  <2>1. \A i \in 1..N : slot[i].prev \in 0..(i-1)
    BY DEF Backward, slot
  <2>2. Len(ds.slot) = N /\ o \in 0..(c - 1)
    BY <1>1, <1>8, <1>9
  <2>3. \A i \in 1..N : ds.slot[i].prev \in 0..(i-1)
    <3>. HIDE DEF slot, N
    <3>. QED
      BY <1>10, <2>1, <2>2
  <2>. QED
    BY <2>2, <2>3 DEF Backward
<1>12. Chained(ds, T)
  <2>1. \A i \in S : Beneath(S, i, slot[i].prev) /\ Over(S, i, slot[i].next)
    BY DEF Chained, slot
  <2>. HIDE DEF slot
  <2>2. ASSUME NEW i \in T PROVE Beneath(T, i, ds.slot[i].prev)
    <3>. DEFINE q == slot[i].prev
    <3>1. Beneath(S, i, q) /\ i \in S /\ (i <= o \/ c <= i) /\ 0 \notin S
      BY <1>1, <2>1
    <3>2. ds.slot[i].prev = IF i = c THEN o ELSE q
      BY <1>1, <1>10
    <3>. HIDE DEF q
    <3>3. CASE i = c
      BY <1>1, <3>1, <3>2, <3>3 DEF Beneath
    <3>4. CASE i # c
      <4>1. i <= o => q <= o
        BY <1>1, <3>1 DEF Beneath
      <4>2. c <= i => c <= q
        BY <1>1, <3>1, <3>4 DEF Beneath
      <4>. QED
        BY <1>1, <3>1, <3>2, <3>4, <4>1, <4>2 DEF Beneath
    <3>. QED
      BY <3>3, <3>4
  <2>3. ASSUME NEW i \in T PROVE Over(T, i, ds.slot[i].next)
    <3>. DEFINE q == slot[i].next
    <3>1. Over(S, i, q) /\ i \in S /\ (i <= o \/ c <= i) /\ 0 \notin S
      BY <1>1, <2>1
    <3>2. ds.slot[i].next = IF i = o THEN c ELSE q
      BY <1>1, <1>10
    <3>. HIDE DEF q
    <3>3. CASE i = o
      BY <1>1, <3>1, <3>2, <3>3 DEF Over
    <3>4. CASE i # o
      <4>1. i <= o => q # 0 /\ q <= o
        BY <1>1, <3>1, <3>4 DEF Over
      <4>2. c <= i => q = 0 \/ c <= q
        BY <1>1, <3>1, <3>4 DEF Over
      <4>. QED
        BY <1>1, <3>1, <3>2, <3>4, <4>1, <4>2 DEF Over
    <3>. QED
      BY <3>3, <3>4
  <2>4. T \subseteq 1..Len(ds.slot)
    BY <1>1, <1>8, <1>9
  <2>5. ds.top \in T \cup {0} /\ \A j \in T : j <= ds.top
    <3>1. delims.top \in S \cup {0} /\ \A j \in S : j <= delims.top
      BY DEF Chained
    <3>2. c <= delims.top
      BY <3>1
    <3>. QED
      BY <1>1, <1>9, <3>1, <3>2
  <2>. HIDE DEF T
  <2>. QED
    BY <2>2, <2>3, <2>4, <2>5 DEF Chained
<1>13. LessRuns(ds, o, c, use)
  BY <1>8, <1>9, <1>10 DEF LessRuns
<1>. QED
  BY <1>9, <1>11, <1>12, <1>13 DEF ds, T, NarrowedSlab, Around

\* A run of delimiters goes on top.
LEMMA PushedChain ==
  ASSUME SlabOk(delims), Backward(delims), NEW S, Chained(delims, S),
         NEW x \in Slots, x.prev = delims.top, x.next = 0
  PROVE  LET i     == Len(delims.slot) + 1
             under == IF delims.top = 0 THEN delims.slot
                      ELSE [delims.slot EXCEPT ![delims.top].next = i]
             ds    == [slot |-> Append(under, x), top |-> i]
         IN  /\ SlabOk(ds) /\ Backward(ds) /\ Chained(ds, S \cup {i})
             /\ Len(ds.slot) = i /\ ds.slot[i] = x
             /\ \A j \in 1..Len(slot) : /\ ds.slot[j].cc = slot[j].cc /\ ds.slot[j].node = slot[j].node
                                        /\ ds.slot[j].num = slot[j].num
<1>. DEFINE N     == Len(delims.slot)
            t     == delims.top
            i     == Len(delims.slot) + 1
            under == IF delims.top = 0 THEN delims.slot
                     ELSE [delims.slot EXCEPT ![delims.top].next = i]
            ds    == [slot |-> Append(under, x), top |-> i]
            T     == S \cup {i}
<1>1. /\ delims.slot \in Seq(Slots) /\ t \in Nat /\ N \in Nat /\ i = N + 1 /\ t \in 0..N
      /\ DOMAIN delims.slot = 1..N /\ S \subseteq 1..N /\ S \subseteq Nat
      /\ t \in S \cup {0} /\ \A j \in S : j <= t
  BY DEF SlabOk, Chained
<1>2. \A j \in 1..N : delims.slot[j] \in Slots
  BY <1>1
<1>. DEFINE at(j) == IF j = t THEN [delims.slot[j] EXCEPT !.next = i] ELSE delims.slot[j]
<1>3. under = [j \in 1..N |-> at(j)]
  <2>. DEFINE q == delims.slot
  <2>1. q \in Seq(Slots) /\ DOMAIN q = 1..N /\ t \in 0..N
    BY <1>1
  <2>2. q = [j \in 1..N |-> q[j]]
    BY <2>1
  <2>3. CASE t = 0
    <3>1. under = q /\ \A j \in 1..N : at(j) = q[j]
      BY <2>3
    <3>. HIDE DEF q, N, at, under
    <3>. QED
      BY <2>2, <3>1
  <2>4. CASE t # 0
    <3>1. under = [q EXCEPT ![t].next = i]
      BY <2>4
    <3>2. \A j \in 1..N : at(j) = IF j = t THEN [q[j] EXCEPT !.next = i] ELSE q[j]
      OBVIOUS
    <3>. HIDE DEF q, N, at, under, i
    <3>. QED
      BY <2>1, <2>2, <3>1, <3>2
  <2>. QED
    BY <2>3, <2>4
<1>4. \A j \in 1..N : /\ at(j) \in Slots /\ at(j).prev = delims.slot[j].prev
                      /\ at(j).next = (IF j = t THEN i ELSE delims.slot[j].next)
                      /\ at(j).cc = delims.slot[j].cc /\ at(j).num = delims.slot[j].num
                      /\ at(j).node = delims.slot[j].node
  <2>. TAKE j \in 1..N
  <2>1. delims.slot[j] \in Slots /\ i \in Nat
    BY <1>1, <1>2
  <2>. HIDE DEF i
  <2>. QED
    BY <2>1 DEF Slots
<1>. HIDE DEF at, under
<1>5. under \in Seq(Slots) /\ Len(under) = N
  BY <1>1, <1>3, <1>4
<1>6. /\ Append(under, x) \in Seq(Slots) /\ Len(Append(under, x)) = N + 1
      /\ Append(under, x)[N + 1] = x /\ \A j \in 1..N : Append(under, x)[j] = at(j)
  BY <1>1, <1>3, <1>5
<1>7. ds.slot = Append(under, x) /\ ds.top = N + 1
  BY <1>1
<1>. HIDE DEF ds
<1>8. SlabOk(ds)
  BY <1>1, <1>6 DEF SlabOk, ds
<1>9. Backward(ds)
  <2>1. \A j \in 1..N : delims.slot[j].prev \in 0..(j-1)
    BY DEF Backward
  <2>2. \A j \in 1..N : ds.slot[j].prev \in 0..(j-1)
    <3>. HIDE DEF N, i
    <3>. TAKE j \in 1..N
    <3>1. ds.slot[j] = at(j) /\ at(j).prev = delims.slot[j].prev
      BY <1>4, <1>6, <1>7
    <3>. QED
      BY <2>1, <3>1
  <2>3. ds.slot[N + 1].prev \in 0..((N + 1) - 1)
    BY <1>1, <1>6, <1>7
  <2>. HIDE DEF N
  <2>. QED
    BY <1>1, <1>6, <1>7, <2>2, <2>3 DEF Backward
<1>10. Chained(ds, T)
  <2>1. \A j \in S : Beneath(S, j, delims.slot[j].prev) /\ Over(S, j, delims.slot[j].next)
    BY DEF Chained
  <2>. HIDE DEF N, i
  <2>2. ASSUME NEW j \in S PROVE Beneath(T, j, ds.slot[j].prev)
    <3>1. ds.slot[j].prev = delims.slot[j].prev /\ j < i
      BY <1>1, <1>4, <1>6, <1>7
    <3>. QED
      BY <1>1, <2>1, <3>1 DEF Beneath
  <2>3. ASSUME NEW j \in S PROVE Over(T, j, ds.slot[j].next)
    <3>1. ds.slot[j].next = (IF j = t THEN i ELSE delims.slot[j].next) /\ j < i
      BY <1>1, <1>4, <1>6, <1>7
    <3>2. CASE j = t
      BY <1>1, <3>1, <3>2 DEF Over
    <3>3. CASE j # t
      <4>. DEFINE q == delims.slot[j].next
      <4>1. Over(S, j, q)
        BY <2>1
      <4>. HIDE DEF q
      <4>2. q # 0 /\ q \in S
        BY <1>1, <3>3, <4>1 DEF Over
      <4>3. Over(T, j, q)
        BY <1>1, <4>1, <4>2 DEF Over
      <4>. QED
        BY <3>1, <3>3, <4>3 DEF q
    <3>. QED
      BY <3>2, <3>3
  <2>4. ds.slot[i] = x
    BY <1>1, <1>6, <1>7
  <2>5. Beneath(T, i, t)
    <3>1. t \in T \cup {0} /\ t < i
      BY <1>1
    <3>2. ASSUME NEW j \in T, j < i PROVE j <= t
      <4>1. j \in S
        BY <1>1, <3>2
      <4>. QED
        BY <1>1, <4>1
    <3>. QED
      BY <3>1, <3>2 DEF Beneath
  <2>6. Over(T, i, 0)
    BY <1>1 DEF Over
  <2>7. T \subseteq 1..Len(ds.slot) /\ ds.top \in T \cup {0} /\ \A j \in T : j <= ds.top
    BY <1>1, <1>6, <1>7
  <2>. QED
    BY <2>2, <2>3, <2>4, <2>5, <2>6, <2>7 DEF Chained
<1>. QED
  <2>1. \A j \in 1..N : /\ ds.slot[j].cc = delims.slot[j].cc /\ ds.slot[j].node = delims.slot[j].node
                        /\ ds.slot[j].num = delims.slot[j].num
    BY <1>4, <1>6, <1>7
  <2>2. Len(ds.slot) = i /\ ds.slot[i] = x
    BY <1>1, <1>6, <1>7
  <2>. QED
    BY <1>8, <1>9, <1>10, <2>1, <2>2, Zenon DEF ds, under, slot

LEMMA DownEquation ==
  ASSUME NEW ds, SlabOk(ds), Backward(ds), NEW floor, NEW d \in 0..Len(ds.slot)
  PROVE  DownFrom(ds, d, floor) = IF d \in {0, floor} THEN <<>>
                                  ELSE <<d>> \o DownFrom(ds, ds.slot[d].prev, floor)
<1>. DEFINE N == Len(ds.slot)
            V == Seq(Nat)
            Body(i, g) == IF i \in {0, floor} THEN <<>> ELSE <<i>> \o g[ds.slot[i].prev]
            H      == [p \in (0..N) \X [0..N -> V] |-> Body(p[1], p[2])]
            Def(f) == f = [i \in 0..Len(ds.slot) |-> Body(i, f)]
            down   == CHOOSE f : Def(f)
<1>1. \A e : DownFrom(ds, e, floor) = down[e]
  BY Zenon DEF DownFrom
<1>. HIDE DEF down
<1>2. N \in Nat /\ \A i \in 1..N : ds.slot[i].prev \in 0..N /\ ds.slot[i].prev < i
  BY DEF SlabOk, Backward
<1>. HIDE DEF N
<1>3. \A i \in 0..N : \A g \in [0..N -> V] : Body(i, g) \in V
  <2>. TAKE i \in 0..N
  <2>. TAKE g \in [0..N -> V]
  <2>1. CASE i \in {0, floor}
    BY <2>1
  <2>2. CASE i \notin {0, floor}
    <3>1. ds.slot[i].prev \in 0..N /\ i \in Nat
      BY <1>2, <2>2
    <3>2. <<i>> \in V
      BY <3>1
    <3>. HIDE DEF V
    <3>3. g[ds.slot[i].prev] \in V
      BY <3>1
    <3>4. Body(i, g) = <<i>> \o g[ds.slot[i].prev]
      BY <2>2
    <3>5. \A e \in V : <<i>> \o e \in V
      BY <3>1 DEF V
    <3>. QED
      BY <3>3, <3>4, <3>5
  <2>. QED
    BY <2>1, <2>2
<1>4. ASSUME NEW i \in 0..N, NEW g \in [0..N -> V], NEW h \in [0..N -> V],
             \A j \in 0..N : j < i => g[j] = h[j]
      PROVE  Body(i, g) = Body(i, h)
  <2>. HIDE DEF V
  <2>1. i # 0 => i \in 1..N
    BY <1>2
  <2>2. i # 0 => g[ds.slot[i].prev] = h[ds.slot[i].prev]
    BY <1>2, <1>4, <2>1
  <2>. QED
    BY <2>2
<1>. HIDE DEF Body, V
<1>5. H \in [(0..N) \X [0..N -> V] -> V] /\ \A i \in 0..N : \A g \in [0..N -> V] : H[<<i, g>>] = Body(i, g)
  BY <1>3
<1>. HIDE DEF H
<1>6. \E f \in [0..N -> V] : Solves(f, 0..N, H)
  <2>1. LooksBack(N, V, H)
    <3>1. \A i \in 0..N : \A g, h \in [0..N -> V] :
            (\A j \in 0..N : j < i => g[j] = h[j]) => H[<<i, g>>] = H[<<i, h>>]
      <4>. TAKE i \in 0..N
      <4>. TAKE g, h \in [0..N -> V]
      <4>. HAVE \A j \in 0..N : j < i => g[j] = h[j]
      <4>1. Body(i, g) = Body(i, h)
        BY <1>4
      <4>. QED
        BY <1>5, <4>1
    <3>. QED
      BY <3>1 DEF LooksBack
  <2>2. <<>> \in V
    BY DEF V
  <2>. QED
    BY <1>2, <1>5, <2>1, <2>2, LookBack
<1>7. PICK f \in [0..N -> V] : \A i \in 0..N : f[i] = H[<<i, f>>]
  BY <1>6 DEF Solves
<1>8. Def(f)
  <2>1. \A i \in 0..N : f[i] = Body(i, f)
    BY <1>5, <1>7
  <2>2. f = [i \in 0..N |-> f[i]]
    OBVIOUS
  <2>. QED
    BY <2>1, <2>2, Zenon DEF N
<1>9. Def(down)
  <2>. HIDE DEF Def
  <2>. QED
    BY <1>8 DEF down
<1>10. down[d] = Body(d, down)
  BY <1>9, Zenon
<1>. QED
  BY <1>1, <1>10 DEF Body

\* Where a delimiter may stand: on the stack, or nowhere.
Place(S) == S \cup {0}

\* The list q of what is on the stack above the floor, from i down.
Lists(ds, S, floor, i, q) ==
  /\ q \in Seq(S)
  /\ \A k \in 1..Len(q) : floor < q[k] /\ q[k] <= i
  /\ \A j, k \in 1..Len(q) : j < k => q[k] < q[j]
  /\ \A k \in 1..Len(q) : k + 1 \in 1..Len(q) => ds.slot[q[k]].prev = q[k+1]
  /\ \A j \in S : floor < j /\ j <= i => \E k \in 1..Len(q) : q[k] = j
  /\ i > floor => Len(q) > 0 /\ q[1] = i

LEMMA DownFacts ==
  ASSUME NEW ds, SlabOk(ds), Backward(ds), NEW S, Chained(ds, S),
         NEW floor \in Place(S), NEW i \in Place(S), floor <= i
  PROVE  Lists(ds, S, floor, i, DownFrom(ds, i, floor))
<1>. DEFINE N == Len(ds.slot)
            P(j) == j \in Place(S) /\ floor <= j => Lists(ds, S, floor, j, DownFrom(ds, j, floor))
            G == {j \in 0..N : P(j)}
<1>1. /\ N \in Nat /\ S \subseteq 1..N /\ S \subseteq Nat /\ 0 \notin S /\ floor \in Nat
      /\ \A j \in S : Beneath(S, j, ds.slot[j].prev)
  BY DEF SlabOk, Chained, Place
<1>2. ASSUME NEW j \in 0..N, \A k \in 0..N : k < j => k \in G
      PROVE  P(j)
  <2>. SUFFICES ASSUME j \in Place(S), floor <= j
                PROVE  Lists(ds, S, floor, j, DownFrom(ds, j, floor))
    OBVIOUS
  <2>1. CASE j = floor
    <3>1. DownFrom(ds, j, floor) = <<>>
      BY <2>1, DownEquation
    <3>2. Lists(ds, S, floor, j, <<>>)
      BY <1>1, <2>1 DEF Lists
    <3>. QED
      BY <3>1, <3>2
  <2>2. CASE j # floor
    <3>. DEFINE p == ds.slot[j].prev
                r == DownFrom(ds, p, floor)
                q == <<j>> \o r
    <3>1. j \in S /\ floor < j /\ Beneath(S, j, p)
      BY <1>1, <2>2 DEF Place
    <3>2. DownFrom(ds, j, floor) = q
      <4>1. j \notin {0, floor}
        BY <1>1, <2>2, <3>1
      <4>. QED
        BY <4>1, DownEquation
    <3>. HIDE DEF p
    <3>3. p \in Place(S) /\ floor <= p /\ p < j /\ p \in 0..N /\ p \in Nat
      BY <1>1, <3>1 DEF Beneath, Place
    <3>4. Lists(ds, S, floor, p, r)
      BY <1>2, <3>3
    <3>. HIDE DEF r, N, G
    <3>5. r \in Seq(S) /\ Len(r) \in Nat
      BY <3>4 DEF Lists
    <3>6. /\ q \in Seq(S) /\ Len(q) = Len(r) + 1 /\ q[1] = j
          /\ \A k \in 1..Len(r) : q[k + 1] = r[k]
          /\ \A k \in 1..Len(q) : k = 1 \/ (k - 1 \in 1..Len(r) /\ q[k] = r[k - 1])
      BY <3>1, <3>5
    <3>7. \A k \in 1..Len(r) : r[k] \in S /\ floor < r[k] /\ r[k] <= p
      BY <3>4, <3>5 DEF Lists
    <3>14. \A x \in S : x <= p => x < j
      BY <1>1, <3>1, <3>3
    <3>. HIDE DEF q
    <3>8. \A k \in 1..Len(q) : floor < q[k] /\ q[k] <= j
      <4>. TAKE k \in 1..Len(q)
      <4>1. CASE k = 1
        BY <1>1, <3>1, <3>6, <4>1
      <4>2. CASE k # 1
        <5>1. k - 1 \in 1..Len(r) /\ q[k] = r[k - 1]
          BY <3>6, <4>2
        <5>2. r[k - 1] \in S /\ floor < r[k - 1] /\ r[k - 1] <= p
          BY <3>7, <5>1
        <5>3. r[k - 1] < j /\ j \in Nat /\ r[k - 1] \in Nat
          BY <1>1, <3>1, <3>14, <5>2
        <5>. QED
          BY <5>1, <5>2, <5>3
      <4>. QED
        BY <4>1, <4>2
    <3>9. \A a, b \in 1..Len(q) : a < b => q[b] < q[a]
      <4>. TAKE a, b \in 1..Len(q)
      <4>. HAVE a < b
      <4>1. b - 1 \in 1..Len(r) /\ q[b] = r[b - 1] /\ r[b - 1] \in S /\ r[b - 1] <= p
        BY <3>6, <3>7
      <4>2. CASE a = 1
        BY <3>6, <3>14, <4>1, <4>2
      <4>3. CASE a # 1
        <5>1. a - 1 \in 1..Len(r) /\ q[a] = r[a - 1] /\ a - 1 < b - 1
          BY <3>6, <4>3
        <5>. QED
          BY <3>4, <4>1, <5>1 DEF Lists
      <4>. QED
        BY <4>2, <4>3
    <3>10. p > floor => Len(r) > 0 /\ r[1] = p
      BY <3>4 DEF Lists
    <3>11. \A k \in 1..Len(q) : k + 1 \in 1..Len(q) => ds.slot[q[k]].prev = q[k+1]
      <4>. TAKE k \in 1..Len(q)
      <4>. HAVE k + 1 \in 1..Len(q)
      <4>1. k \in 1..Len(r) /\ q[k + 1] = r[k]
        BY <3>5, <3>6
      <4>2. CASE k = 1
        <5>1. r[1] \in S /\ floor < r[1] /\ r[1] <= p
          BY <3>7, <4>1, <4>2
        <5>2. r[1] = p
          <6>1. r[1] \in Nat
            BY <1>1, <5>1
          <6>2. floor < p
            BY <1>1, <3>3, <5>1, <6>1
          <6>. QED
            BY <1>1, <3>3, <3>10, <6>1, <6>2
        <5>. QED
          BY <3>6, <4>1, <4>2, <5>2 DEF p
      <4>3. CASE k # 1
        <5>1. k - 1 \in 1..Len(r) /\ q[k] = r[k - 1] /\ (k - 1) + 1 = k
          BY <3>6, <4>3
        <5>2. ds.slot[r[k - 1]].prev = r[(k - 1) + 1]
          BY <3>4, <4>1, <5>1 DEF Lists
        <5>. QED
          BY <4>1, <5>1, <5>2
      <4>. QED
        BY <4>2, <4>3
    <3>12. ASSUME NEW a \in S, floor < a, a <= j
           PROVE  \E k \in 1..Len(q) : q[k] = a
      <4>1. CASE a = j
        BY <3>5, <3>6, <4>1
      <4>2. CASE a # j
        <5>1. a <= p
          BY <1>1, <3>1, <3>12, <4>2 DEF Beneath
        <5>2. PICK k \in 1..Len(r) : r[k] = a
          BY <3>4, <3>12, <5>1 DEF Lists
        <5>3. k + 1 \in 1..Len(q) /\ q[k + 1] = a
          BY <3>5, <3>6, <5>2
        <5>. QED
          BY <5>3
      <4>. QED
        BY <4>1, <4>2
    <3>13. Lists(ds, S, floor, j, q)
      BY <3>5, <3>6, <3>8, <3>9, <3>11, <3>12 DEF Lists
    <3>. QED
      BY <3>2, <3>13
  <2>. QED
    BY <2>1, <2>2
<1>3. \A j \in 0..N : j \in G
  <2>1. \A j \in 0..N : (\A k \in 0..N : k < j => k \in G) => j \in G
    <3>1. ASSUME NEW j \in 0..N, \A k \in 0..N : k < j => k \in G PROVE j \in G
      <4>1. P(j)
        BY <1>2, <3>1
      <4>. HIDE DEF P
      <4>. QED
        BY <4>1
    <3>. QED
      BY <3>1
  <2>. HIDE DEF G, N
  <2>. QED
    BY <1>1, <2>1, UpwardInduction
<1>4. i \in 0..N
  BY <1>1 DEF Place
<1>5. P(i)
  <2>. HIDE DEF P
  <2>. QED
    BY <1>3, <1>4
<1>. QED
  BY <1>5

\* The loop over the closers begins above the floor.
LEMMA FirstCloserFacts ==
  ASSUME NEW ds, SlabOk(ds), Backward(ds), NEW S, Chained(ds, S), NEW floor \in Place(S)
  PROVE  FirstCloser(ds, floor) \in {0} \cup {i \in S : floor < i}
<1>. DEFINE N == Len(ds.slot)
            V == 0..N
            R == {0} \cup {i \in S : floor < i}
            Body(i, g) == IF i = 0 \/ ds.slot[i].prev = floor THEN i ELSE g[ds.slot[i].prev]
            H      == [p \in (0..N) \X [0..N -> V] |-> Body(p[1], p[2])]
            Def(f) == f = [i \in 0..Len(ds.slot) |-> Body(i, f)]
            down   == CHOOSE f : Def(f)
<1>1. FirstCloser(ds, floor) = down[ds.top]
  BY Zenon DEF FirstCloser
<1>. HIDE DEF down
<1>2. /\ N \in Nat /\ S \subseteq 1..N /\ ds.top \in Place(S)
      /\ \A i \in 1..N : ds.slot[i].prev \in 0..N /\ ds.slot[i].prev < i
      /\ \A i \in S : Beneath(S, i, ds.slot[i].prev)
  BY DEF SlabOk, Backward, Chained, Place
<1>. HIDE DEF N
<1>3. \A i \in 0..N : \A g \in [0..N -> V] : Body(i, g) \in V
  <2>. TAKE i \in 0..N
  <2>. TAKE g \in [0..N -> V]
  <2>1. i \in V /\ (i # 0 => ds.slot[i].prev \in 0..N)
    BY <1>2
  <2>. HIDE DEF V
  <2>2. i # 0 => g[ds.slot[i].prev] \in V
    BY <2>1
  <2>. QED
    BY <2>1, <2>2
<1>4. ASSUME NEW i \in 0..N, NEW g \in [0..N -> V], NEW h \in [0..N -> V],
             \A j \in 0..N : j < i => g[j] = h[j]
      PROVE  Body(i, g) = Body(i, h)
  <2>. HIDE DEF V
  <2>1. i # 0 => g[ds.slot[i].prev] = h[ds.slot[i].prev]
    BY <1>2, <1>4
  <2>. QED
    BY <2>1
<1>. HIDE DEF Body, V
<1>5. H \in [(0..N) \X [0..N -> V] -> V] /\ \A i \in 0..N : \A g \in [0..N -> V] : H[<<i, g>>] = Body(i, g)
  BY <1>3
<1>. HIDE DEF H
<1>6. \E f \in [0..N -> V] : Solves(f, 0..N, H)
  <2>1. LooksBack(N, V, H)
    <3>1. \A i \in 0..N : \A g, h \in [0..N -> V] :
            (\A j \in 0..N : j < i => g[j] = h[j]) => H[<<i, g>>] = H[<<i, h>>]
      <4>. TAKE i \in 0..N
      <4>. TAKE g, h \in [0..N -> V]
      <4>. HAVE \A j \in 0..N : j < i => g[j] = h[j]
      <4>1. Body(i, g) = Body(i, h)
        BY <1>4
      <4>. QED
        BY <1>5, <4>1
    <3>. QED
      BY <3>1 DEF LooksBack
  <2>2. 0 \in V
    BY <1>2 DEF V
  <2>. QED
    BY <1>2, <1>5, <2>1, <2>2, LookBack
<1>7. PICK f \in [0..N -> V] : \A i \in 0..N : f[i] = H[<<i, f>>]
  BY <1>6 DEF Solves
<1>8. Def(f)
  <2>1. \A i \in 0..N : f[i] = Body(i, f)
    BY <1>5, <1>7
  <2>2. f = [i \in 0..N |-> f[i]]
    OBVIOUS
  <2>. QED
    BY <2>1, <2>2, Zenon DEF N
<1>9. Def(down)
  <2>. HIDE DEF Def
  <2>. QED
    BY <1>8 DEF down
<1>10. \A i \in 0..N : down[i] = Body(i, down)
  BY <1>9, Zenon DEF N
<1>. DEFINE G == {i \in 0..N : i \in Place(S) => down[i] \in R}
<1>11. ASSUME NEW i \in 0..N, \A j \in 0..N : j < i => j \in G
       PROVE  i \in G
  <2>. SUFFICES ASSUME i \in Place(S) PROVE down[i] \in R
    OBVIOUS
  <2>1. down[i] = IF i = 0 \/ ds.slot[i].prev = floor THEN i ELSE down[ds.slot[i].prev]
    BY <1>10 DEF Body
  <2>2. CASE i = 0
    BY <2>1, <2>2
  <2>3. CASE i # 0
    <3>1. i \in S /\ Beneath(S, i, ds.slot[i].prev)
      BY <1>2, <2>3 DEF Place
    <3>2. ds.slot[i].prev \in Place(S) /\ ds.slot[i].prev < i /\ ds.slot[i].prev \in 0..N
      BY <1>2, <3>1 DEF Beneath, Place
    <3>3. CASE ds.slot[i].prev = floor
      BY <2>1, <3>1, <3>2, <3>3
    <3>4. CASE ds.slot[i].prev # floor
      <4>1. down[ds.slot[i].prev] \in R
        BY <1>11, <3>2
      <4>. QED
        BY <2>1, <2>3, <3>4, <4>1
    <3>. QED
      BY <3>3, <3>4
  <2>. QED
    BY <2>2, <2>3
<1>12. \A i \in 0..N : i \in G
  <2>. HIDE DEF G
  <2>1. \A i \in 0..N : (\A j \in 0..N : j < i => j \in G) => i \in G
    BY <1>11
  <2>. QED
    BY <1>2, <2>1, UpwardInduction
<1>13. ds.top \in 0..N
  BY <1>2 DEF Place
<1>. QED
  BY <1>1, <1>2, <1>12, <1>13

\* The opener found is on the stack, between the floor and the closer.
LEMMA OpenerFacts ==
  ASSUME SlabOk(delims), Backward(delims), NEW S, Chained(delims, S), emph.floor \in Place(S),
         NEW c \in S, emph.floor < c, NEW bottom
  PROVE  OpenerAbove(c, bottom) \in {0} \cup {o \in S : emph.floor < o /\ o < c /\ Matches(o, c)}
<1>. DEFINE N == Len(slot)
            V == 0..N
            low == emph.floor
            Found(i, v) == v = 0 \/ (v \in S /\ low < v /\ v <= i /\ Matches(v, c))
            Body(i, g) == IF i \in {0, emph.floor, bottom} THEN 0
                          ELSE IF Matches(i, c) THEN i ELSE g[slot[i].prev]
            H      == [p \in (0..N) \X [0..N -> V] |-> Body(p[1], p[2])]
            Def(f) == f = [i \in 0..Len(slot) |-> Body(i, f)]
            down   == CHOOSE f : Def(f)
<1>1. OpenerAbove(c, bottom) = down[slot[c].prev]
  BY Zenon DEF OpenerAbove
<1>. HIDE DEF down
<1>2. /\ N \in Nat /\ S \subseteq 1..N /\ S \subseteq Nat /\ low \in Nat
      /\ \A i \in 1..N : slot[i].prev \in 0..N /\ slot[i].prev < i
      /\ \A i \in S : Beneath(S, i, slot[i].prev)
  BY DEF SlabOk, Backward, Chained, Place, slot
<1>. HIDE DEF N
<1>3. \A i \in 0..N : \A g \in [0..N -> V] : Body(i, g) \in V
  <2>. TAKE i \in 0..N
  <2>. TAKE g \in [0..N -> V]
  <2>1. i \in V /\ 0 \in V
    BY <1>2
  <2>3. i # 0 => slot[i].prev \in 0..N
    <3>1. i # 0 => i \in 1..N
      BY <1>2
    <3>. QED
      BY <1>2, <3>1
  <2>. HIDE DEF V
  <2>2. i # 0 => g[slot[i].prev] \in V
    BY <2>3
  <2>. QED
    BY <2>1, <2>2
<1>4. ASSUME NEW i \in 0..N, NEW g \in [0..N -> V], NEW h \in [0..N -> V],
             \A j \in 0..N : j < i => g[j] = h[j]
      PROVE  Body(i, g) = Body(i, h)
  <2>. HIDE DEF V
  <2>1. i # 0 => g[slot[i].prev] = h[slot[i].prev]
    BY <1>2, <1>4
  <2>. QED
    BY <2>1
<1>. HIDE DEF Body, V
<1>5. H \in [(0..N) \X [0..N -> V] -> V] /\ \A i \in 0..N : \A g \in [0..N -> V] : H[<<i, g>>] = Body(i, g)
  BY <1>3
<1>. HIDE DEF H
<1>6. \E f \in [0..N -> V] : Solves(f, 0..N, H)
  <2>1. LooksBack(N, V, H)
    <3>1. \A i \in 0..N : \A g, h \in [0..N -> V] :
            (\A j \in 0..N : j < i => g[j] = h[j]) => H[<<i, g>>] = H[<<i, h>>]
      <4>. TAKE i \in 0..N
      <4>. TAKE g, h \in [0..N -> V]
      <4>. HAVE \A j \in 0..N : j < i => g[j] = h[j]
      <4>1. Body(i, g) = Body(i, h)
        BY <1>4
      <4>. QED
        BY <1>5, <4>1
    <3>. QED
      BY <3>1 DEF LooksBack
  <2>2. 0 \in V
    BY <1>2 DEF V
  <2>. QED
    BY <1>2, <1>5, <2>1, <2>2, LookBack
<1>7. PICK f \in [0..N -> V] : \A i \in 0..N : f[i] = H[<<i, f>>]
  BY <1>6 DEF Solves
<1>8. Def(f)
  <2>1. \A i \in 0..N : f[i] = Body(i, f)
    BY <1>5, <1>7
  <2>2. f = [i \in 0..N |-> f[i]]
    OBVIOUS
  <2>. QED
    BY <2>1, <2>2, Zenon DEF N
<1>9. Def(down)
  <2>. HIDE DEF Def
  <2>. QED
    BY <1>8 DEF down
<1>10. \A i \in 0..N : down[i] = Body(i, down)
  BY <1>9, Zenon DEF N
<1>. DEFINE G == {i \in 0..N : i \in Place(S) /\ low <= i => Found(i, down[i])}
<1>11. ASSUME NEW i \in 0..N, \A j \in 0..N : j < i => j \in G
       PROVE  i \in G
  <2>. SUFFICES ASSUME i \in Place(S), low <= i PROVE Found(i, down[i])
    OBVIOUS
  <2>1. down[i] = IF i \in {0, low, bottom} THEN 0
                  ELSE IF Matches(i, c) THEN i ELSE down[slot[i].prev]
    BY <1>10 DEF Body
  <2>2. CASE i \in {0, low, bottom}
    BY <2>1, <2>2
  <2>3. CASE i \notin {0, low, bottom}
    <3>1. i \in S /\ low < i /\ Beneath(S, i, slot[i].prev)
      BY <1>2, <2>3 DEF Place
    <3>2. CASE Matches(i, c)
      BY <2>1, <2>3, <3>1, <3>2
    <3>3. CASE ~Matches(i, c)
      <4>. DEFINE p == slot[i].prev
      <4>. HIDE DEF p
      <4>1. p \in Place(S) /\ p < i /\ p \in 0..N /\ low <= p
        BY <1>2, <3>1 DEF Beneath, Place, p
      <4>2. Found(p, down[p])
        BY <1>11, <4>1
      <4>3. down[i] = down[p]
        BY <2>1, <2>3, <3>3 DEF p
      <4>4. \A v \in S : v <= p => v <= i
        BY <1>2, <4>1
      <4>. QED
        BY <4>2, <4>3, <4>4
    <3>. QED
      BY <3>2, <3>3
  <2>. QED
    BY <2>2, <2>3
<1>12. \A i \in 0..N : i \in G
  <2>. HIDE DEF G
  <2>1. \A i \in 0..N : (\A j \in 0..N : j < i => j \in G) => i \in G
    BY <1>11
  <2>. QED
    BY <1>2, <2>1, UpwardInduction
<1>. DEFINE p == slot[c].prev
<1>13. p \in 0..N /\ p \in Place(S) /\ low <= p /\ p < c
  BY <1>2 DEF Place, Beneath
<1>. HIDE DEF p
<1>14. Found(p, down[p])
  BY <1>12, <1>13
<1>15. \A v \in S : v <= p => v < c
  BY <1>2, <1>13
<1>. QED
  BY <1>1, <1>14, <1>15 DEF p

LEMMA RemovedAllFacts ==
  ASSUME SlabOk(delims), Backward(delims), NEW S, Chained(delims, S), NEW q \in Seq(S),
         \A j, k \in 1..Len(q) : j < k => q[k] < q[j]
  PROVE  LET ds == RemovedAll(q)
         IN  /\ SlabOk(ds) /\ Backward(ds) /\ SameRuns(delims, ds)
             /\ Chained(ds, {j \in S : \A k \in 1..Len(q) : q[k] # j})
<1>. DEFINE N      == Len(q)
            V      == {x \in [slot : Seq(Slots), top : Nat] : Backward(x)}
            T(k)   == {j \in S : \A m \in 1..k : q[m] # j}
            Goes(k, x) == k \in 1..N /\ Chained(x, T(k - 1))
            H      == [p \in Nat \X V |-> IF Goes(p[1], p[2]) THEN Removed(p[2], q[p[1]]) ELSE p[2]]
            Def(f) == f = [i \in 0..Len(q) |-> IF i = 0 THEN delims ELSE Removed(f[i-1], q[i])]
            upTo   == CHOOSE f : Def(f)
<1>1. RemovedAll(q) = upTo[Len(q)]
  BY Zenon DEF RemovedAll
<1>. HIDE DEF upTo
<1>2. N \in Nat /\ S \subseteq Nat /\ \A k \in 1..N : q[k] \in S
  <2>1. S \subseteq 1..Len(delims.slot)
    BY DEF Chained
  <2>. QED
    BY <2>1
<1>3. ASSUME NEW k \in 1..N PROVE q[k] \in T(k - 1) /\ T(k - 1) \ {q[k]} = T(k)
  <2>1. \A m \in 1..(k-1) : m \in 1..N /\ m < k
    BY <1>2
  <2>2. \A m \in 1..(k-1) : q[m] # q[k]
    <3>. TAKE m \in 1..(k-1)
    <3>1. m \in 1..N /\ m < k
      BY <2>1
    <3>2. q[k] < q[m]
      BY <3>1
    <3>3. q[k] \in Nat
      BY <1>2
    <3>4. q[m] \in Nat
      BY <1>2, <3>1
    <3>. HIDE DEF T
    <3>. QED
      BY <3>2, <3>3, <3>4
  <2>3. q[k] \in T(k - 1)
    BY <1>2, <2>2
  <2>4. \A m \in 1..k : m = k \/ m \in 1..(k-1)
    BY <1>2
  <2>5. \A m \in 1..(k-1) : m \in 1..k
    BY <1>2
  <2>6. k \in 1..k
    BY <1>2
  <2>7. \A j \in S : (\A m \in 1..k : q[m] # j) <=> (\A m \in 1..(k-1) : q[m] # j) /\ j # q[k]
    BY <2>4, <2>5, <2>6
  <2>8. T(k - 1) \ {q[k]} = T(k)
    BY <2>7
  <2>. QED
    BY <2>3, <2>8
<1>4. ASSUME NEW k \in Nat, NEW x \in V, Goes(k, x)
      PROVE  /\ Removed(x, q[k]) \in V /\ Chained(Removed(x, q[k]), T(k))
             /\ SameRuns(x, Removed(x, q[k]))
  <2>1. SlabOk(x) /\ Backward(x) /\ Chained(x, T(k - 1)) /\ k \in 1..N
    BY <1>4 DEF SlabOk
  <2>2. q[k] \in T(k - 1) /\ T(k - 1) \ {q[k]} = T(k)
    BY <1>3, <2>1
  <2>. HIDE DEF T, V
  <2>3. /\ SlabOk(Removed(x, q[k])) /\ Backward(Removed(x, q[k]))
        /\ Chained(Removed(x, q[k]), T(k - 1) \ {q[k]}) /\ SameRuns(x, Removed(x, q[k]))
    BY <2>1, <2>2, RemovedChain
  <2>. QED
    BY <2>2, <2>3 DEF SlabOk, V
<1>5. delims \in V /\ Chained(delims, T(0))
  <2>1. T(0) = S
    OBVIOUS
  <2>. HIDE DEF T
  <2>. QED
    BY <2>1 DEF SlabOk
<1>. HIDE DEF T, V, Goes
<1>6. H \in [Nat \X V -> V]
  BY <1>4
<1>7. \A k \in Nat : \A x \in V : H[<<k, x>>] = IF Goes(k, x) THEN Removed(x, q[k]) ELSE x
  OBVIOUS
<1>. HIDE DEF H, N
<1>8. PICK f \in [0..N -> V] : Follows(f, 0, N, delims, H)
  <2>1. 0 \in Nat /\ 0 <= N
    BY <1>2
  <2>. QED
    BY <1>2, <1>5, <1>6, <2>1, RecursionExists
<1>9. \A k \in 0..N : f[k] = IF k = 0 THEN delims ELSE H[<<k, f[k-1]>>]
  BY <1>8, Zenon DEF Follows
<1>. DEFINE Good(k) == Chained(f[k], T(k)) /\ SameRuns(delims, f[k]) /\ (k # 0 => f[k] = Removed(f[k-1], q[k]))
            G == {k \in 0..N : Good(k)}
<1>10. ASSUME NEW k \in 0..N, \A j \in 0..N : j < k => j \in G PROVE Good(k)
  <2>1. CASE k = 0
    BY <1>5, <1>9, <2>1 DEF SameRuns
  <2>2. CASE k # 0
    <3>1. k - 1 \in 0..N /\ k - 1 < k /\ k \in Nat /\ k \in 1..N
      BY <1>2, <2>2
    <3>. DEFINE x == f[k-1]
    <3>2. x \in V /\ Chained(x, T(k - 1)) /\ SameRuns(delims, x)
      BY <1>10, <3>1
    <3>3. f[k] = H[<<k, x>>]
      BY <1>9, <2>2
    <3>. HIDE DEF x
    <3>4. Goes(k, x)
      BY <3>1, <3>2 DEF Goes, N
    <3>5. f[k] = Removed(x, q[k])
      BY <1>7, <3>1, <3>2, <3>3, <3>4
    <3>6. Chained(f[k], T(k)) /\ SameRuns(x, f[k])
      BY <1>4, <3>1, <3>2, <3>4, <3>5
    <3>7. SameRuns(delims, f[k])
      BY <3>2, <3>6 DEF SameRuns
    <3>. QED
      BY <3>5, <3>6, <3>7 DEF x
  <2>. HIDE DEF Good
  <2>. QED
    BY <2>1, <2>2
<1>. HIDE DEF Good
<1>11. \A k \in 0..N : Good(k)
  <2>1. \A k \in 0..N : (\A j \in 0..N : j < k => j \in G) => k \in G
    BY <1>10
  <2>2. \A k \in 0..N : k \in G
    <3>. HIDE DEF G
    <3>. QED
      BY <1>2, <2>1, UpwardInduction
  <2>. QED
    BY <2>2
<1>12. Def(f)
  <2>1. \A k \in 0..N : f[k] = IF k = 0 THEN delims ELSE Removed(f[k-1], q[k])
    BY <1>9, <1>11 DEF Good
  <2>2. f = [k \in 0..N |-> f[k]]
    OBVIOUS
  <2>. QED
    BY <2>1, <2>2, Zenon DEF N
<1>13. Def(upTo)
  <2>. HIDE DEF Def
  <2>. QED
    BY <1>12 DEF upTo
<1>14. \A k \in 0..N : upTo[k] = IF k = 0 THEN delims ELSE Removed(upTo[k-1], q[k])
  BY <1>13, Zenon DEF N
<1>15. \A k \in 0..N : upTo[k] = f[k]
  <2>. DEFINE E == {k \in 0..N : upTo[k] = f[k]}
  <2>1. ASSUME NEW k \in 0..N, \A j \in 0..N : j < k => j \in E PROVE k \in E
    <3>1. CASE k = 0
      BY <1>9, <1>14, <3>1
    <3>2. CASE k # 0
      <4>1. k - 1 \in 0..N /\ k - 1 < k
        BY <1>2, <3>2
      <4>2. upTo[k - 1] = f[k - 1]
        BY <2>1, <4>1
      <4>3. f[k] = Removed(f[k-1], q[k])
        BY <1>11, <3>2 DEF Good
      <4>4. upTo[k] = Removed(upTo[k-1], q[k])
        BY <1>14, <3>2
      <4>. QED
        BY <4>2, <4>3, <4>4
    <3>. QED
      BY <3>1, <3>2
  <2>2. \A k \in 0..N : k \in E
    <3>1. \A k \in 0..N : (\A j \in 0..N : j < k => j \in E) => k \in E
      BY <2>1
    <3>. HIDE DEF E
    <3>. QED
      BY <1>2, <3>1, UpwardInduction
  <2>. QED
    BY <2>2
<1>16. N \in 0..N
  BY <1>2
<1>17. upTo[N] = f[N] /\ Good(N) /\ f[N] \in V
  BY <1>8, <1>11, <1>15, <1>16
<1>. QED
  BY <1>1, <1>17 DEF Good, V, T, N, SlabOk

\* What was above the floor is gone, and nothing else.
LEMMA DroppedFacts ==
  ASSUME SlabOk(delims), Backward(delims), NEW S, Chained(delims, S), NEW floor \in Place(S)
  PROVE  /\ SlabOk(Dropped(floor)) /\ Backward(Dropped(floor)) /\ SameRuns(delims, Dropped(floor))
         /\ Chained(Dropped(floor), {j \in S : j <= floor})
<1>. DEFINE q == DownFrom(delims, delims.top, floor)
<1>1. /\ S \subseteq Nat /\ 0 \notin S /\ delims.top \in Place(S) /\ \A j \in S : j <= delims.top
      /\ floor \in Nat /\ floor <= delims.top
  <2>1. S \subseteq 1..Len(delims.slot) /\ delims.top \in Place(S) /\ \A j \in S : j <= delims.top
    BY DEF Chained, Place
  <2>2. Len(delims.slot) \in Nat
    BY DEF SlabOk
  <2>3. S \subseteq Nat /\ 0 \notin S
    BY <2>1, <2>2
  <2>4. delims.top \in Nat /\ floor \in Nat
    BY <2>3 DEF Place, SlabOk
  <2>5. floor <= delims.top
    BY <2>1, <2>4 DEF Place
  <2>. QED
    BY <2>1, <2>3, <2>4, <2>5
<1>2. Lists(delims, S, floor, delims.top, q)
  BY <1>1, DownFacts
<1>. HIDE DEF q
<1>3. q \in Seq(S) /\ \A j, k \in 1..Len(q) : j < k => q[k] < q[j]
  BY <1>2 DEF Lists
<1>4. {j \in S : \A k \in 1..Len(q) : q[k] # j} = {j \in S : j <= floor}
  <2>1. \A j \in S : ~(j <= floor) => \E k \in 1..Len(q) : q[k] = j
    BY <1>1, <1>2 DEF Lists
  <2>2. \A j \in S : j <= floor => \A k \in 1..Len(q) : q[k] # j
    <3>1. \A k \in 1..Len(q) : floor < q[k] /\ q[k] \in S
      BY <1>2, <1>3 DEF Lists
    <3>. QED
      BY <1>1, <3>1
  <2>. QED
    BY <2>1, <2>2
<1>5. Dropped(floor) = RemovedAll(q)
  BY DEF Dropped, q
<1>6. LET ds == RemovedAll(q)
      IN  /\ SlabOk(ds) /\ Backward(ds) /\ SameRuns(delims, ds)
          /\ Chained(ds, {j \in S : \A k \in 1..Len(q) : q[k] # j})
  BY <1>3, RemovedAllFacts
<1>. QED
  BY <1>4, <1>5, <1>6

(***************************************************************************)
(* The stacks, from step to step                                           *)
(***************************************************************************)
ArenaOk == used \in Node /\ DOMAIN lit = Node

\* Each delimiter on the stack is the text that is left of its node.
Unspent(S) ==
  \A i \in S : slot[i].num > 0 /\ lit[slot[i].node] = [k \in 1..slot[i].num |-> slot[i].cc]

\* The nodes of the slab were pushed in its order.
Rising ==
  \A i \in 1..Len(slot) :
    slot[i].node <= used /\ \A j \in 1..Len(slot) : i < j => slot[i].node < slot[j].node

\* The floors of the brackets are on the stack, and rise with the brackets.
FloorsIn(S) ==
  FloorsMatter =>
    \A i \in 1..Len(brackets) :
      /\ brackets[i].floor \in Place(S)
      /\ \A j \in 1..Len(brackets) : i <= j => brackets[i].floor <= brackets[j].floor

\* Emphasis is processed above a floor on the stack, that of the last bracket
\* when it is for a link.
ClosersIn(S) ==
  pc = "emph" =>
    /\ emph = [floor |-> emph.floor, closer |-> emph.closer, bottoms |-> emph.bottoms]
    /\ emph.floor \in Place(S)
    /\ emph.closer \in {0} \cup {i \in S : emph.floor < i}
    /\ link.node # Nil => brackets # <<>> /\ emph.floor = brackets[Len(brackets)].floor

Stacked(S) ==
  /\ SlabOk(delims) /\ Backward(delims) /\ Chained(delims, S)
  /\ Unspent(S) /\ Rising /\ FloorsIn(S) /\ ClosersIn(S)

StackIInv ==
  /\ MemoInv /\ ArenaOk
  /\ Parsing => brackets \in Seq(Brackets) /\ \E S \in SUBSET Nat : Stacked(S)

LEMMA StackInit == Init => StackIInv
<1>. SUFFICES ASSUME Init PROVE StackIInv
  OBVIOUS
<1>1. PICK texts \in Documents :
        /\ used = Doc + Len(texts) /\ lit = [n \in Node |-> <<>>]
        /\ pc = IF texts = <<>> THEN "done" ELSE "begin"
  BY DEF Init
<1>2. used \in Node
  <2>1. Len(texts) \in Nat /\ Len(texts) < MaxNodes
    BY <1>1, InlinePhaseAssumption
  <2>. QED
    BY <1>1, <2>1, MaxNodesAssumption DEF Node, Doc
<1>. QED
  BY <1>1, <1>2, MemoInit DEF StackIInv, ArenaOk, Parsing

LEMMA PushedArena ==
  ASSUME ArenaOk, NEW nodes, Len(nodes) \in Nat, NEW t, Pushed(nodes, t)
  PROVE  /\ ArenaOk' /\ used' = used + Len(nodes)
         /\ \A n \in Node : n <= used => lit'[n] = lit[n]
         /\ \A n \in Node : used < n /\ n <= used' => lit'[n] = nodes[n - used].lit
<1>1. used' \in Node /\ used' = used + Len(nodes) /\ used \in Nat
  BY DEF Pushed, Pushes, ArenaOk, Node
<1>2. lit' = [n \in Node |-> IF n \in (used + 1)..(used + Len(nodes)) THEN nodes[n - used].lit ELSE lit[n]]
  BY DEF Pushed
<1>3. \A n \in Node : n \in Nat /\ (n \in (used + 1)..(used + Len(nodes)) <=> used < n /\ n <= used')
  BY <1>1 DEF Node
<1>4. \A n \in Node : lit'[n] = IF used < n /\ n <= used' THEN nodes[n - used].lit ELSE lit[n]
  BY <1>2, <1>3
<1>5. ArenaOk'
  BY <1>1, <1>2 DEF ArenaOk
<1>6. \A n \in Node : n <= used => ~(used < n)
  BY <1>1, <1>3
<1>. QED
  BY <1>1, <1>4, <1>5, <1>6

LEMMA SlotTyped ==
  ASSUME SlabOk(delims)
  PROVE  \A i \in 1..Len(slot) : /\ slot[i] \in Slots /\ slot[i].node \in Node
                                 /\ slot[i].num \in Nat /\ slot[i].cc \in Delims
                                 /\ slot[i].next \in Nat /\ slot[i].prev \in Nat
<1>1. slot \in Seq(Slots)
  BY DEF SlabOk, slot
<1>2. \A i \in 1..Len(slot) : slot[i] \in Slots
  BY <1>1
<1>. QED
  BY <1>2 DEF Slots

\* A step that leaves the stacks alone, and the texts on them.
LEMMA Quiet ==
  ASSUME NEW S \in SUBSET Nat, Stacked(S), ArenaOk, used' \in Node, used <= used',
         UNCHANGED <<stacks, emph, link, pc>>,
         \A i \in S : lit'[slot[i].node] = lit[slot[i].node]
  PROVE  Stacked(S)'
<1>. USE DEF stacks, slot
<1>1. SlabOk(delims)' /\ Backward(delims)' /\ Chained(delims, S)'
  BY DEF Stacked
<1>2. Unspent(S)'
  BY DEF Stacked, Unspent
<1>3. Rising'
  <2>1. \A i \in 1..Len(slot) : slot[i].node \in Nat
    BY SlotTyped DEF Stacked, Node
  <2>2. used \in Nat /\ used' \in Nat
    BY DEF ArenaOk, Node
  <2>. QED
    BY <2>1, <2>2 DEF Stacked, Rising
<1>4. FloorsIn(S)'
  BY DEF Stacked, FloorsIn, FloorsMatter
<1>5. ClosersIn(S)'
  BY DEF Stacked, ClosersIn
<1>. QED
  BY <1>1, <1>2, <1>3, <1>4, <1>5 DEF Stacked

\* Texts that stand below what is pushed stay as they are.
LEMMA QuietPush ==
  ASSUME NEW S \in SUBSET Nat, Stacked(S), ArenaOk, NEW nodes, Len(nodes) \in Nat, NEW t,
         Pushed(nodes, t), UNCHANGED <<stacks, emph, link, pc>>
  PROVE  Stacked(S)' /\ ArenaOk'
<1>1. /\ ArenaOk' /\ used' = used + Len(nodes)
      /\ \A n \in Node : n <= used => lit'[n] = lit[n]
  BY PushedArena
<1>2. \A i \in S : slot[i].node \in Node /\ slot[i].node <= used
  BY SlotTyped DEF Stacked, Chained, Rising, slot
<1>3. used' \in Node /\ used <= used'
  BY <1>1 DEF ArenaOk, Node
<1>4. \A i \in S : lit'[slot[i].node] = lit[slot[i].node]
  BY <1>1, <1>2
<1>. QED
  BY <1>1, <1>3, <1>4, Quiet

\* A run of delimiters ends with no space.
LEMMA RunUntrimmed ==
  ASSUME NEW n \in Nat, n > 0, NEW cc \in Delims
  PROVE  TrimEndSpaces([k \in 1..n |-> cc]) = [k \in 1..n |-> cc]
<1>. DEFINE text == [k \in 1..n |-> cc]
            kept == {i \in 1..Len(text) : text[i] # "sp"}
<1>0. cc # "sp"
  BY DEF Delims
<1>1. text \in Seq(Delims) /\ Len(text) = n /\ cc # "sp" /\ \A i \in 1..n : text[i] = cc
  BY <1>0
<1>. HIDE DEF text
<1>2. kept = 1..n
  BY <1>1
<1>3. Max(kept) = n
  <2>1. 1..n # {}
    OBVIOUS
  <2>2. Max(1..n) \in 1..n /\ \A m \in 1..n : m <= Max(1..n)
    BY <2>1, MaxOf
  <2>. QED
    <3>. DEFINE m == Max(1..n)
    <3>1. m \in 1..n /\ n <= m
      BY <2>2
    <3>. HIDE DEF m
    <3>2. m = n
      BY <3>1
    <3>. QED
      BY <1>2, <3>2 DEF m
<1>4. TrimEndSpaces(text) = SubSeq(text, 1, n)
  <2>1. TrimEndSpaces(text) = IF kept = {} THEN <<>> ELSE SubSeq(text, 1, Max(kept))
    BY DEF TrimEndSpaces
  <2>2. n \in kept
    BY <1>2
  <2>3. kept # {}
    BY <2>2
  <2>. HIDE DEF kept
  <2>. QED
    BY <1>3, <2>1, <2>3
<1>. QED
  BY <1>1, <1>4 DEF text

\* What is to be shown of a step, the memo aside.
StacksNext == ArenaOk' /\ (Parsing' => brackets' \in Seq(Brackets) /\ \E S \in SUBSET Nat : Stacked(S)')

LEMMA EmitPushes ==
  ASSUME NEW node, NEW end, Emit(node, end)
  PROVE  \E t : Pushed(<<node>>, t)
BY Zenon DEF Emit

LEMMA TextsStacked ==
  ASSUME StackIInv,
         ParseString \/ ParseBackslash \/ ParseBackticks \/ ParseAutolink \/ ParseOne
  PROVE  StacksNext
<1>1. pc = "scan" /\ UNCHANGED <<stacks, emph, link, pc>>
  <2>1. (\E X : At(X)) /\ UNCHANGED unscanned /\ UNCHANGED stacks
    BY Zenon DEF ParseString, ParseBackslash, ParseBackticks, ParseAutolink, ParseOne
  <2>. QED
    BY <2>1 DEF At, unscanned
<1>2. PICK nodes, t : Pushed(nodes, t) /\ Len(nodes) \in Nat
  <2>1. ASSUME NEW node, NEW end, Emit(node, end)
        PROVE  \E nodes, t : Pushed(nodes, t) /\ Len(nodes) \in Nat
    <3>1. PICK t : Pushed(<<node>>, t)
      BY <2>1, EmitPushes
    <3>2. Len(<<node>>) \in Nat
      OBVIOUS
    <3>. QED
      BY <3>1, <3>2, Zenon
  <2>2. CASE ParseAutolink
    <3>1. PICK t : Pushed(<<Container("Link"), Text(<<"<u>">>)>>, t)
      BY <2>2, Zenon DEF ParseAutolink
    <3>2. Len(<<Container("Link"), Text(<<"<u>">>)>>) \in Nat
      OBVIOUS
    <3>. QED
      BY <3>1, <3>2, Zenon
  <2>3. CASE ParseString
    BY <2>1, <2>3, Zenon DEF ParseString
  <2>4. CASE ParseBackslash
    <3>1. \E node, end : Emit(node, end)
      BY <2>4 DEF ParseBackslash
    <3>. QED
      BY <2>1, <3>1
  <2>5. CASE ParseBackticks
    <3>1. \E node, end : Emit(node, end)
      BY <2>5 DEF ParseBackticks
    <3>. QED
      BY <2>1, <3>1
  <2>6. CASE ParseOne
    BY <2>1, <2>6, Zenon DEF ParseOne
  <2>. QED
    BY <2>2, <2>3, <2>4, <2>5, <2>6
<1>3. brackets \in Seq(Brackets) /\ ArenaOk /\ \E S \in SUBSET Nat : Stacked(S)
  BY <1>1 DEF StackIInv, Parsing
<1>4. PICK S \in SUBSET Nat : Stacked(S)
  BY <1>3
<1>5. Stacked(S)' /\ ArenaOk'
  BY <1>1, <1>2, <1>3, <1>4, QuietPush
<1>. QED
  BY <1>1, <1>3, <1>5 DEF StacksNext, stacks

LEMMA NewlineStacked ==
  ASSUME StackIInv, ParseNewline
  PROVE  StacksNext
<1>. DEFINE before == tree.last[This]
            text   == before # Nil /\ type[before] = "Text"
<1>1. /\ pc = "scan" /\ UNCHANGED <<stacks, emph, link, pc>> /\ Pushes(1)
      /\ lit' = IF text THEN [lit EXCEPT ![before] = TrimEndSpaces(@)] ELSE lit
  BY DEF ParseNewline, At, unscanned
<1>2. brackets \in Seq(Brackets) /\ ArenaOk /\ \E S \in SUBSET Nat : Stacked(S)
  BY <1>1 DEF StackIInv, Parsing
<1>3. PICK S \in SUBSET Nat : Stacked(S)
  BY <1>2
<1>4. ArenaOk' /\ used <= used' /\ used' \in Node
  BY <1>1, <1>2 DEF Pushes, ArenaOk, Node
<1>5. ASSUME NEW i \in S PROVE lit'[slot[i].node] = lit[slot[i].node]
  <2>. DEFINE n == slot[i].num
              cc == slot[i].cc
              at == slot[i].node
  <2>1. /\ n \in Nat /\ n > 0 /\ cc \in Delims /\ at \in Node
        /\ lit[at] = [k \in 1..n |-> cc]
    BY <1>3, SlotTyped DEF Stacked, Unspent, Chained, slot
  <2>. HIDE DEF n, cc, at, before
  <2>2. TrimEndSpaces(lit[at]) = lit[at]
    BY <2>1, RunUntrimmed
  <2>3. DOMAIN lit = Node
    BY <1>2 DEF ArenaOk
  <2>4. lit'[at] = lit[at]
    BY <1>1, <2>1, <2>2, <2>3
  <2>. QED
    BY <2>4 DEF at
<1>6. Stacked(S)'
  BY <1>1, <1>2, <1>3, <1>4, <1>5, Quiet
<1>. QED
  BY <1>1, <1>2, <1>4, <1>6 DEF StacksNext, stacks

LEMMA RunFacts ==
  ASSUME NEW s, Len(s) \in Nat, NEW at \in 1..Len(s)
  PROVE  /\ DelimRun(s, at).num \in Nat /\ DelimRun(s, at).num > 0
         /\ DelimRun(s, at).open \in BOOLEAN /\ DelimRun(s, at).close \in BOOLEAN
<1>. DEFINE end == Stop(s, at, {s[at]})
<1>1. end \in at..(Len(s) + 1) /\ (end <= Len(s) => s[end] \notin {s[at]})
  BY StopFacts
<1>2. DelimRun(s, at).num = end - at
  BY DEF DelimRun
<1>. HIDE DEF end
<1>3. end # at
  BY <1>1
<1>4. DelimRun(s, at).open \in BOOLEAN /\ DelimRun(s, at).close \in BOOLEAN
  BY DEF DelimRun
<1>. QED
  BY <1>1, <1>2, <1>3, <1>4

LEMMA DelimStacked ==
  ASSUME StackIInv, HandleDelim
  PROVE  StacksNext
<1>. DEFINE run == DelimRun(subject, pos)
            cc  == subject[pos]
            i   == Len(delims.slot) + 1
            x   == [cc |-> cc, num |-> run.num, orig |-> run.num, node |-> used + 1,
                    prev |-> delims.top, next |-> 0, open |-> run.open, close |-> run.close]
            under == IF delims.top = 0 THEN delims.slot
                     ELSE [delims.slot EXCEPT ![delims.top].next = i]
            ds    == [slot |-> Append(under, x), top |-> i]
            node  == Text([k \in 1..run.num |-> cc])
<1>1. /\ At(Delims \cap Specials) /\ UNCHANGED <<unscanned, brackets>>
      /\ Emit(node, pos + run.num)
      /\ delims' = IF Stackable(cc, run) THEN ds ELSE delims
  BY Zenon DEF HandleDelim
<1>2. pc = "scan" /\ pc' = "scan" /\ cc \in Delims /\ UNCHANGED <<brackets, emph, link, pc>>
  BY <1>1 DEF At, unscanned
<1>3. brackets \in Seq(Brackets) /\ ArenaOk /\ MemoInv /\ \E S \in SUBSET Nat : Stacked(S)
  BY <1>2 DEF StackIInv, Parsing
<1>4. PICK S \in SUBSET Nat : Stacked(S)
  BY <1>3
<1>5. PICK t : Pushed(<<node>>, t)
  BY <1>1, EmitPushes
<1>6. run.num \in Nat /\ run.num > 0 /\ run.open \in BOOLEAN /\ run.close \in BOOLEAN
  <2>1. Len(subject) \in Nat /\ pos \in 1..Len(subject)
    BY <1>1, <1>2, <1>3 DEF At, AtEnd, MemoInv, MemoHonest, Parsing
  <2>. QED
    BY <2>1, RunFacts
<1>. DEFINE nodes == <<node>>
<1>7. Len(nodes) = 1 /\ nodes[1] = node /\ node.lit = [k \in 1..run.num |-> cc]
  BY DEF Text
<1>. HIDE DEF run, cc, node, nodes
<1>8. /\ ArenaOk' /\ used' = used + 1 /\ used \in Nat /\ used + 1 \in Node
      /\ \A n \in Node : n <= used => lit'[n] = lit[n]
      /\ lit'[used + 1] = [k \in 1..run.num |-> cc]
  <2>1. /\ ArenaOk' /\ used' = used + 1
        /\ \A n \in Node : n <= used => lit'[n] = lit[n]
        /\ \A n \in Node : used < n /\ n <= used' => lit'[n] = nodes[n - used].lit
    <3>1. Pushed(nodes, t) /\ Len(nodes) \in Nat
      BY <1>5, <1>7 DEF nodes
    <3>. QED
      BY <1>3, <1>7, <3>1, PushedArena
  <2>2. used \in Nat /\ used + 1 \in Node
    BY <1>3, <2>1 DEF ArenaOk, Node
  <2>3. lit'[used + 1] = nodes[(used + 1) - used].lit
    BY <2>1, <2>2
  <2>4. (used + 1) - used = 1
    BY <2>2
  <2>. QED
    BY <1>7, <2>1, <2>2, <2>3, <2>4
<1>9. CASE ~Stackable(cc, run)
  <2>1. UNCHANGED stacks
    BY <1>1, <1>2, <1>9 DEF stacks
  <2>2. \A j \in S : lit'[slot[j].node] = lit[slot[j].node]
    BY <1>4, <1>8, SlotTyped DEF Stacked, Chained, Rising, slot
  <2>3. Stacked(S)'
    BY <1>2, <1>3, <1>4, <1>8, <2>1, <2>2, Quiet DEF ArenaOk
  <2>. QED
    BY <1>2, <1>3, <1>8, <2>3 DEF StacksNext
<1>10. CASE Stackable(cc, run)
  <2>1. x \in Slots /\ x.prev = delims.top /\ x.next = 0
    <3>1. delims.top \in Nat
      BY <1>4 DEF Stacked, SlabOk
    <3>. QED
      BY <1>2, <1>6, <1>8, <3>1 DEF Slots
  <2>2. x.cc = cc /\ x.num = run.num /\ x.node = used + 1
    OBVIOUS
  <2>. HIDE DEF x
  <2>3. /\ SlabOk(ds) /\ Backward(ds) /\ Chained(ds, S \cup {i})
        /\ Len(ds.slot) = i /\ ds.slot[i] = x
        /\ \A j \in 1..Len(slot) : /\ ds.slot[j].cc = slot[j].cc /\ ds.slot[j].node = slot[j].node
                                   /\ ds.slot[j].num = slot[j].num
    BY <1>4, <2>1, PushedChain DEF Stacked
  <2>4. delims' = ds
    BY <1>1, <1>10
  <2>. HIDE DEF ds
  <2>5. slot' = ds.slot
    BY <2>4 DEF slot
  <2>6. i \in Nat /\ i = Len(slot) + 1 /\ Len(slot) \in Nat /\ S \subseteq 1..Len(slot)
    BY <1>4 DEF Stacked, SlabOk, Chained, slot
  <2>13. PICK T : T = S \cup {i}
    OBVIOUS
  <2>. HIDE DEF i
  <2>7. \A j \in 1..Len(slot) : slot[j].node \in Node /\ slot[j].node <= used
    BY <1>4, SlotTyped DEF Stacked, Rising
  <2>8. Unspent(T)'
    <3>1. ASSUME NEW j \in S \cup {i}
          PROVE  ds.slot[j].num > 0 /\ lit'[ds.slot[j].node] = [k \in 1..ds.slot[j].num |-> ds.slot[j].cc]
      <4>1. CASE j = i
        BY <1>6, <1>8, <2>2, <2>3, <4>1
      <4>2. CASE j # i
        <5>1. j \in S /\ j \in 1..Len(slot)
          BY <2>6, <4>2
        <5>2. slot[j].num > 0 /\ lit[slot[j].node] = [k \in 1..slot[j].num |-> slot[j].cc]
          BY <1>4, <5>1 DEF Stacked, Unspent
        <5>3. lit'[slot[j].node] = lit[slot[j].node]
          BY <1>8, <2>7, <5>1
        <5>. QED
          BY <2>3, <5>1, <5>2, <5>3
      <4>. QED
        BY <4>1, <4>2
    <3>. QED
      BY <2>5, <2>13, <3>1 DEF Unspent
  <2>9. Rising'
    <3>1. ASSUME NEW j \in 1..i PROVE j = i \/ j \in 1..Len(slot)
      BY <2>6
    <3>2. \A j \in 1..i : ds.slot[j].node <= used'
      <4>. TAKE j \in 1..i
      <4>1. j # i => ds.slot[j].node = slot[j].node /\ slot[j].node \in Nat /\ slot[j].node <= used
        BY <2>3, <2>7, <3>1 DEF Node
      <4>2. j = i => ds.slot[j].node = used + 1
        BY <2>2, <2>3
      <4>. QED
        BY <1>8, <4>1, <4>2
    <3>3. \A j, k \in 1..i : j < k => ds.slot[j].node < ds.slot[k].node
      <4>. TAKE j, k \in 1..i
      <4>. HAVE j < k
      <4>1. j \in 1..Len(slot) /\ slot[j].node \in Nat /\ slot[j].node <= used
            /\ ds.slot[j].node = slot[j].node
        BY <2>3, <2>6, <2>7 DEF Node
      <4>2. CASE k = i
        BY <1>8, <2>2, <2>3, <4>1, <4>2
      <4>3. CASE k # i
        <5>1. k \in 1..Len(slot) /\ ds.slot[k].node = slot[k].node
          BY <2>3, <3>1, <4>3
        <5>. QED
          BY <1>4, <4>1, <5>1 DEF Stacked, Rising
      <4>. QED
        BY <4>2, <4>3
    <3>. QED
      BY <2>3, <2>5, <3>2, <3>3 DEF Rising
  <2>10. FloorsIn(T)'
    BY <1>2, <1>4, <2>13 DEF Stacked, FloorsIn, FloorsMatter, Place
  <2>11. ClosersIn(T)'
    BY <1>2 DEF ClosersIn
  <2>12. Stacked(T)' /\ T \in SUBSET Nat
    BY <2>3, <2>4, <2>6, <2>8, <2>9, <2>10, <2>11, <2>13 DEF Stacked
  <2>. QED
    BY <1>2, <1>3, <1>8, <2>12 DEF StacksNext
<1>. QED
  BY <1>9, <1>10

\* A step that pushes nodes and leaves the delimiter stack alone.
LEMMA PushedUnder ==
  ASSUME NEW S \in SUBSET Nat, Stacked(S), ArenaOk, NEW nodes, Len(nodes) \in Nat, NEW t,
         Pushed(nodes, t), UNCHANGED delims
  PROVE  /\ ArenaOk' /\ used' = used + Len(nodes) /\ used \in Nat
         /\ SlabOk(delims)' /\ Backward(delims)' /\ Chained(delims, S)'
         /\ Unspent(S)' /\ Rising'
<1>1. /\ ArenaOk' /\ used' = used + Len(nodes)
      /\ \A n \in Node : n <= used => lit'[n] = lit[n]
  BY PushedArena
<1>2. used \in Nat /\ used' \in Nat /\ used <= used'
  BY <1>1 DEF ArenaOk, Node
<1>3. SlabOk(delims)' /\ Backward(delims)' /\ Chained(delims, S)' /\ slot' = slot
  BY DEF Stacked, slot
<1>4. \A i \in 1..Len(slot) : slot[i].node \in Node /\ slot[i].node \in Nat /\ slot[i].node <= used
  BY SlotTyped DEF Stacked, Rising, Node
<1>5. \A i \in S : lit'[slot[i].node] = lit[slot[i].node]
  BY <1>1, <1>4 DEF Stacked, Chained, slot
<1>6. Unspent(S)'
  BY <1>3, <1>5 DEF Stacked, Unspent
<1>7. Rising'
  BY <1>2, <1>3, <1>4 DEF Stacked, Rising
<1>. QED
  BY <1>1, <1>2, <1>3, <1>6, <1>7

\* A bracket goes on top: its floor is over all the others.
LEMMA OpenedFacts ==
  ASSUME NEW S \in SUBSET Nat, Stacked(S), pc = "scan", brackets \in Seq(Brackets),
         NEW node \in Node, NEW index \in Nat \ {0}, NEW image \in BOOLEAN
  PROVE  LET bs == Opened(node, index, image)
         IN  /\ bs \in Seq(Brackets)
             /\ \A i \in 1..Len(bs) :
                  /\ bs[i].floor \in Place(S)
                  /\ \A j \in 1..Len(bs) : i <= j => bs[i].floor <= bs[j].floor
<1>. DEFINE n == Len(brackets)
            under == IF n = 0 THEN <<>> ELSE [brackets EXCEPT ![n].after = TRUE]
            b == [node |-> node, floor |-> delims.top, index |-> index,
                  image |-> image, active |-> TRUE, after |-> FALSE]
            bs == Append(under, b)
<1>1. Opened(node, index, image) = bs
  BY Zenon DEF Opened
<1>2. /\ delims.top \in Nat /\ delims.top \in Place(S) /\ \A x \in Place(S) : x <= delims.top
      /\ n \in Nat /\ DOMAIN brackets = 1..n
  BY DEF Stacked, SlabOk, Chained, Place
<1>3. b \in Brackets /\ b.floor = delims.top
  BY <1>2 DEF Brackets
<1>4. /\ \A i \in 1..n : brackets[i].floor \in Place(S)
      /\ \A i, j \in 1..n : i <= j => brackets[i].floor <= brackets[j].floor
  BY DEF Stacked, FloorsIn, FloorsMatter
<1>. DEFINE at(i) == IF i = n THEN [brackets[i] EXCEPT !.after = TRUE] ELSE brackets[i]
<1>5. \A i \in 1..n : at(i) \in Brackets /\ at(i).floor = brackets[i].floor
  <2>. TAKE i \in 1..n
  <2>1. brackets[i] \in Brackets
    OBVIOUS
  <2>. DEFINE x == brackets[i]
  <2>2. x \in Brackets
    BY <2>1
  <2>. HIDE DEF x
  <2>3. [x EXCEPT !.after = TRUE] \in Brackets /\ [x EXCEPT !.after = TRUE].floor = x.floor
    BY <2>2 DEF Brackets
  <2>. QED
    BY <2>2, <2>3 DEF x
<1>6. under = [i \in 1..n |-> at(i)]
  <2>1. CASE n = 0
    BY <2>1
  <2>2. CASE n # 0
    <3>1. under = [brackets EXCEPT ![n].after = TRUE]
      BY <2>2
    <3>2. brackets = [i \in 1..n |-> brackets[i]] /\ n \in 1..n
      BY <1>2, <2>2
    <3>. HIDE DEF under, n
    <3>. QED
      BY <3>1, <3>2
  <2>. QED
    BY <2>1, <2>2
<1>. HIDE DEF at, under, b
<1>7. under \in Seq(Brackets) /\ Len(under) = n /\ \A i \in 1..n : under[i] = at(i)
  BY <1>2, <1>5, <1>6
<1>8. /\ bs \in Seq(Brackets) /\ Len(bs) = n + 1 /\ bs[n + 1] = b
      /\ \A i \in 1..n : bs[i] = at(i)
  BY <1>2, <1>3, <1>7
<1>. HIDE DEF bs
<1>9. \A i \in 1..(n + 1) : i = n + 1 \/ i \in 1..n
  BY <1>2
<1>10. \A i \in 1..Len(bs) : bs[i].floor = IF i = n + 1 THEN delims.top ELSE brackets[i].floor
  BY <1>3, <1>5, <1>8, <1>9
<1>11. \A i \in 1..Len(bs) : bs[i].floor \in Place(S)
  BY <1>2, <1>4, <1>8, <1>9, <1>10
<1>12. \A i, j \in 1..Len(bs) : i <= j => bs[i].floor <= bs[j].floor
  <2>. TAKE i, j \in 1..Len(bs)
  <2>. HAVE i <= j
  <2>1. CASE j = n + 1
    BY <1>2, <1>10, <1>11, <2>1
  <2>2. CASE j # n + 1
    <3>1. j \in 1..n /\ i \in 1..n /\ i # n + 1
      BY <1>2, <1>8, <2>2
    <3>. QED
      BY <1>4, <1>10, <2>2, <3>1
  <2>. QED
    BY <2>1, <2>2
<1>. QED
  BY <1>1, <1>8, <1>11, <1>12

\* The bracket on top goes.
LEMMA FrontFacts ==
  ASSUME NEW S, brackets \in Seq(Brackets),
         \A i \in 1..Len(brackets) :
           /\ brackets[i].floor \in Place(S)
           /\ \A j \in 1..Len(brackets) : i <= j => brackets[i].floor <= brackets[j].floor
  PROVE  LET bs == Front(brackets)
         IN  /\ bs \in Seq(Brackets)
             /\ \A i \in 1..Len(bs) :
                  /\ bs[i].floor \in Place(S)
                  /\ \A j \in 1..Len(bs) : i <= j => bs[i].floor <= bs[j].floor
<1>1. CASE Len(brackets) = 0
  <2>1. Front(brackets) = <<>>
    BY <1>1 DEF Front
  <2>. QED
    BY <2>1
<1>2. CASE Len(brackets) # 0
  <2>. DEFINE n == Len(brackets) - 1
              bs == SubSeq(brackets, 1, n)
  <2>1. Len(brackets) \in Nat
    OBVIOUS
  <2>2. n \in Nat /\ n < Len(brackets)
    BY <1>2, <2>1
  <2>3. bs \in Seq(Brackets) /\ Len(bs) = n /\ \A i \in 1..n : bs[i] = brackets[i]
    <3>. HIDE DEF n
    <3>1. bs = [i \in 1..n |-> brackets[i]]
      BY <2>1, <2>2
    <3>2. \A i \in 1..n : brackets[i] \in Brackets
      BY <2>1, <2>2
    <3>. HIDE DEF bs
    <3>. QED
      BY <2>2, <3>1, <3>2
  <2>4. \A i \in 1..n : i \in 1..Len(brackets)
    BY <2>1, <2>2
  <2>. HIDE DEF bs, n
  <2>5. \A i \in 1..Len(bs) : bs[i].floor \in Place(S)
    BY <2>3, <2>4
  <2>6. \A i, j \in 1..Len(bs) : i <= j => bs[i].floor <= bs[j].floor
    BY <2>3, <2>4
  <2>. QED
    BY <2>3, <2>5, <2>6 DEF Front, bs, n
<1>. QED
  BY <1>1, <1>2

\* Deactivating brackets leaves their floors.
LEMMA DeactivatedFacts ==
  ASSUME NEW bs \in Seq(Brackets)
  PROVE  /\ Deactivated(bs) \in Seq(Brackets) /\ Len(Deactivated(bs)) = Len(bs)
         /\ \A i \in 1..Len(bs) : Deactivated(bs)[i].floor = bs[i].floor
<1>. DEFINE at(i) == IF bs[i].image THEN bs[i] ELSE [bs[i] EXCEPT !.active = FALSE]
<1>1. Deactivated(bs) = [i \in 1..Len(bs) |-> at(i)]
  BY DEF Deactivated
<1>2. \A i \in 1..Len(bs) : at(i) \in Brackets /\ at(i).floor = bs[i].floor
  <2>. TAKE i \in 1..Len(bs)
  <2>. DEFINE x == bs[i]
  <2>1. x \in Brackets
    OBVIOUS
  <2>. HIDE DEF x
  <2>2. [x EXCEPT !.active = FALSE] \in Brackets /\ [x EXCEPT !.active = FALSE].floor = x.floor
    BY <2>1 DEF Brackets
  <2>. QED
    BY <2>1, <2>2 DEF x
<1>. HIDE DEF at
<1>. QED
  BY <1>1, <1>2

\* A step of the scan that pushes nodes and changes the brackets.
LEMMA BracketsMoved ==
  ASSUME NEW S \in SUBSET Nat, Stacked(S), ArenaOk, NEW nodes, Len(nodes) \in Nat, NEW t,
         Pushed(nodes, t), UNCHANGED delims, pc' = "scan",
         NEW bs \in Seq(Brackets), brackets' = bs,
         \A i \in 1..Len(bs) :
           /\ bs[i].floor \in Place(S)
           /\ \A j \in 1..Len(bs) : i <= j => bs[i].floor <= bs[j].floor
  PROVE  StacksNext
<1>1. /\ ArenaOk' /\ SlabOk(delims)' /\ Backward(delims)' /\ Chained(delims, S)'
      /\ Unspent(S)' /\ Rising'
  BY PushedUnder
<1>2. FloorsIn(S)'
  BY DEF FloorsIn
<1>3. ClosersIn(S)'
  BY DEF ClosersIn
<1>4. Stacked(S)'
  BY <1>1, <1>2, <1>3 DEF Stacked
<1>. QED
  BY <1>1, <1>4 DEF StacksNext

\* What the invariant says while a block is scanned.
LEMMA Scanning ==
  ASSUME StackIInv, pc = "scan"
  PROVE  /\ brackets \in Seq(Brackets) /\ ArenaOk /\ MemoInv
         /\ \E S \in SUBSET Nat :
              /\ Stacked(S)
              /\ \A i \in 1..Len(brackets) :
                   /\ brackets[i].floor \in Place(S)
                   /\ \A j \in 1..Len(brackets) : i <= j => brackets[i].floor <= brackets[j].floor
<1>1. brackets \in Seq(Brackets) /\ ArenaOk /\ MemoInv /\ \E S \in SUBSET Nat : Stacked(S)
  BY DEF StackIInv, Parsing
<1>2. PICK S \in SUBSET Nat : Stacked(S)
  BY <1>1
<1>3. \A i \in 1..Len(brackets) :
        /\ brackets[i].floor \in Place(S)
        /\ \A j \in 1..Len(brackets) : i <= j => brackets[i].floor <= brackets[j].floor
  BY <1>2 DEF Stacked, FloorsIn, FloorsMatter
<1>. QED
  BY <1>1, <1>2, <1>3

LEMMA OpenStacked ==
  ASSUME StackIInv, ParseOpenBracket \/ ParseBang
  PROVE  StacksNext
<1>1. pc = "scan" /\ pc' = "scan" /\ UNCHANGED delims /\ ~AtEnd(subject, pos)
  BY DEF ParseOpenBracket, ParseBang, At, unscanned
<1>2. PICK S \in SUBSET Nat :
        /\ Stacked(S)
        /\ \A i \in 1..Len(brackets) :
             /\ brackets[i].floor \in Place(S)
             /\ \A j \in 1..Len(brackets) : i <= j => brackets[i].floor <= brackets[j].floor
  BY <1>1, Scanning
<1>3. brackets \in Seq(Brackets) /\ ArenaOk /\ MemoInv
  BY <1>1, Scanning
<1>4. pos \in Nat \ {0} /\ pos + 1 \in Nat \ {0}
  BY <1>1, <1>3 DEF MemoInv, MemoHonest, Parsing
<1>5. PICK node, end : Emit(node, end)
  BY DEF ParseOpenBracket, ParseBang
<1>6. PICK t : Pushed(<<node>>, t)
  BY <1>5, EmitPushes
<1>. DEFINE nodes == <<node>>
<1>7. Pushed(nodes, t) /\ Len(nodes) = 1
  BY <1>6
<1>. HIDE DEF nodes
<1>8. used + 1 \in Node
  BY <1>7 DEF Pushed, Pushes
<1>9. CASE UNCHANGED brackets
  <2>1. PICK new : new = brackets
    OBVIOUS
  <2>2. new \in Seq(Brackets) /\ brackets' = new
    BY <1>3, <1>9, <2>1
  <2>3. \A i \in 1..Len(new) :
          /\ new[i].floor \in Place(S)
          /\ \A j \in 1..Len(new) : i <= j => new[i].floor <= new[j].floor
    BY <1>2, <2>1
  <2>4. Stacked(S) /\ ArenaOk /\ pc' = "scan" /\ UNCHANGED delims
    BY <1>1, <1>2, <1>3
  <2>5. Len(nodes) \in Nat /\ Pushed(nodes, t)
    BY <1>7
  <2>. QED
    BY <2>2, <2>3, <2>4, <2>5, BracketsMoved
<1>10. ASSUME NEW index \in Nat \ {0}, NEW image \in BOOLEAN,
              brackets' = Opened(used + 1, index, image)
       PROVE  StacksNext
  <2>. DEFINE bs == Opened(used + 1, index, image)
  <2>1. /\ bs \in Seq(Brackets)
        /\ \A i \in 1..Len(bs) :
             /\ bs[i].floor \in Place(S)
             /\ \A j \in 1..Len(bs) : i <= j => bs[i].floor <= bs[j].floor
    BY <1>1, <1>2, <1>3, <1>8, OpenedFacts
  <2>2. PICK new : new = bs
    OBVIOUS
  <2>. HIDE DEF bs
  <2>. QED
    BY <1>1, <1>2, <1>3, <1>7, <1>10, <2>1, <2>2, BracketsMoved DEF bs
<1>. QED
  <2>1. \/ UNCHANGED brackets
        \/ brackets' = Opened(used + 1, pos, FALSE)
        \/ brackets' = Opened(used + 1, pos + 1, TRUE)
    BY Zenon DEF ParseOpenBracket, ParseBang
  <2>. QED
    BY <1>4, <1>9, <1>10, <2>1

LEMMA CloseStacked ==
  ASSUME StackIInv, CloseNothing
  PROVE  StacksNext
<1>1. pc = "scan" /\ pc' = "scan" /\ UNCHANGED delims
  BY DEF CloseNothing, At, unscanned
<1>2. PICK S \in SUBSET Nat :
        /\ Stacked(S)
        /\ \A i \in 1..Len(brackets) :
             /\ brackets[i].floor \in Place(S)
             /\ \A j \in 1..Len(brackets) : i <= j => brackets[i].floor <= brackets[j].floor
  BY <1>1, Scanning
<1>3. brackets \in Seq(Brackets) /\ ArenaOk
  BY <1>1, Scanning
<1>4. PICK t : Pushed(<<Text(<<"]">>)>>, t)
  BY EmitPushes, Zenon DEF CloseNothing
<1>. DEFINE nodes == <<Text(<<"]">>)>>
<1>5. Pushed(nodes, t) /\ Len(nodes) \in Nat
  BY <1>4
<1>. HIDE DEF nodes
<1>. DEFINE bs == Front(brackets)
<1>6. /\ bs \in Seq(Brackets)
      /\ \A i \in 1..Len(bs) :
           /\ bs[i].floor \in Place(S)
           /\ \A j \in 1..Len(bs) : i <= j => bs[i].floor <= bs[j].floor
  BY <1>2, <1>3, FrontFacts
<1>7. brackets' = brackets \/ brackets' = bs
  BY DEF CloseNothing
<1>. HIDE DEF bs
<1>8. PICK new : new = bs
  OBVIOUS
<1>. QED
  BY <1>1, <1>2, <1>3, <1>5, <1>6, <1>7, <1>8, BracketsMoved

LEMMA StartFacts ==
  ASSUME NEW S \in SUBSET Nat, Stacked(S), NEW floor \in Place(S), StartEmphasis(floor)
  PROVE  /\ emph' = [floor |-> emph'.floor, closer |-> emph'.closer, bottoms |-> emph'.bottoms]
         /\ emph'.floor = floor /\ pc' = "emph"
         /\ emph'.closer \in {0} \cup {i \in S : floor < i}
<1>1. FirstCloser(delims, floor) \in {0} \cup {i \in S : floor < i}
  BY FirstCloserFacts DEF Stacked
<1>. DEFINE first == FirstCloser(delims, floor)
<1>2. /\ emph' = [floor |-> floor, closer |-> first, bottoms |-> [k \in Classes |-> floor]]
      /\ pc' = "emph"
  BY DEF StartEmphasis
<1>. HIDE DEF first
<1>. QED
  BY <1>1, <1>2 DEF first

LEMMA MakeLinkStacked ==
  ASSUME StackIInv, MakeLink
  PROVE  StacksNext
<1>. DEFINE opener == Last(brackets)
<1>1. /\ pc = "scan" /\ brackets # <<>> /\ UNCHANGED stacks
      /\ link' = [node |-> used + 1, back |-> pos + 1]
      /\ StartEmphasis(Last(brackets).floor)
  BY Zenon DEF MakeLink, At, Openable
<1>2. PICK S \in SUBSET Nat :
        /\ Stacked(S)
        /\ \A i \in 1..Len(brackets) :
             /\ brackets[i].floor \in Place(S)
             /\ \A j \in 1..Len(brackets) : i <= j => brackets[i].floor <= brackets[j].floor
  BY <1>1, Scanning
<1>3. brackets \in Seq(Brackets) /\ ArenaOk
  BY <1>1, Scanning
<1>4. PICK nodes, t : Pushed(nodes, t) /\ Len(nodes) \in Nat
  <2>1. PICK kind, t : Pushed(<<Container(kind)>>, t)
    BY Zenon DEF MakeLink
  <2>2. Len(<<Container(kind)>>) \in Nat
    OBVIOUS
  <2>. QED
    BY <2>1, <2>2, Zenon
<1>5. Len(brackets) \in 1..Len(brackets) /\ Last(brackets) = brackets[Len(brackets)]
  BY <1>1, <1>3 DEF Last
<1>. DEFINE floor == Last(brackets).floor
<1>6. floor \in Place(S) /\ floor = brackets[Len(brackets)].floor
  BY <1>2, <1>5
<1>7. /\ emph' = [floor |-> emph'.floor, closer |-> emph'.closer, bottoms |-> emph'.bottoms]
      /\ emph'.floor = floor /\ pc' = "emph"
      /\ emph'.closer \in {0} \cup {i \in S : floor < i}
  BY <1>1, <1>2, <1>6, StartFacts
<1>. HIDE DEF floor
<1>8. UNCHANGED delims /\ UNCHANGED brackets
  BY <1>1 DEF stacks
<1>9. /\ ArenaOk' /\ SlabOk(delims)' /\ Backward(delims)' /\ Chained(delims, S)'
      /\ Unspent(S)' /\ Rising'
  BY <1>2, <1>3, <1>4, <1>8, PushedUnder
<1>10. FloorsIn(S)'
  BY <1>2, <1>8 DEF FloorsIn
<1>11. ClosersIn(S)'
  BY <1>1, <1>6, <1>7, <1>8 DEF ClosersIn
<1>12. Stacked(S)'
  BY <1>9, <1>10, <1>11 DEF Stacked
<1>. QED
  BY <1>3, <1>8, <1>9, <1>12 DEF StacksNext

LEMMA FinishStacked ==
  ASSUME StackIInv, FinishBlock
  PROVE  StacksNext
<1>1. pc = "scan" /\ StartEmphasis(0) /\ UNCHANGED <<used, lit, delims, brackets, link>>
  BY DEF FinishBlock, arena, stacks
<1>2. PICK S \in SUBSET Nat : Stacked(S)
  BY <1>1, Scanning
<1>3. brackets \in Seq(Brackets) /\ ArenaOk /\ link.node = Nil
  BY <1>1, Scanning DEF MemoInv, LinkOnlyHere
<1>4. 0 \in Place(S)
  BY DEF Place
<1>5. /\ emph' = [floor |-> emph'.floor, closer |-> emph'.closer, bottoms |-> emph'.bottoms]
      /\ emph'.floor = 0 /\ pc' = "emph"
      /\ emph'.closer \in {0} \cup {i \in S : 0 < i}
  BY <1>1, <1>2, <1>4, StartFacts
<1>6. FloorsIn(S)'
  BY <1>1, <1>3, <1>5 DEF FloorsIn, FloorsMatter
<1>7. ClosersIn(S)'
  BY <1>1, <1>3, <1>4, <1>5 DEF ClosersIn
<1>8. SlabOk(delims)' /\ Backward(delims)' /\ Chained(delims, S)' /\ Unspent(S)' /\ Rising'
  BY <1>1, <1>2 DEF Stacked, Unspent, Rising, slot
<1>9. Stacked(S)'
  BY <1>6, <1>7, <1>8 DEF Stacked
<1>. QED
  BY <1>1, <1>3, <1>9 DEF StacksNext, ArenaOk

\* What the invariant says while emphasis is processed.
LEMMA AtWork ==
  ASSUME StackIInv, pc = "emph"
  PROVE  /\ brackets \in Seq(Brackets) /\ ArenaOk /\ MemoInv
         /\ \E S \in SUBSET Nat :
              /\ Stacked(S)
              /\ emph = [floor |-> emph.floor, closer |-> emph.closer, bottoms |-> emph.bottoms]
              /\ emph.floor \in Place(S)
              /\ emph.closer \in {0} \cup {i \in S : emph.floor < i}
BY DEF StackIInv, Parsing, Stacked, ClosersIn

\* What is on the stack up to the floor keeps the floors of the brackets.
LEMMA FloorsKept ==
  ASSUME NEW S \in SUBSET Nat, Stacked(S), pc = "emph", NEW T \in SUBSET Nat,
         {j \in S : j <= emph.floor} \subseteq T, brackets \in Seq(Brackets), link.node # Nil
  PROVE  \A i \in 1..Len(brackets) :
           /\ brackets[i].floor \in Place(T)
           /\ \A j \in 1..Len(brackets) : i <= j => brackets[i].floor <= brackets[j].floor
<1>1. /\ brackets # <<>> /\ emph.floor = brackets[Len(brackets)].floor
      /\ \A i \in 1..Len(brackets) :
           /\ brackets[i].floor \in Place(S)
           /\ \A j \in 1..Len(brackets) : i <= j => brackets[i].floor <= brackets[j].floor
  BY DEF Stacked, FloorsIn, ClosersIn, FloorsMatter
<1>2. Len(brackets) \in 1..Len(brackets) /\ \A i \in 1..Len(brackets) : i <= Len(brackets)
  BY <1>1
<1>3. \A i \in 1..Len(brackets) : brackets[i].floor <= emph.floor
  BY <1>1, <1>2
<1>. QED
  BY <1>1, <1>3 DEF Place

\* A step of the loop over the closers.
LEMMA LoopStacked ==
  ASSUME NEW S \in SUBSET Nat, Stacked(S), pc = "emph", NEW T \in SUBSET Nat,
         {j \in S : j <= emph.floor} \subseteq T, brackets \in Seq(Brackets),
         SlabOk(delims)', Backward(delims)', Chained(delims, T)', Unspent(T)', Rising', ArenaOk',
         UNCHANGED <<brackets, link, pc>>,
         emph' = [floor |-> emph.floor, closer |-> emph'.closer, bottoms |-> emph'.bottoms],
         emph'.closer \in {0} \cup {i \in T : emph.floor < i}
  PROVE  StacksNext
<1>1. emph'.floor = emph.floor
  OBVIOUS
<1>2. emph.floor \in Place(T)
  BY DEF Stacked, ClosersIn, Place
<1>3. FloorsIn(T)'
  BY FloorsKept DEF FloorsIn, FloorsMatter
<1>4. ClosersIn(T)'
  BY <1>1, <1>2 DEF ClosersIn, Stacked
<1>5. Stacked(T)'
  BY <1>3, <1>4 DEF Stacked
<1>. QED
  BY <1>5 DEF StacksNext

LEMMA SkipStacked ==
  ASSUME StackIInv, SkipOpener
  PROVE  StacksNext
<1>. DEFINE c == emph.closer
            n == slot[c].next
<1>1. pc = "emph" /\ c # 0 /\ emph' = [emph EXCEPT !.closer = n]
      /\ UNCHANGED <<used, lit, delims, brackets, link, pc>>
  BY DEF SkipOpener, AtCloser, NextCloser, arena, stacks
<1>2. PICK S \in SUBSET Nat :
        /\ Stacked(S)
        /\ emph = [floor |-> emph.floor, closer |-> emph.closer, bottoms |-> emph.bottoms]
        /\ emph.floor \in Place(S)
        /\ emph.closer \in {0} \cup {i \in S : emph.floor < i}
  BY <1>1, AtWork
<1>3. brackets \in Seq(Brackets) /\ ArenaOk
  BY <1>1, AtWork
<1>4. c \in S /\ emph.floor < c /\ emph.floor \in Nat /\ c \in Nat
  BY <1>1, <1>2 DEF Place
<1>5. Over(S, c, n)
  BY <1>2, <1>4 DEF Stacked, Chained, slot
<1>. HIDE DEF n
<1>6. n \in {0} \cup {i \in S : emph.floor < i}
  BY <1>4, <1>5 DEF Over
<1>7. emph' = [floor |-> emph.floor, closer |-> n, bottoms |-> emph.bottoms]
  BY <1>1, <1>2
<1>8. emph' = [floor |-> emph.floor, closer |-> emph'.closer, bottoms |-> emph'.bottoms] /\ emph'.closer = n
  BY <1>7
<1>9. /\ SlabOk(delims)' /\ Backward(delims)' /\ Chained(delims, S)' /\ Unspent(S)' /\ Rising'
      /\ ArenaOk'
  BY <1>1, <1>2, <1>3 DEF Stacked, Unspent, Rising, slot, ArenaOk
<1>10. {j \in S : j <= emph.floor} \subseteq S
  OBVIOUS
<1>. QED
  BY <1>1, <1>2, <1>3, <1>6, <1>8, <1>9, <1>10, LoopStacked

\* Leaving the stack changes nothing about the delimiters that stay.
LEMMA StillUnspent ==
  ASSUME NEW S \in SUBSET Nat, Stacked(S), NEW T, T \subseteq S, NEW ds, delims' = ds,
         SameRuns(delims, ds), UNCHANGED <<used, lit>>
  PROVE  Unspent(T)' /\ Rising'
<1>1. slot' = ds.slot /\ S \subseteq 1..Len(slot)
  BY DEF slot, Stacked, Chained
<1>2. /\ Len(ds.slot) = Len(slot)
      /\ \A i \in 1..Len(slot) : /\ ds.slot[i].cc = slot[i].cc /\ ds.slot[i].num = slot[i].num
                                 /\ ds.slot[i].node = slot[i].node
  BY DEF SameRuns, slot
<1>. HIDE DEF slot
<1>3. Unspent(T)'
  BY <1>1, <1>2 DEF Stacked, Unspent
<1>4. Rising'
  BY <1>1, <1>2 DEF Stacked, Rising
<1>. QED
  BY <1>3, <1>4

LEMMA NoOpenerStacked ==
  ASSUME StackIInv, NoOpener
  PROVE  StacksNext
<1>. DEFINE c == emph.closer
            n == slot[c].next
            p == slot[c].prev
            k == Class(c)
<1>1. /\ pc = "emph" /\ c # 0 /\ UNCHANGED <<used, lit, brackets, link, pc>>
      /\ emph' = [emph EXCEPT !.closer = n, !.bottoms[k] = p]
      /\ delims' = IF slot[c].open THEN delims ELSE Removed(delims, c)
  BY Zenon DEF NoOpener, AtCloser, NextCloser, arena
<1>2. PICK S \in SUBSET Nat :
        /\ Stacked(S)
        /\ emph = [floor |-> emph.floor, closer |-> emph.closer, bottoms |-> emph.bottoms]
        /\ emph.floor \in Place(S)
        /\ emph.closer \in {0} \cup {i \in S : emph.floor < i}
  BY <1>1, AtWork
<1>3. brackets \in Seq(Brackets) /\ ArenaOk
  BY <1>1, AtWork
<1>4. c \in S /\ emph.floor < c /\ emph.floor \in Nat /\ c \in Nat
  BY <1>1, <1>2 DEF Place
<1>5. Over(S, c, n)
  BY <1>2, <1>4 DEF Stacked, Chained, slot
<1>. HIDE DEF n, p, k
<1>6. n \in {0} \cup {i \in S \ {c} : emph.floor < i}
  BY <1>4, <1>5 DEF Over
<1>. DEFINE bottoms == [emph.bottoms EXCEPT ![k] = p]
<1>7. emph' = [floor |-> emph.floor, closer |-> n, bottoms |-> bottoms]
  <2>1. [emph EXCEPT !.closer = n, !.bottoms[k] = p] = [floor |-> emph.floor, closer |-> n, bottoms |-> bottoms]
    <3>. DEFINE e == [emph EXCEPT !.closer = n]
    <3>1. e = [floor |-> emph.floor, closer |-> n, bottoms |-> emph.bottoms]
      BY <1>2
    <3>2. [emph EXCEPT !.closer = n, !.bottoms[k] = p] = [e EXCEPT !.bottoms[k] = p]
      BY Zenon
    <3>. HIDE DEF e
    <3>3. [e EXCEPT !.bottoms[k] = p] = [e EXCEPT !.bottoms = [e.bottoms EXCEPT ![k] = p]]
      BY Zenon
    <3>. QED
      BY <3>1, <3>2, <3>3
  <2>. QED
    BY <1>1, <2>1
<1>. HIDE DEF bottoms
<1>8. emph' = [floor |-> emph.floor, closer |-> emph'.closer, bottoms |-> emph'.bottoms] /\ emph'.closer = n
  BY <1>7
<1>9. ArenaOk'
  BY <1>1, <1>3 DEF ArenaOk
<1>10. SlabOk(delims) /\ Backward(delims) /\ Chained(delims, S)
  BY <1>2 DEF Stacked
<1>11. CASE slot[c].open
  <2>1. SlabOk(delims)' /\ Backward(delims)' /\ Chained(delims, S)' /\ Unspent(S)' /\ Rising'
    BY <1>1, <1>2, <1>11 DEF Stacked, Unspent, Rising, slot
  <2>2. {j \in S : j <= emph.floor} \subseteq S
    OBVIOUS
  <2>3. n \in {0} \cup {i \in S : emph.floor < i}
    BY <1>6
  <2>. QED
    BY <1>1, <1>2, <1>3, <1>8, <1>9, <2>1, <2>2, <2>3, LoopStacked
<1>12. CASE ~slot[c].open
  <2>1. PICK ds : ds = Removed(delims, c)
    OBVIOUS
  <2>2. delims' = ds
    BY <1>1, <1>12, <2>1
  <2>3. SlabOk(ds) /\ Backward(ds) /\ Chained(ds, S \ {c}) /\ SameRuns(delims, ds)
    BY <1>4, <1>10, <2>1, RemovedChain
  <2>4. PICK T : T = S \ {c}
    OBVIOUS
  <2>5. T \in SUBSET Nat /\ T \subseteq S /\ {j \in S : j <= emph.floor} \subseteq T
    <3>1. \A j \in S : j <= emph.floor => j # c
      BY <1>4
    <3>. HIDE DEF c
    <3>. QED
      BY <2>4, <3>1
  <2>6. SlabOk(delims)' /\ Backward(delims)' /\ Chained(delims, T)'
    BY <2>2, <2>3, <2>4
  <2>7. Unspent(T)' /\ Rising'
    BY <1>1, <1>2, <2>2, <2>3, <2>5, StillUnspent
  <2>8. n \in {0} \cup {i \in T : emph.floor < i}
    BY <1>6, <2>4
  <2>. QED
    BY <1>1, <1>2, <1>3, <1>8, <1>9, <2>5, <2>6, <2>7, <2>8, LoopStacked
<1>. QED
  BY <1>11, <1>12

LEMMA EndStacked ==
  ASSUME StackIInv, EndEmphasis
  PROVE  StacksNext
<1>1. /\ pc = "emph" /\ delims' = Dropped(emph.floor) /\ UNCHANGED <<used, lit, brackets, link>>
      /\ \/ link.node # Nil /\ pc' = "link"
         \/ link.node = Nil /\ pc' \in {"linkify", "done", "begin"}
  BY DEF EndEmphasis, NextBlock, arena
<1>2. PICK S \in SUBSET Nat :
        /\ Stacked(S)
        /\ emph = [floor |-> emph.floor, closer |-> emph.closer, bottoms |-> emph.bottoms]
        /\ emph.floor \in Place(S)
        /\ emph.closer \in {0} \cup {i \in S : emph.floor < i}
  BY <1>1, AtWork
<1>3. brackets \in Seq(Brackets) /\ ArenaOk /\ ArenaOk'
  BY <1>1, AtWork DEF ArenaOk
<1>4. CASE link.node = Nil
  BY <1>1, <1>3, <1>4 DEF StacksNext, Parsing
<1>5. CASE link.node # Nil
  <2>1. PICK ds : ds = Dropped(emph.floor)
    OBVIOUS
  <2>2. PICK T : T = {j \in S : j <= emph.floor}
    OBVIOUS
  <2>3. SlabOk(delims) /\ Backward(delims) /\ Chained(delims, S)
    BY <1>2 DEF Stacked
  <2>. DEFINE floor == emph.floor
  <2>4. floor \in Place(S)
    BY <1>2
  <2>5. SlabOk(ds) /\ Backward(ds) /\ SameRuns(delims, ds) /\ Chained(ds, T)
    <3>. HIDE DEF floor
    <3>1. /\ SlabOk(Dropped(floor)) /\ Backward(Dropped(floor)) /\ SameRuns(delims, Dropped(floor))
          /\ Chained(Dropped(floor), {j \in S : j <= floor})
      BY <2>3, <2>4, DroppedFacts
    <3>. QED
      BY <2>1, <2>2, <3>1 DEF floor
  <2>6. T \in SUBSET Nat /\ T \subseteq S /\ {j \in S : j <= emph.floor} \subseteq T
    BY <2>2
  <2>7. delims' = ds
    BY <1>1, <2>1
  <2>8. SlabOk(delims)' /\ Backward(delims)' /\ Chained(delims, T)'
    BY <2>5, <2>7
  <2>9. Unspent(T)' /\ Rising'
    BY <1>1, <1>2, <2>5, <2>6, <2>7, StillUnspent
  <2>10. FloorsIn(T)'
    BY <1>1, <1>2, <1>3, <1>5, <2>6, FloorsKept DEF FloorsIn
  <2>11. ClosersIn(T)'
    BY <1>1, <1>5 DEF ClosersIn
  <2>12. Stacked(T)'
    BY <2>8, <2>9, <2>10, <2>11 DEF Stacked
  <2>. QED
    BY <1>1, <1>3, <2>6, <2>12 DEF StacksNext
<1>. QED
  BY <1>4, <1>5

LEMMA KeepStacked ==
  ASSUME StackIInv, KeepLink
  PROVE  StacksNext
<1>1. /\ pc = "link" /\ pc' = "scan" /\ UNCHANGED <<used, lit, delims>>
      /\ brackets' = Deactivated(Front(brackets)) \/ brackets' = Front(brackets)
  BY DEF KeepLink
<1>2. brackets \in Seq(Brackets) /\ ArenaOk /\ \E S \in SUBSET Nat : Stacked(S)
  BY <1>1 DEF StackIInv, Parsing
<1>3. PICK S \in SUBSET Nat : Stacked(S)
  BY <1>2
<1>. DEFINE bs == Front(brackets)
<1>4. /\ bs \in Seq(Brackets)
      /\ \A i \in 1..Len(bs) :
           /\ bs[i].floor \in Place(S)
           /\ \A j \in 1..Len(bs) : i <= j => bs[i].floor <= bs[j].floor
  <2>1. \A i \in 1..Len(brackets) :
          /\ brackets[i].floor \in Place(S)
          /\ \A j \in 1..Len(brackets) : i <= j => brackets[i].floor <= brackets[j].floor
    BY <1>1, <1>3 DEF Stacked, FloorsIn, FloorsMatter
  <2>. QED
    BY <1>2, <2>1, FrontFacts
<1>. HIDE DEF bs
<1>5. /\ Deactivated(bs) \in Seq(Brackets) /\ Len(Deactivated(bs)) = Len(bs)
      /\ \A i \in 1..Len(bs) : Deactivated(bs)[i].floor = bs[i].floor
  BY <1>4, DeactivatedFacts
<1>6. PICK new \in Seq(Brackets) :
        /\ brackets' = new /\ Len(new) = Len(bs) /\ \A i \in 1..Len(bs) : new[i].floor = bs[i].floor
  <2>1. CASE brackets' = bs
    BY <1>4, <2>1
  <2>2. CASE brackets' = Deactivated(bs)
    BY <1>5, <2>2
  <2>. QED
    BY <1>1, <2>1, <2>2 DEF bs
<1>7. FloorsIn(S)'
  BY <1>4, <1>6 DEF FloorsIn
<1>8. ClosersIn(S)'
  BY <1>1 DEF ClosersIn
<1>9. SlabOk(delims)' /\ Backward(delims)' /\ Chained(delims, S)' /\ Unspent(S)' /\ Rising'
  BY <1>1, <1>3 DEF Stacked, Unspent, Rising, slot
<1>10. Stacked(S)'
  BY <1>7, <1>8, <1>9 DEF Stacked
<1>. QED
  BY <1>1, <1>2, <1>6, <1>10 DEF StacksNext, ArenaOk

LEMMA TakeBackStacked ==
  ASSUME StackIInv, TakeBackLink
  PROVE  StacksNext
<1>1. pc = "link" /\ pc' = "scan" /\ UNCHANGED delims /\ brackets' = Front(brackets)
  BY DEF TakeBackLink
<1>2. brackets \in Seq(Brackets) /\ ArenaOk /\ \E S \in SUBSET Nat : Stacked(S)
  BY <1>1 DEF StackIInv, Parsing
<1>3. PICK S \in SUBSET Nat : Stacked(S)
  BY <1>2
<1>. DEFINE bs    == Front(brackets)
            nodes == <<Text(<<"]">>)>>
            t     == AppendChild(Restored(tree, link.node), This, used + 1)
<1>4. /\ bs \in Seq(Brackets)
      /\ \A i \in 1..Len(bs) :
           /\ bs[i].floor \in Place(S)
           /\ \A j \in 1..Len(bs) : i <= j => bs[i].floor <= bs[j].floor
  <2>1. \A i \in 1..Len(brackets) :
          /\ brackets[i].floor \in Place(S)
          /\ \A j \in 1..Len(brackets) : i <= j => brackets[i].floor <= brackets[j].floor
    BY <1>1, <1>3 DEF Stacked, FloorsIn, FloorsMatter
  <2>. QED
    BY <1>2, <2>1, FrontFacts
<1>5. Pushed(nodes, t) /\ Len(nodes) \in Nat
  BY DEF TakeBackLink
<1>. HIDE DEF bs, nodes, t
<1>6. PICK new : new = bs
  OBVIOUS
<1>7. brackets' = new
  BY <1>1, <1>6 DEF bs
<1>8. PICK u, ns : Pushed(ns, u) /\ Len(ns) \in Nat
  BY <1>5
<1>. QED
  BY <1>1, <1>2, <1>3, <1>4, <1>6, <1>7, <1>8, BracketsMoved

LEMMA BeginStacked ==
  ASSUME StackIInv, BeginBlock
  PROVE  StacksNext
<1>1. /\ pc' = "scan" /\ UNCHANGED <<used, lit>> /\ brackets' = <<>>
      /\ delims' = [slot |-> <<>>, top |-> 0]
  BY DEF BeginBlock, arena, NoDelims
<1>2. ArenaOk'
  BY <1>1 DEF StackIInv, ArenaOk
<1>3. SlabOk(delims)' /\ Len(delims'.slot) = 0 /\ Len(slot') = 0
  BY <1>1 DEF SlabOk, slot
<1>4. Backward(delims)' /\ Chained(delims, {})' /\ Unspent({})' /\ Rising'
  BY <1>1, <1>3 DEF Backward, Chained, Unspent, Rising
<1>5. FloorsIn({})' /\ ClosersIn({})'
  BY <1>1 DEF FloorsIn, ClosersIn
<1>6. Stacked({})'
  BY <1>3, <1>4, <1>5 DEF Stacked
<1>. QED
  BY <1>1, <1>2, <1>6 DEF StacksNext

LEMMA LinkifyStacked ==
  ASSUME StackIInv, Linkify
  PROVE  StacksNext
<1>1. ArenaOk
  BY DEF StackIInv
<1>2. pc' \notin {"scan", "emph", "link"}
  BY Zenon DEF Linkify, LinkifyText, LinkifySkip, LinkifyNext, LinkifyDone, AtChild, NextBlock
<1>3. ArenaOk'
  <2>1. CASE LinkifyText
    <3>1. \/ UNCHANGED used /\ \E n, text : lit' = [lit EXCEPT ![n] = text]
          \/ \E nodes, t : Pushed(nodes, t)
      BY <2>1, Zenon DEF LinkifyText
    <3>2. CASE UNCHANGED used /\ \E n, text : lit' = [lit EXCEPT ![n] = text]
      BY <1>1, <3>2 DEF ArenaOk
    <3>3. ASSUME NEW nodes, NEW t, Pushed(nodes, t) PROVE ArenaOk'
      BY <3>3 DEF Pushed, Pushes, ArenaOk
    <3>. QED
      BY <3>1, <3>2, <3>3
  <2>2. CASE LinkifySkip \/ LinkifyNext \/ LinkifyDone
    <3>1. UNCHANGED arena
      BY <2>2, Zenon DEF LinkifySkip, LinkifyNext, LinkifyDone
    <3>. QED
      BY <1>1, <3>1 DEF arena, ArenaOk
  <2>. QED
    BY <2>1, <2>2 DEF Linkify
<1>. QED
  BY <1>2, <1>3 DEF StacksNext, Parsing

\* What is left of a run of delimiters.
LEMMA LessText ==
  ASSUME NEW n \in Nat, NEW use \in Nat, use <= n, NEW cc, NEW text, text = [k \in 1..n |-> cc]
  PROVE  SubSeq(text, 1, Len(text) - use) = [k \in 1..(n - use) |-> cc]
<1>. DEFINE m == n - use
<1>1. m \in Nat /\ m <= n /\ Len(text) = n /\ text \in Seq({cc})
  OBVIOUS
<1>. HIDE DEF m
<1>2. SubSeq(text, 1, m) = [k \in 1..m |-> text[k]]
  BY <1>1
<1>3. \A k \in 1..m : text[k] = cc
  BY <1>1
<1>. QED
  BY <1>1, <1>2, <1>3 DEF m

LEMMA UsedFacts ==
  ASSUME NEW o, NEW c, slot[o].num \in Nat, slot[c].num \in Nat, slot[o].num > 0, slot[c].num > 0,
         Matches(o, c)
  PROVE  /\ UseDelims(o, c) \in Nat
         /\ UseDelims(o, c) <= slot[o].num /\ UseDelims(o, c) <= slot[c].num
<1>1. CASE slot[c].cc = "~"
  <2>1. UseDelims(o, c) = slot[c].num
    BY <1>1 DEF UseDelims
  <2>2. slot[o].num = slot[c].num
    BY <1>1 DEF Matches
  <2>. QED
    BY <2>1, <2>2
<1>2. CASE slot[c].cc # "~" /\ slot[c].num >= 2 /\ slot[o].num >= 2
  <2>1. UseDelims(o, c) = 2
    BY <1>2 DEF UseDelims
  <2>. QED
    BY <1>2, <2>1
<1>3. CASE slot[c].cc # "~" /\ ~(slot[c].num >= 2 /\ slot[o].num >= 2)
  <2>1. UseDelims(o, c) = 1
    BY <1>3 DEF UseDelims
  <2>. QED
    BY <2>1
<1>. QED
  BY <1>1, <1>2, <1>3

\* The slab after a match, and what is left of S.
MatchedSlab(o, c, use) ==
  LET ds1 == IF slot[o].num = use THEN Removed(NarrowedSlab(o, c, use), o)
             ELSE NarrowedSlab(o, c, use)
  IN  IF slot[c].num = use THEN Removed(ds1, c) ELSE ds1

Unmatched(S, o, c, use) ==
  {j \in S : /\ j <= o \/ c <= j
             /\ j = o => slot[o].num # use
             /\ j = c => slot[c].num # use}

LEMMA RemovedLess ==
  ASSUME NEW ds, SlabOk(ds), Backward(ds), NEW S, Chained(ds, S), NEW d \in S,
         NEW o, NEW c, NEW use, LessRuns(ds, o, c, use)
  PROVE  /\ SlabOk(Removed(ds, d)) /\ Backward(Removed(ds, d))
         /\ Chained(Removed(ds, d), S \ {d}) /\ LessRuns(Removed(ds, d), o, c, use)
<1>. DEFINE es == Removed(ds, d)
<1>1. SlabOk(es) /\ Backward(es) /\ Chained(es, S \ {d}) /\ SameRuns(ds, es)
  BY RemovedChain
<1>. HIDE DEF es
<1>2. LessRuns(es, o, c, use)
  BY <1>1 DEF SameRuns, LessRuns
<1>. QED
  BY <1>1, <1>2 DEF es

LEMMA MatchedChain ==
  ASSUME SlabOk(delims), Backward(delims), NEW S \in SUBSET Nat, Chained(delims, S),
         NEW o \in S, NEW c \in S, o < c, NEW use \in Nat,
         use <= slot[o].num, use <= slot[c].num
  PROVE  /\ SlabOk(MatchedSlab(o, c, use)) /\ Backward(MatchedSlab(o, c, use))
         /\ Chained(MatchedSlab(o, c, use), Unmatched(S, o, c, use))
         /\ LessRuns(MatchedSlab(o, c, use), o, c, use)
<1>. DEFINE ds  == NarrowedSlab(o, c, use)
            ds1 == IF slot[o].num = use THEN Removed(ds, o) ELSE ds
            ds2 == IF slot[c].num = use THEN Removed(ds1, c) ELSE ds1
            T   == Around(S, o, c)
            T1  == IF slot[o].num = use THEN T \ {o} ELSE T
            T2  == IF slot[c].num = use THEN T1 \ {c} ELSE T1
            Good(es, X) == SlabOk(es) /\ Backward(es) /\ Chained(es, X) /\ LessRuns(es, o, c, use)
<1>0. o \in Nat /\ c \in Nat /\ o \in T /\ c \in T /\ o # c
  BY DEF Around
<1>1. Good(ds, T)
  BY NarrowedChain
<1>. HIDE DEF T, ds
<1>2. ASSUME NEW es, NEW X, NEW d \in X, Good(es, X) PROVE Good(Removed(es, d), X \ {d})
  BY <1>2, RemovedLess
<1>. HIDE DEF Good
<1>3. Good(ds1, T1) /\ c \in T1
  <2>1. CASE slot[o].num = use
    BY <1>0, <1>1, <1>2, <2>1
  <2>2. CASE slot[o].num # use
    BY <1>0, <1>1, <2>2
  <2>. QED
    BY <2>1, <2>2
<1>. HIDE DEF ds1, T1
<1>4. Good(ds2, T2)
  <2>1. CASE slot[c].num = use
    BY <1>2, <1>3, <2>1
  <2>2. CASE slot[c].num # use
    BY <1>3, <2>2
  <2>. QED
    BY <2>1, <2>2
<1>5. T2 = Unmatched(S, o, c, use)
  BY <1>0 DEF T, T1, Around, Unmatched
<1>6. ds2 = MatchedSlab(o, c, use)
  BY Zenon DEF MatchedSlab, ds1, ds
<1>. HIDE DEF ds2, T2
<1>. QED
  BY <1>4, <1>5, <1>6 DEF Good

LEMMA MatchStacked ==
  ASSUME StackIInv, MatchDelims
  PROVE  StacksNext
<1>. DEFINE c     == emph.closer
            o     == Opener(c)
            use   == UseDelims(o, c)
            on    == slot[o].node
            cn    == slot[c].node
            less(text) == SubSeq(text, 1, Len(text) - use)
<1>1. /\ pc = "emph" /\ c # 0 /\ Pairs(o, c) /\ Pushes(1)
      /\ lit' = [lit EXCEPT ![on] = less(@), ![cn] = less(@)]
      /\ delims' = MatchedSlab(o, c, use)
      /\ emph' = IF slot[c].num = use THEN [emph EXCEPT !.closer = NextCloser(c)] ELSE emph
      /\ UNCHANGED <<brackets, link, pc>>
  BY Zenon DEF MatchDelims, AtCloser, MatchedSlab, NarrowedSlab
<1>2. PICK S \in SUBSET Nat :
        /\ Stacked(S)
        /\ emph = [floor |-> emph.floor, closer |-> emph.closer, bottoms |-> emph.bottoms]
        /\ emph.floor \in Place(S)
        /\ emph.closer \in {0} \cup {i \in S : emph.floor < i}
  BY <1>1, AtWork
<1>3. brackets \in Seq(Brackets) /\ ArenaOk
  BY <1>1, AtWork
<1>4. c \in S /\ emph.floor < c /\ emph.floor \in Nat /\ c \in Nat
  BY <1>1, <1>2 DEF Place
<1>5. SlabOk(delims) /\ Backward(delims) /\ Chained(delims, S) /\ S \subseteq 1..Len(slot)
  BY <1>2 DEF Stacked, Chained, slot
<1>6. o \in S /\ emph.floor < o /\ o < c /\ Matches(o, c) /\ o \in Nat
  <2>1. o # 0
    BY <1>1 DEF Pairs
  <2>2. o \in {0} \cup {i \in S : emph.floor < i /\ i < c /\ Matches(i, c)}
    BY <1>2, <1>4, <1>5, OpenerFacts DEF Opener
  <2>. HIDE DEF o, c
  <2>. QED
    BY <2>1, <2>2
<1>7. /\ \A i \in S : slot[i].num \in Nat /\ slot[i].num > 0 /\ slot[i].node \in Node
      /\ \A i \in S : lit[slot[i].node] = [k \in 1..slot[i].num |-> slot[i].cc]
  BY <1>2, <1>5, SlotTyped DEF Stacked, Unspent
<1>8. use \in Nat /\ use <= slot[o].num /\ use <= slot[c].num
  <2>1. /\ slot[o].num \in Nat /\ slot[c].num \in Nat /\ slot[o].num > 0 /\ slot[c].num > 0
    BY <1>4, <1>6, <1>7
  <2>. QED
    BY <1>6, <2>1, UsedFacts
<1>9. Over(S, c, slot[c].next)
  BY <1>4, <1>5 DEF Chained, slot
<1>. HIDE DEF o, c, use
<1>10. PICK T : T = Unmatched(S, o, c, use)
  OBVIOUS
<1>11. PICK es : es = MatchedSlab(o, c, use)
  OBVIOUS
<1>12. SlabOk(es) /\ Backward(es) /\ Chained(es, T) /\ LessRuns(es, o, c, use)
  <2>1. o < c
    BY <1>6
  <2>. QED
    BY <1>4, <1>5, <1>6, <1>8, <1>10, <1>11, <2>1, MatchedChain
<1>13. delims' = es /\ slot' = es.slot
  BY <1>1, <1>11 DEF slot
<1>21. /\ Len(es.slot) = Len(slot)
       /\ \A i \in 1..Len(slot) :
            /\ es.slot[i].cc = slot[i].cc /\ es.slot[i].node = slot[i].node
            /\ es.slot[i].num = IF i \in {o, c} THEN slot[i].num - use ELSE slot[i].num
  BY <1>12 DEF LessRuns
<1>14. T \in SUBSET Nat /\ T \subseteq S /\ {j \in S : j <= emph.floor} \subseteq T
  <2>1. \A j \in S : j <= emph.floor => j <= o /\ j # o /\ j # c
    BY <1>4, <1>6
  <2>. QED
    BY <1>10, <2>1 DEF Unmatched
<1>15. /\ ArenaOk' /\ used \in Nat /\ used' = used + 1
  BY <1>1, <1>3 DEF ArenaOk, Pushes, Node
<1>16. on # cn /\ on \in Node /\ cn \in Node /\ DOMAIN lit = Node
  <2>1. on < cn /\ on \in Node /\ cn \in Node
    BY <1>2, <1>4, <1>5, <1>6, <1>7 DEF Stacked, Rising
  <2>. QED
    BY <1>3, <2>1 DEF ArenaOk, Node
<1>17. /\ lit'[on] = less(lit[on]) /\ lit'[cn] = less(lit[cn])
       /\ \A n \in Node : n # on /\ n # cn => lit'[n] = lit[n]
  <2>. HIDE DEF on, cn, less
  <2>. QED
    BY <1>1, <1>16
<1>18. Unspent(T)'
  <2>1. ASSUME NEW j \in T
        PROVE  es.slot[j].num > 0 /\ lit'[es.slot[j].node] = [k \in 1..es.slot[j].num |-> es.slot[j].cc]
    <3>1. /\ j \in S /\ j \in 1..Len(slot)
          /\ j = o => slot[o].num # use
          /\ j = c => slot[c].num # use
      BY <1>5, <1>10 DEF Unmatched
    <3>. DEFINE n == slot[j].num
                cc == slot[j].cc
                at == slot[j].node
    <3>2. n \in Nat /\ n > 0 /\ at \in Node /\ lit[at] = [k \in 1..n |-> cc]
      BY <1>7, <3>1
    <3>3. /\ es.slot[j].cc = cc /\ es.slot[j].node = at
          /\ es.slot[j].num = IF j \in {o, c} THEN n - use ELSE n
      BY <1>21, <3>1
    <3>4. CASE j \in {o, c}
      <4>1. use <= n /\ n # use
        BY <1>8, <3>1, <3>4
      <4>2. lit'[at] = less(lit[at])
        BY <1>17, <3>4
      <4>3. less(lit[at]) = [k \in 1..(n - use) |-> cc]
        <5>. HIDE DEF at, n, cc
        <5>. QED
          BY <1>8, <3>2, <4>1, LessText
      <4>4. n - use > 0
        <5>. HIDE DEF n
        <5>. QED
          BY <1>8, <3>2, <4>1
      <4>. HIDE DEF at, n, cc, less
      <4>. QED
        BY <3>3, <3>4, <4>2, <4>3, <4>4
    <3>5. CASE j \notin {o, c}
      <4>1. at # on /\ at # cn
        <5>1. j \in Nat /\ \A i \in S : i \in Nat /\ slot[i].node \in Nat
          <6>1. \A m \in Node : m \in Nat
            BY DEF Node
          <6>2. \A i \in S : slot[i].node \in Nat
            BY <1>7, <6>1
          <6>. QED
            BY <3>1, <6>2
        <5>2. \A i, k \in S : i < k => slot[i].node < slot[k].node
          BY <1>2, <1>5 DEF Stacked, Rising
        <5>3. \A i \in {o, c} : i \in S /\ (i < j \/ j < i)
          BY <1>4, <1>6, <3>5, <5>1
        <5>4. ASSUME NEW i \in {o, c} PROVE slot[i].node # slot[j].node
          <6>1. i \in S /\ (i < j \/ j < i) /\ slot[i].node \in Nat /\ slot[j].node \in Nat
            BY <3>1, <5>1, <5>3
          <6>2. slot[i].node < slot[j].node \/ slot[j].node < slot[i].node
            BY <3>1, <5>2, <6>1
          <6>. QED
            BY <6>1, <6>2
        <5>. QED
          BY <5>4
      <4>2. lit'[at] = lit[at]
        BY <1>17, <3>2, <4>1
      <4>. HIDE DEF at, n, cc
      <4>. QED
        BY <3>2, <3>3, <3>5, <4>2
    <3>. QED
      BY <3>4, <3>5
  <2>. QED
    BY <1>13, <2>1 DEF Unspent
<1>19. Rising'
  <2>1. \A i \in 1..Len(slot) : slot[i].node \in Nat
    BY <1>5, SlotTyped DEF Node
  <2>. QED
    BY <1>2, <1>13, <1>15, <1>21, <2>1 DEF Stacked, Rising
<1>20. /\ emph' = [floor |-> emph.floor, closer |-> emph'.closer, bottoms |-> emph'.bottoms]
       /\ emph'.closer \in {0} \cup {i \in T : emph.floor < i}
  <2>1. CASE slot[c].num = use
    <3>. DEFINE n == slot[c].next
    <3>1. emph' = [emph EXCEPT !.closer = n]
      BY <1>1, <2>1 DEF NextCloser
    <3>2. n \in {0} \cup {i \in T : emph.floor < i}
      <4>. HIDE DEF n
      <4>1. n # 0 => n \in S /\ c < n
        BY <1>9 DEF Over, n
      <4>2. n # 0 => n \in Nat /\ c < n
        BY <4>1
      <4>3. n # 0 => c <= n /\ n # c /\ n # o /\ emph.floor < n
        BY <1>4, <1>6, <4>2
      <4>. QED
        BY <1>10, <4>1, <4>3 DEF Unmatched
    <3>. HIDE DEF n
    <3>3. emph' = [floor |-> emph.floor, closer |-> n, bottoms |-> emph.bottoms]
      BY <1>2, <3>1
    <3>. QED
      BY <3>2, <3>3
  <2>2. CASE slot[c].num # use
    <3>1. emph' = emph /\ emph.closer = c
      BY <1>1, <2>2 DEF c
    <3>2. c \in T
      BY <1>4, <1>6, <1>10, <2>2 DEF Unmatched
    <3>. QED
      BY <1>2, <1>4, <3>1, <3>2
  <2>. QED
    BY <2>1, <2>2
<1>22. SlabOk(delims)' /\ Backward(delims)' /\ Chained(delims, T)'
  BY <1>12, <1>13
<1>. QED
  BY <1>1, <1>2, <1>3, <1>14, <1>15, <1>18, <1>19, <1>20, <1>22, LoopStacked

LEMMA StackNext == StackIInv /\ [Next \/ Done]_vars => StackIInv'
<1>. SUFFICES ASSUME StackIInv, [Next \/ Done]_vars PROVE StackIInv'
  OBVIOUS
<1>1. MemoInv'
  BY MemoNext DEF StackIInv
<1>2. CASE UNCHANGED vars
  <2>1. UNCHANGED <<used, lit, delims, brackets, emph, link, pc>>
    BY <1>2 DEF vars, arena, stacks
  <2>2. ArenaOk'
    BY <2>1 DEF StackIInv, ArenaOk
  <2>3. ASSUME NEW S \in SUBSET Nat, Stacked(S) PROVE Stacked(S)'
    <3>1. /\ SlabOk(delims)' /\ Backward(delims)' /\ Chained(delims, S)'
          /\ Unspent(S)' /\ Rising'
      BY <2>1, <2>3 DEF Stacked, Unspent, Rising, slot
    <3>2. FloorsIn(S)' /\ ClosersIn(S)'
      BY <2>1, <2>3 DEF Stacked, FloorsIn, FloorsMatter, ClosersIn
    <3>. QED
      BY <3>1, <3>2 DEF Stacked
  <2>4. Parsing' => brackets' \in Seq(Brackets) /\ \E S \in SUBSET Nat : Stacked(S)'
    BY <2>1, <2>3 DEF StackIInv, Parsing
  <2>. QED
    BY <1>1, <2>2, <2>4 DEF StackIInv
<1>3. CASE Next
  <2>1. StacksNext
    <3>1. CASE BeginBlock
      BY <3>1, BeginStacked
    <3>2. CASE ParseString \/ ParseBackslash \/ ParseBackticks \/ ParseAutolink \/ ParseOne
      BY <3>2, TextsStacked
    <3>3. CASE ParseNewline
      BY <3>3, NewlineStacked
    <3>4. CASE HandleDelim
      BY <3>4, DelimStacked
    <3>5. CASE ParseOpenBracket \/ ParseBang
      BY <3>5, OpenStacked
    <3>6. CASE CloseNothing
      BY <3>6, CloseStacked
    <3>7. CASE MakeLink
      BY <3>7, MakeLinkStacked
    <3>8. CASE FinishBlock
      BY <3>8, FinishStacked
    <3>9. CASE SkipOpener
      BY <3>9, SkipStacked
    <3>10. CASE MatchDelims
      BY <3>10, MatchStacked
    <3>11. CASE NoOpener
      BY <3>11, NoOpenerStacked
    <3>12. CASE EndEmphasis
      BY <3>12, EndStacked
    <3>13. CASE KeepLink
      BY <3>13, KeepStacked
    <3>14. CASE TakeBackLink
      BY <3>14, TakeBackStacked
    <3>15. CASE Linkify
      BY <3>15, LinkifyStacked
    <3>. QED
      BY <1>3, <3>1, <3>2, <3>3, <3>4, <3>5, <3>6, <3>7, <3>8, <3>9, <3>10, <3>11, <3>12,
         <3>13, <3>14, <3>15 DEF Next, ParseInline, ProcessEmphasis
  <2>. QED
    BY <1>1, <2>1 DEF StacksNext, StackIInv
<1>4. CASE Done
  <2>1. UNCHANGED vars
    BY <1>4 DEF Done
  <2>. QED
    BY <1>2, <2>1
<1>. QED
  BY <1>2, <1>3, <1>4

\* The stack read from its top down holds S and nothing else.
LEMMA StackFacts ==
  ASSUME NEW S \in SUBSET Nat, Stacked(S)
  PROVE  /\ Stack \in Seq(S)
         /\ \A i, j \in 1..Len(Stack) : i < j => Stack[i] < Stack[j]
         /\ \A j \in S : \E i \in 1..Len(Stack) : Stack[i] = j
<1>. DEFINE q == DownFrom(delims, delims.top, 0)
            N == Len(q)
<1>1. Lists(delims, S, 0, delims.top, q)
  <2>1. 0 \in Place(S) /\ delims.top \in Place(S) /\ 0 <= delims.top
    BY DEF Stacked, SlabOk, Chained, Place
  <2>. QED
    BY <2>1, DownFacts DEF Stacked
<1>2. Stack = [i \in 1..N |-> q[(N - i) + 1]]
  BY Zenon DEF Stack, Reverse
<1>. HIDE DEF q
<1>3. q \in Seq(S) /\ N \in Nat /\ \A j, k \in 1..N : j < k => q[k] < q[j]
  BY <1>1 DEF Lists
<1>4. \A j \in S : \E k \in 1..N : q[k] = j
  <2>1. \A j \in S : 0 < j /\ j <= delims.top
    BY DEF Stacked, SlabOk, Chained
  <2>. QED
    BY <1>1, <2>1 DEF Lists
<1>. HIDE DEF N
<1>5. \A i \in 1..N : (N - i) + 1 \in 1..N /\ q[(N - i) + 1] \in S
  <2>1. \A k \in 1..N : q[k] \in S
    BY <1>3 DEF N
  <2>. QED
    BY <1>3, <2>1
<1>6. Stack \in Seq(S) /\ Len(Stack) = N /\ \A i \in 1..N : Stack[i] = q[(N - i) + 1]
  BY <1>2, <1>3, <1>5
<1>7. \A i, j \in 1..N : i < j => Stack[i] < Stack[j]
  <2>. TAKE i, j \in 1..N
  <2>. HAVE i < j
  <2>1. (N - j) + 1 < (N - i) + 1
    BY <1>3
  <2>2. q[(N - i) + 1] < q[(N - j) + 1]
    BY <1>3, <1>5, <2>1
  <2>. QED
    BY <1>6, <2>2
<1>8. \A j \in S : \E i \in 1..N : Stack[i] = j
  <2>. TAKE j \in S
  <2>1. PICK k \in 1..N : q[k] = j
    BY <1>4
  <2>2. (N - k) + 1 \in 1..N /\ (N - ((N - k) + 1)) + 1 = k
    BY <1>3
  <2>3. Stack[(N - k) + 1] = j
    BY <1>6, <2>1, <2>2
  <2>. QED
    BY <2>2, <2>3
<1>. QED
  BY <1>6, <1>7, <1>8

LEMMA StackedSound ==
  ASSUME NEW S \in SUBSET Nat, Stacked(S)
  PROVE  StacksSound
<1>. DEFINE N == Len(Stack)
<1>1. /\ Stack \in Seq(S) /\ N \in Nat /\ DOMAIN Stack = 1..N
      /\ \A i, j \in 1..N : i < j => Stack[i] < Stack[j]
      /\ \A j \in S : \E i \in 1..N : Stack[i] = j
  BY StackFacts
<1>2. \A i \in 1..N : Stack[i] \in S /\ Stack[i] \in Nat
  <2>. DEFINE st == Stack
  <2>. HIDE DEF st
  <2>1. \A i \in 1..Len(st) : st[i] \in S
    BY <1>1 DEF st
  <2>. QED
    BY <2>1 DEF st
<1>. HIDE DEF N
<1>3. ASSUME NEW i \in 1..N
      PROVE  slot[Stack[i]].next = IF i = N THEN 0 ELSE Stack[i + 1]
  <2>. DEFINE s == Stack[i]
              n == slot[Stack[i]].next
  <2>1. s \in S /\ Over(S, s, n)
    BY <1>2 DEF Stacked, Chained, slot
  <2>2. CASE i = N
    <3>1. \A j \in S : j <= s
      <4>. TAKE j \in S
      <4>1. PICK k \in 1..N : Stack[k] = j
        BY <1>1
      <4>2. k = N \/ k < N
        BY <1>1
      <4>. QED
        BY <1>1, <1>2, <2>2, <4>1, <4>2
    <3>2. s \in Nat /\ \A j \in S : j \in Nat
      BY <1>2
    <3>. HIDE DEF s, n
    <3>3. n = 0
      BY <2>1, <3>1, <3>2 DEF Over
    <3>. QED
      BY <2>2, <3>3 DEF n
  <2>3. CASE i # N
    <3>. DEFINE m == Stack[i + 1]
    <3>1. i + 1 \in 1..N /\ m \in S /\ s < m /\ m \in Nat /\ s \in Nat
      BY <1>1, <1>2, <2>3
    <3>2. \A j \in S : s < j => m <= j
      <4>. TAKE j \in S
      <4>. HAVE s < j
      <4>1. PICK k \in 1..N : Stack[k] = j
        BY <1>1
      <4>2. ~(k <= i)
        <5>1. k <= i => k = i \/ k < i
          OBVIOUS
        <5>2. k < i => j < s
          BY <1>1, <4>1
        <5>. QED
          BY <1>2, <4>1, <5>1, <5>2
      <4>3. k = i + 1 \/ i + 1 < k
        BY <4>2
      <4>. QED
        BY <1>1, <1>2, <3>1, <4>1, <4>3
    <3>3. \A j \in S : j \in Nat
      OBVIOUS
    <3>. HIDE DEF s, n, m
    <3>4. n # 0 /\ n <= m /\ n \in S /\ s < n
      BY <2>1, <3>1 DEF Over
    <3>5. n = m
      BY <3>1, <3>2, <3>3, <3>4
    <3>. QED
      BY <2>3, <3>5 DEF n, m
  <2>. QED
    BY <2>2, <2>3
<1>4. StackChained
  <2>1. \A i \in 1..N : slot[Stack[i]].num > 0
    BY <1>2 DEF Stacked, Unspent
  <2>. QED
    BY <1>1, <1>3, <2>1 DEF StackChained, N
<1>5. StackUnused
  <2>1. \A i \in 1..N : lit[slot[Stack[i]].node] = [k \in 1..slot[Stack[i]].num |-> slot[Stack[i]].cc]
    BY <1>2 DEF Stacked, Unspent
  <2>. QED
    BY <1>1, <2>1 DEF StackUnused
<1>6. FloorsHeld
  <2>. SUFFICES ASSUME FloorsMatter, NEW i \in DOMAIN brackets
                PROVE  brackets[i].floor \in {0} \cup ToSet(Stack)
    BY DEF FloorsHeld
  <2>1. brackets[i].floor \in Place(S)
    BY DEF Stacked, FloorsIn
  <2>2. \A j \in S : j \in ToSet(Stack)
    BY <1>1 DEF ToSet
  <2>. QED
    BY <2>1, <2>2 DEF Place
<1>. QED
  BY <1>4, <1>5, <1>6 DEF StacksSound

\* The delimiter stack stays one list, and keeps what the brackets rely on
\* (handle_delim, process_emphasis, remove_delimiter, parse_close_bracket): its
\* two chains agree, an entry is the text its node still holds, and no pair, no
\* opener given up and no link closed takes away the delimiter that an open
\* bracket remembers as the one on top when it opened.
THEOREM StacksSafe == Spec => []StacksSound
<1>1. StackIInv => StacksSound
  <2>. SUFFICES ASSUME StackIInv PROVE StacksSound
    OBVIOUS
  <2>1. CASE Parsing
    BY <2>1, StackedSound DEF StackIInv
  <2>2. CASE ~Parsing
    <3>1. ~FloorsMatter
      BY <2>2 DEF StackIInv, MemoInv, LinkOnlyHere, FloorsMatter, Parsing
    <3>. QED
      BY <2>2, <3>1 DEF StacksSound, StackChained, StackUnused, FloorsHeld
  <2>. QED
    BY <2>1, <2>2
<1>. QED
  BY <1>1, StackInit, StackNext, PTL DEF Spec
=============================================================================
