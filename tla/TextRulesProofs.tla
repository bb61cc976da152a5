-------------------------- MODULE TextRulesProofs ---------------------------
(***************************************************************************)
(* What TextRules computes for every text: a wildcard pattern is found      *)
(* exactly where it matches, and collapsing a path keeps where it leads.    *)
(***************************************************************************)
EXTENDS TextRules, TLAPS, SequenceTheorems, WellFoundedInduction
-----------------------------------------------------------------------------
(* Folds *)

\* A non-empty set of natural numbers has a least element, and Min is it.
LEMMA MinIsLeast ==
  ASSUME NEW S, S \subseteq Nat, S # {}
  PROVE  Min(S) \in S /\ \A j \in S : Min(S) <= j
<1> DEFINE Less == OpToRel(<, Nat)
<1>1. \A x, y \in Nat : x < y => <<x, y>> \in Less
  BY DEF OpToRel
<1>2. IsWellFoundedOn(Less, Nat)
  BY NatLessThanWellFounded, Zenon
<1> HIDE DEF Less
<1>3. PICK i \in S : \A j \in S : ~(<<j, i>> \in Less)
  BY <1>2, WFMin
<1>4. ASSUME NEW j \in S
      PROVE  i <= j
  <2>1. i \in Nat /\ j \in Nat
    OBVIOUS
  <2>2. ~(j < i)
    BY <1>1, <1>3, <2>1
  <2>3. QED BY <2>1, <2>2
<1>5. \E x \in S : \A y \in S : x =< y
  BY <1>4
<1>6. QED BY <1>5, Zenon DEF Min

\* A set of natural numbers with zero and the successors of its members has them all.
LEMMA SetInduction ==
  ASSUME NEW S, 0 \in S, \A n \in Nat : n \in S => n + 1 \in S
  PROVE  Nat \subseteq S
<1> DEFINE missing == Nat \ S
<1> SUFFICES ASSUME missing # {} PROVE FALSE
  OBVIOUS
<1>1. Min(missing) \in missing /\ \A j \in missing : Min(missing) <= j
  <2>1. missing \subseteq Nat
    OBVIOUS
  <2> HIDE DEF missing
  <2>2. QED BY <2>1, MinIsLeast
<1> DEFINE m == Min(missing)
<1> HIDE DEF m
<1>2. m \in Nat /\ m \notin S /\ \A j \in Nat : j \notin S => m <= j
  BY <1>1 DEF m
<1>3. m # 0 /\ m - 1 \in Nat
  BY <1>2
<1>4. m - 1 \in S
  <2>1. ~(m <= m - 1)
    BY <1>2
  <2>2. QED BY <1>2, <1>3, <2>1
<1>5. (m - 1) + 1 \in S
  BY <1>3, <1>4
<1>6. QED BY <1>2, <1>5

\* The greatest element of a set is its Max.
LEMMA MaxIsGreatest ==
  ASSUME NEW s, NEW m \in s, s \subseteq Nat, \A j \in s : j <= m
  PROVE  Max(s) = m
<1>1. \A x \in s : (\A y \in s : x >= y) => x = m
  BY Z3
<1>2. \A y \in s : m >= y
  OBVIOUS
<1>3. QED BY <1>1, <1>2 DEF Max

\* The function by which FoldLeft is defined, on n elements: its states are in V, and the
\* state after a set of positions is that before its last, one step on.
IteratesTo(V, n, start, next, g) ==
  /\ g \in [SUBSET (1..n) -> V]
  /\ \A s \in SUBSET (1..n) :
       g[s] = IF s = {} THEN start ELSE next[<<g[s \ {Max(s)}], Max(s)>>]

\* It exists, for any step and any number of elements.
LEMMA FoldExists ==
  ASSUME NEW V, NEW start \in V, NEW n \in Nat, NEW next \in [V \X (1..n) -> V]
  PROVE  \E g : IteratesTo(V, n, start, next, g)
<1> DEFINE Folds(g, m) ==
             \A s \in SUBSET (1..m) :
               g[s] = IF s = {} THEN start ELSE next[<<g[s \ {Max(s)}], Max(s)>>]
           HasFold(m) == \E g \in [SUBSET (1..m) -> V] : Folds(g, m)
           S == {m \in Nat : m <= n => HasFold(m)}
<1>1. 0 \in S
  <2> DEFINE g == [s \in SUBSET (1..0) |-> start]
  <2>1. \A s \in SUBSET (1..0) : s = {}
    OBVIOUS
  <2>2. g \in [SUBSET (1..0) -> V] /\ Folds(g, 0)
    BY <2>1
  <2> HIDE DEF Folds
  <2>3. QED BY <2>2
<1>2. ASSUME NEW m \in Nat, m \in S
      PROVE  m + 1 \in S
  <2> SUFFICES ASSUME m + 1 <= n PROVE HasFold(m + 1)
    <3> HIDE DEF HasFold
    <3>1. QED OBVIOUS
  <2>0. HasFold(m)
    <3> HIDE DEF HasFold
    <3>1. QED BY <1>2
  <2>1. PICK g \in [SUBSET (1..m) -> V] : Folds(g, m)
    BY <2>0
  <2> DEFINE h == [s \in SUBSET (1..m + 1) |->
                     IF m + 1 \in s THEN next[<<g[s \ {m + 1}], m + 1>>] ELSE g[s]]
  <2>2. m + 1 \in 1..n
    OBVIOUS
  <2>3. ASSUME NEW s \in SUBSET (1..m + 1)
        PROVE  s \ {m + 1} \in SUBSET (1..m) /\ (m + 1 \notin s => s \in SUBSET (1..m))
    OBVIOUS
  <2>4. h \in [SUBSET (1..m + 1) -> V]
    <3>1. ASSUME NEW s \in SUBSET (1..m + 1)
          PROVE  (IF m + 1 \in s THEN next[<<g[s \ {m + 1}], m + 1>>] ELSE g[s]) \in V
      <4>1. g[s \ {m + 1}] \in V /\ (m + 1 \notin s => g[s] \in V)
        BY <2>1, <2>3
      <4>2. QED BY <2>2, <4>1
    <3>2. QED BY <3>1
  <2>5. ASSUME NEW s \in SUBSET (1..m + 1)
        PROVE  h[s] = IF s = {} THEN start ELSE next[<<h[s \ {Max(s)}], Max(s)>>]
    <3>1. CASE m + 1 \in s
      <4>1. Max(s) = m + 1
        <5>1. s \subseteq Nat /\ \A j \in s : j <= m + 1
          OBVIOUS
        <5>2. QED BY <3>1, <5>1, MaxIsGreatest
      <4>2. h[s \ {m + 1}] = g[s \ {m + 1}]
        BY <2>3
      <4>3. h[s] = next[<<g[s \ {m + 1}], m + 1>>]
        BY <3>1
      <4> HIDE DEF h
      <4>4. QED BY <3>1, <4>1, <4>2, <4>3
    <3>2. CASE m + 1 \notin s
      <4>1. s \in SUBSET (1..m) /\ s \ {Max(s)} \in SUBSET (1..m + 1)
        BY <2>3, <3>2
      <4>2. g[s] = IF s = {} THEN start ELSE next[<<g[s \ {Max(s)}], Max(s)>>]
        BY <2>1, <4>1
      <4>3. h[s] = g[s] /\ h[s \ {Max(s)}] = g[s \ {Max(s)}]
        BY <3>2, <4>1
      <4> HIDE DEF h
      <4>4. QED BY <4>2, <4>3
    <3>3. QED BY <3>1, <3>2
  <2> HIDE DEF h
  <2>6. QED BY <2>4, <2>5
<1> HIDE DEF HasFold
<1>3. n \in S
  <2> HIDE DEF S
  <2>1. QED BY <1>1, <1>2, SetInduction
<1>4. HasFold(n)
  BY <1>3
<1>5. QED BY <1>4 DEF HasFold, IteratesTo

\* The last of a set of positions is one of them.
LEMMA MaxIsMember ==
  ASSUME NEW n \in Nat, NEW s \in SUBSET (1..n), s # {}
  PROVE  Max(s) \in 1..n
<1> DEFINE below == {n - j : j \in s}
<1>1. Min(below) \in below /\ \A i \in below : Min(below) <= i
  <2>1. \A j \in s : n - j \in Nat
    OBVIOUS
  <2>2. below \subseteq Nat /\ below # {}
    BY <2>1
  <2> HIDE DEF below
  <2>3. QED BY <2>2, MinIsLeast
<1>2. PICK m \in s : n - m = Min(below)
  BY <1>1
<1>3. ASSUME NEW j \in s
      PROVE  j <= m
  <2>1. n - m <= n - j
    BY <1>1, <1>2
  <2>2. j \in Nat /\ m \in Nat
    OBVIOUS
  <2>3. QED BY <2>1, <2>2
<1>4. Max(s) = m
  <2>1. s \subseteq Nat
    OBVIOUS
  <2>2. QED BY <1>3, <2>1, MaxIsGreatest
<1>5. QED BY <1>4

\* The states a list leads through, one step for each of its elements, and the last one.
TraceOf(V, start, next, p, t) ==
  /\ t \in [0..Len(p) -> V]
  /\ t[0] = start
  /\ \A k \in 1..Len(p) : t[k] = next[<<t[k - 1], p[k]>>]
FoldsTo(V, start, next, p, v) == \E t : TraceOf(V, start, next, p, t) /\ v = t[Len(p)]

\* FoldLeft's function on the positions of a list, as far as its states are in V.
StepsOver(V, start, next, p, g) ==
  /\ g[{}] = start
  /\ \A s \in SUBSET (DOMAIN p) : s # {} /\ g[s \ {Max(s)}] \in V =>
       p[Max(s)] \in Range(p) /\ g[s] = next[<<g[s \ {Max(s)}], p[Max(s)]>>]

\* There is one, and its states are in V.
LEMMA StepsExist ==
  ASSUME NEW V, NEW A, NEW start \in V, NEW next \in [V \X A -> V], NEW p \in Seq(A)
  PROVE  \E g \in [SUBSET (DOMAIN p) -> V] : StepsOver(V, start, next, p, g)
<1> DEFINE n == Len(p)
           at == [q \in V \X (1..n) |-> next[<<q[1], p[q[2]]>>]]
<1>1. n \in Nat /\ DOMAIN p = 1..n /\ \A k \in 1..n : p[k] \in A
  OBVIOUS
<1>2. at \in [V \X (1..n) -> V]
  BY <1>1
<1>3. PICK g : IteratesTo(V, n, start, at, g)
  <2> HIDE DEF at, n
  <2>1. QED BY <1>1, <1>2, FoldExists
<1>4. g \in [SUBSET (DOMAIN p) -> V] /\ g[{}] = start
  BY <1>1, <1>3 DEF IteratesTo
<1>5. ASSUME NEW s \in SUBSET (DOMAIN p), s # {}
      PROVE  p[Max(s)] \in Range(p) /\ g[s] = next[<<g[s \ {Max(s)}], p[Max(s)]>>]
  <2>1. Max(s) \in 1..n /\ g[s \ {Max(s)}] \in V
    BY <1>1, <1>4, <1>5, MaxIsMember
  <2>2. g[s] = at[<<g[s \ {Max(s)}], Max(s)>>]
    BY <1>1, <1>3, <1>5 DEF IteratesTo
  <2>3. QED BY <1>1, <2>1, <2>2 DEF Range
<1>6. QED BY <1>4, <1>5 DEF StepsOver

\* The state after all positions is what the list folds to.
LEMMA StepsFold ==
  ASSUME NEW V, NEW A, NEW start \in V, NEW next \in [V \X A -> V], NEW p \in Seq(A),
         NEW g, StepsOver(V, start, next, p, g)
  PROVE  FoldsTo(V, start, next, p, g[DOMAIN p])
<1> DEFINE n == Len(p)
           Follows(k) == /\ g[1..k] \in V
                         /\ k > 0 => g[1..k] = next[<<g[1..k - 1], p[k]>>]
           S == {k \in Nat : k <= n => Follows(k)}
<1>1. n \in Nat /\ DOMAIN p = 1..n /\ \A k \in 1..n : p[k] \in A
  OBVIOUS
<1>2. 0 \in S
  <2>1. 1..0 = {}
    OBVIOUS
  <2>2. QED BY <2>1 DEF StepsOver
<1>3. ASSUME NEW k \in Nat, k \in S
      PROVE  k + 1 \in S
  <2> SUFFICES ASSUME k + 1 <= n PROVE Follows(k + 1)
    <3> HIDE DEF Follows
    <3>1. QED OBVIOUS
  <2>1. g[1..k] \in V
    BY <1>1, <1>3
  <2>2. (1..k + 1) \ {k + 1} = 1..k /\ k + 1 \in 1..n /\ (k + 1) - 1 = k
        /\ 1..k + 1 \in SUBSET (1..n) /\ k + 1 \in 1..k + 1 /\ 1..k + 1 \subseteq Nat
    BY <1>1
  <2>3. Max(1..k + 1) = k + 1
    <3>1. \A j \in 1..k + 1 : j <= k + 1
      OBVIOUS
    <3>2. QED BY <2>2, <3>1, MaxIsGreatest
  <2>4. g[1..k + 1] = next[<<g[1..k], p[k + 1]>>]
    BY <1>1, <2>1, <2>2, <2>3 DEF StepsOver
  <2>5. next[<<g[1..k], p[k + 1]>>] \in V
    BY <1>1, <2>1, <2>2
  <2>6. QED BY <2>2, <2>4, <2>5
<1> HIDE DEF Follows
<1>4. \A k \in 0..n : k \in S
  <2> HIDE DEF S
  <2>1. QED BY <1>1, <1>2, <1>3, SetInduction
<1>5. \A k \in 0..n : Follows(k)
  BY <1>1, <1>4
<1> DEFINE t == [k \in 0..n |-> g[1..k]]
<1>6. t \in [0..n -> V] /\ t[0] = start /\ t[n] = g[DOMAIN p]
  <2>1. 1..0 = {} /\ 0 \in 0..n /\ n \in 0..n
    BY <1>1
  <2>2. QED BY <1>1, <1>5, <2>1 DEF Follows, StepsOver
<1>7. ASSUME NEW k \in 1..n
      PROVE  t[k] = next[<<t[k - 1], p[k]>>]
  <2>1. k \in 0..n /\ k - 1 \in 0..n /\ k > 0
    BY <1>1
  <2>2. QED BY <1>5, <2>1 DEF Follows
<1>8. TraceOf(V, start, next, p, t)
  <2> HIDE DEF t
  <2>1. QED BY <1>6, <1>7 DEF TraceOf
<1> HIDE DEF t
<1>9. QED BY <1>6, <1>8 DEF FoldsTo

\* Nothing folds to the start.
LEMMA FoldStart ==
  ASSUME NEW V, NEW start, NEW next, NEW v, FoldsTo(V, start, next, <<>>, v)
  PROVE  v = start
BY DEF FoldsTo, TraceOf

Steps(V, next, v, e, w) == v \in V /\ w = next[<<v, e>>]

\* One element more is one step more.
LEMMA FoldStep ==
  ASSUME NEW V, NEW A, NEW start, NEW next, NEW p \in Seq(A), NEW e \in A,
         NEW v, FoldsTo(V, start, next, p, v),
         NEW w, FoldsTo(V, start, next, Append(p, e), w)
  PROVE  Steps(V, next, v, e, w)
<1> DEFINE n == Len(p)
           q == Append(p, e)
<1>1. PICK t : TraceOf(V, start, next, p, t) /\ v = t[n]
  BY DEF FoldsTo
<1>2. PICK u : TraceOf(V, start, next, q, u) /\ w = u[Len(q)]
  BY DEF FoldsTo
<1>3. /\ n \in Nat /\ Len(q) = n + 1 /\ q[n + 1] = e
      /\ \A k \in 1..n : q[k] = p[k]
  BY AppendProperties
<1> HIDE DEF q, n
<1> DEFINE S == {k \in Nat : k <= n => u[k] = t[k]}
<1>4. 0 \in S
  BY <1>1, <1>2 DEF TraceOf
<1>5. ASSUME NEW k \in Nat, k \in S
      PROVE  k + 1 \in S
  <2> SUFFICES ASSUME k + 1 <= n PROVE u[k + 1] = t[k + 1]
    OBVIOUS
  <2>1. k + 1 \in 1..n /\ k + 1 \in 1..Len(q) /\ (k + 1) - 1 = k /\ u[k] = t[k]
    BY <1>3, <1>5
  <2>2. /\ u[k + 1] = next[<<u[(k + 1) - 1], q[k + 1]>>]
        /\ t[k + 1] = next[<<t[(k + 1) - 1], p[k + 1]>>]
    BY <1>1, <1>2, <2>1 DEF TraceOf, n
  <2>3. QED BY <1>3, <2>1, <2>2
<1>6. n \in S
  <2> HIDE DEF S
  <2>1. QED BY <1>3, <1>4, <1>5, SetInduction
<1>7. u[n] = t[n] /\ t[n] \in V
  BY <1>1, <1>3, <1>6 DEF TraceOf, n
<1>8. u[n + 1] = next[<<u[n], e>>]
  <2>1. n + 1 \in 1..Len(q) /\ (n + 1) - 1 = n
    BY <1>3
  <2>2. u[n + 1] = next[<<u[(n + 1) - 1], q[n + 1]>>]
    BY <1>2, <2>1 DEF TraceOf
  <2>3. QED BY <1>3, <2>1, <2>2
<1>9. QED BY <1>1, <1>2, <1>3, <1>7, <1>8 DEF Steps

\* A list with one element more.
LEMMA AppendedLast ==
  ASSUME NEW A, NEW p \in Seq(A), NEW e \in A
  PROVE  /\ Append(p, e) \in Seq(A) /\ Append(p, e) # <<>> /\ Len(Append(p, e)) = Len(p) + 1
         /\ Last(Append(p, e)) = e /\ Front(Append(p, e)) = p
         /\ Head(Append(p, e)) = IF p = <<>> THEN e ELSE Head(p)
         /\ Range(Append(p, e)) = Range(p) \cup {e}
<1> DEFINE q == Append(p, e)
<1>1. /\ q \in Seq(A) /\ Len(q) = Len(p) + 1 /\ q[Len(p) + 1] = e /\ Len(p) \in Nat
      /\ \A i \in 1..Len(p) : q[i] = p[i]
  BY AppendProperties
<1>2. Front(q) = p
  BY DEF Front
<1> HIDE DEF q
<1>3. q # <<>> /\ Last(q) = e
  BY <1>1 DEF Last
<1>4. Head(q) = IF p = <<>> THEN e ELSE Head(p)
  <2>1. Head(q) = q[1]
    BY <1>1, <1>3
  <2>2. CASE p = <<>>
    BY <1>1, <2>1, <2>2
  <2>3. CASE p # <<>>
    <3>1. Len(p) > 0 /\ Head(p) = p[1]
      BY <2>3
    <3>2. QED BY <1>1, <2>1, <2>3, <3>1
  <2>4. QED BY <2>2, <2>3
<1>5. Range(q) = Range(p) \cup {e}
  <2>1. DOMAIN q = 1..Len(p) + 1 /\ DOMAIN p = 1..Len(p)
    BY <1>1
  <2>2. ASSUME NEW x \in Range(q)
        PROVE  x \in Range(p) \cup {e}
    <3>1. PICK i \in 1..Len(p) + 1 : x = q[i]
      BY <2>1 DEF Range
    <3>2. CASE i \in 1..Len(p)
      BY <1>1, <2>1, <3>1, <3>2 DEF Range
    <3>3. CASE i = Len(p) + 1
      BY <1>1, <3>1, <3>3
    <3>4. QED BY <1>1, <3>2, <3>3
  <2>3. ASSUME NEW x \in Range(p) \cup {e}
        PROVE  x \in Range(q)
    <3>1. CASE x = e
      <4>1. Len(p) + 1 \in DOMAIN q
        BY <1>1, <2>1
      <4>2. QED BY <1>1, <3>1, <4>1 DEF Range
    <3>2. CASE x \in Range(p)
      <4>1. PICK i \in 1..Len(p) : x = p[i]
        BY <2>1, <3>2 DEF Range
      <4>2. i \in DOMAIN q /\ q[i] = x
        BY <1>1, <2>1, <4>1
      <4>3. QED BY <4>2 DEF Range
    <3>3. QED BY <2>3, <3>1, <3>2
  <2>4. QED BY <2>2, <2>3
<1>6. QED BY <1>1, <1>2, <1>3, <1>4, <1>5 DEF q

\* What the empty list has, and an appended element keeps, every list has.
LEMMA SeqInduction ==
  ASSUME NEW A, NEW S, <<>> \in S, \A q \in Seq(A), e \in A : q \in S => Append(q, e) \in S
  PROVE  Seq(A) \subseteq S
<1> SUFFICES ASSUME NEW p \in Seq(A) PROVE p \in S
  OBVIOUS
<1> DEFINE K == {k \in Nat : k <= Len(p) => SubSeq(p, 1, k) \in S}
<1>1. Len(p) \in Nat /\ SubSeq(p, 1, 0) = <<>> /\ SubSeq(p, 1, Len(p)) = p
  OBVIOUS
<1>2. 0 \in K
  BY <1>1
<1>3. ASSUME NEW k \in Nat, k \in K
      PROVE  k + 1 \in K
  <2> SUFFICES ASSUME k + 1 <= Len(p) PROVE SubSeq(p, 1, k + 1) \in S
    OBVIOUS
  <2>1. k \in 0..Len(p) - 1 /\ k <= Len(p)
    BY <1>1
  <2>2. /\ SubSeq(p, 1, k) \in Seq(A) /\ p[k + 1] \in A
        /\ SubSeq(p, 1, k + 1) = Append(SubSeq(p, 1, k), p[k + 1])
    BY <2>1
  <2>3. SubSeq(p, 1, k) \in S
    BY <1>3, <2>1
  <2>4. QED BY <2>2, <2>3
<1>4. Len(p) \in K
  <2> HIDE DEF K
  <2>1. QED BY <1>1, <1>2, <1>3, SetInduction
<1>5. SubSeq(p, 1, Len(p)) \in S
  BY <1>1, <1>4
<1>6. QED BY <1>1, <1>5

-----------------------------------------------------------------------------
(* Wildcards *)

\* What texts and patterns are made of; the parts of a pattern.
Symbols == STRING \cup {Star, " "}
Part == Seq(Symbols) \ {<<>>}

\* What matching a pattern has found of it so far.
SplitState == {s \in [parts : Seq(Part), open : BOOLEAN] : s.open => s.parts # <<>>}
Unsplit == [parts |-> <<>>, open |-> FALSE]
SplitStep == [q \in SplitState \X Symbols |-> SplitSymbol(q[1], q[2])]

Positions(text) == 0..Len(text)
EndsStep(text) ==
  [q \in (SUBSET Positions(text)) \X Symbols |-> EndsAfter(q[1], q[2], text)]

Scan(text) == Positions(text) \cup {Lost}
TakeStep(text, anchored) ==
  [q \in Scan(text) \X Part |-> TakePart(q[1], q[2], text, anchored)]

\* Occurrences of a part lie in the text.
LEMMA OccurrencesInText ==
  ASSUME NEW text \in Seq(Symbols), NEW part \in Part, NEW from \in Positions(text)
  PROVE  /\ Occurrences(from, part, text) \subseteq Positions(text)
         /\ \A k \in Occurrences(from, part, text) :
              k >= from /\ k + Len(part) \in Positions(text) /\ k + Len(part) > from
<1>1. Len(text) \in Nat /\ Len(part) \in Nat /\ Len(part) > 0
  BY EmptySeq DEF Part
<1>2. from \in 0..Len(text)
  BY DEF Positions
<1>3. ASSUME NEW k \in from..Len(text) - Len(part)
      PROVE  k \in 0..Len(text) /\ k >= from /\ k + Len(part) \in 0..Len(text) /\ k + Len(part) > from
  BY <1>1, <1>2
<1>4. QED BY <1>3 DEF Occurrences, Positions

\* The scan stays in the text or is lost, and gets off its beginning.
LEMMA TakeType ==
  ASSUME NEW text \in Seq(Symbols), NEW anchored, NEW part \in Part, NEW from \in Scan(text)
  PROVE  /\ TakePart(from, part, text, anchored) \in Scan(text)
         /\ TakePart(from, part, text, anchored) # 0
<1> DEFINE found == Occurrences(from, part, text)
<1>1. CASE TakePart(from, part, text, anchored) = Lost
  BY <1>1 DEF Scan, Lost
<1>2. CASE TakePart(from, part, text, anchored) # Lost
  <2>1. from # Lost /\ found # {} /\ TakePart(from, part, text, anchored) = Min(found) + Len(part)
    BY <1>2 DEF TakePart
  <2>2. from \in Positions(text)
    BY <2>1 DEF Scan
  <2>3. /\ found \subseteq Nat
        /\ \A k \in found : k + Len(part) \in Positions(text) /\ k + Len(part) > from
    BY <2>2, OccurrencesInText DEF Positions
  <2> HIDE DEF found
  <2>4. Min(found) \in found
    BY <2>1, <2>3, MinIsLeast
  <2>5. /\ TakePart(from, part, text, anchored) \in Positions(text)
        /\ TakePart(from, part, text, anchored) > from
    BY <2>1, <2>3, <2>4
  <2>6. from \in Nat /\ Positions(text) \subseteq Nat
    BY <2>2 DEF Positions
  <2>7. TakePart(from, part, text, anchored) # 0
    BY <2>5, <2>6
  <2>8. QED BY <2>5, <2>7 DEF Scan
<1>3. QED BY <1>1, <1>2

\* The steps lead from states to states.
LEMMA GlobSteps ==
  /\ Unsplit \in SplitState /\ SplitStep \in [SplitState \X Symbols -> SplitState]
  /\ \A text \in Seq(Symbols) :
       /\ {0} \in SUBSET Positions(text)
       /\ EndsStep(text) \in [(SUBSET Positions(text)) \X Symbols -> SUBSET Positions(text)]
       /\ 0 \in Scan(text)
       /\ \A anchored : TakeStep(text, anchored) \in [Scan(text) \X Part -> Scan(text)]
<1>1. Unsplit \in SplitState
  BY DEF Unsplit, SplitState
<1>2. ASSUME NEW s \in SplitState, NEW e \in Symbols
      PROVE  SplitSymbol(s, e) \in SplitState
  <2>1. s \in [parts : Seq(Part), open : BOOLEAN] /\ (s.open => s.parts # <<>>)
    BY DEF SplitState
  <2>2. CASE e = Star
    BY <2>1, <2>2 DEF SplitSymbol, SplitState
  <2>3. CASE e # Star /\ s.open
    <3>1. s.parts \in Seq(Part) /\ s.parts # <<>> /\ Len(s.parts) \in Nat /\ Len(s.parts) > 0
      BY <2>1, <2>3, EmptySeq
    <3>2. Front(s.parts) \in Seq(Part) /\ Last(s.parts) \in Part
      BY <3>1 DEF Front, Last
    <3>3. Append(Last(s.parts), e) \in Part
      <4>1. Last(s.parts) \in Seq(Symbols)
        BY <3>2 DEF Part
      <4>2. QED BY <4>1, AppendedLast DEF Part
    <3>4. Append(Front(s.parts), Append(Last(s.parts), e)) \in Seq(Part)
          /\ Append(Front(s.parts), Append(Last(s.parts), e)) # <<>>
      <4> DEFINE f == Front(s.parts)
                 l == Append(Last(s.parts), e)
      <4> HIDE DEF f, l
      <4>1. f \in Seq(Part) /\ l \in Part
        BY <3>2, <3>3 DEF f, l
      <4>2. Append(f, l) \in Seq(Part) /\ Append(f, l) # <<>>
        BY <4>1, AppendedLast
      <4>3. QED BY <4>2 DEF f, l
    <3>5. QED BY <2>3, <3>4 DEF SplitSymbol, SplitState
  <2>4. CASE e # Star /\ ~s.open
    <3>1. <<e>> \in Part
      BY DEF Part
    <3>2. Append(s.parts, <<e>>) \in Seq(Part) /\ Append(s.parts, <<e>>) # <<>>
      BY <2>1, <3>1, AppendedLast
    <3>3. QED BY <2>4, <3>2 DEF SplitSymbol, SplitState
  <2>5. QED BY <2>2, <2>3, <2>4
<1>3. SplitStep \in [SplitState \X Symbols -> SplitState]
  BY <1>2 DEF SplitStep
<1>4. ASSUME NEW text \in Seq(Symbols)
      PROVE  /\ {0} \in SUBSET Positions(text)
             /\ EndsStep(text) \in [(SUBSET Positions(text)) \X Symbols -> SUBSET Positions(text)]
             /\ 0 \in Scan(text)
             /\ \A anchored : TakeStep(text, anchored) \in [Scan(text) \X Part -> Scan(text)]
  <2>1. 0 \in Positions(text) /\ 1..Len(text) \subseteq Positions(text)
    BY DEF Positions
  <2>2. \A ends, e : EndsAfter(ends, e, text) \in SUBSET Positions(text)
    BY <2>1 DEF EndsAfter, Positions
  <2>3. EndsStep(text) \in [(SUBSET Positions(text)) \X Symbols -> SUBSET Positions(text)]
    BY <2>2 DEF EndsStep
  <2>4. ASSUME NEW anchored
        PROVE  TakeStep(text, anchored) \in [Scan(text) \X Part -> Scan(text)]
    BY TakeType DEF TakeStep
  <2>5. QED BY <2>1, <2>3, <2>4 DEF Scan
<1>5. QED BY <1>1, <1>3, <1>4

\* A split takes one step for each symbol of a pattern.
LEMMA SplitFolds ==
  ASSUME NEW p \in Seq(Symbols)
  PROVE  FoldsTo(SplitState, Unsplit, SplitStep, p, Split(p))
<1> DEFINE Iterates(g) == g = [s \in SUBSET (DOMAIN p) |->
                                 IF s = {} THEN Unsplit
                                 ELSE SplitSymbol(g[s \ {Max(s)}], p[Max(s)])]
           iter == CHOOSE g : Iterates(g)
<1>1. Range(p) \subseteq Symbols
  BY DEF Range
<1>2. PICK g \in [SUBSET (DOMAIN p) -> SplitState] : StepsOver(SplitState, Unsplit, SplitStep, p, g)
  BY GlobSteps, StepsExist
<1>3. Iterates(g)
  <2>1. ASSUME NEW s \in SUBSET (DOMAIN p), s # {}
        PROVE  g[s] = SplitSymbol(g[s \ {Max(s)}], p[Max(s)])
    <3>1. g[s \ {Max(s)}] \in SplitState /\ p[Max(s)] \in Symbols
          /\ g[s] = SplitStep[<<g[s \ {Max(s)}], p[Max(s)]>>]
      BY <1>1, <1>2, <2>1 DEF StepsOver
    <3>2. QED BY <3>1 DEF SplitStep
  <2>2. g[{}] = Unsplit
    BY <1>2 DEF StepsOver
  <2>3. QED BY <1>2, <2>1, <2>2
<1>4. Iterates(iter)
  <2> HIDE DEF Iterates
  <2>1. QED BY <1>3
<1>5. Split(p) = iter[DOMAIN p]
  BY DEF Split, FoldLeft, MapThenFoldSet, Unsplit
<1> HIDE DEF iter
<1>6. StepsOver(SplitState, Unsplit, SplitStep, p, iter)
  <2>1. ASSUME NEW s \in SUBSET (DOMAIN p), s # {}, iter[s \ {Max(s)}] \in SplitState
        PROVE  p[Max(s)] \in Range(p)
               /\ iter[s] = SplitStep[<<iter[s \ {Max(s)}], p[Max(s)]>>]
    <3>1. p[Max(s)] \in Range(p)
      BY <1>2, <2>1 DEF StepsOver
    <3>2. iter[s] = SplitSymbol(iter[s \ {Max(s)}], p[Max(s)])
      BY <1>4, <2>1
    <3>3. QED BY <1>1, <2>1, <3>1, <3>2 DEF SplitStep
  <2>2. iter[{}] = Unsplit
    BY <1>4
  <2> HIDE DEF Iterates
  <2>3. QED BY <2>1, <2>2 DEF StepsOver
<1>7. FoldsTo(SplitState, Unsplit, SplitStep, p, iter[DOMAIN p])
  BY <1>6, GlobSteps, StepsFold
<1>8. QED BY <1>5, <1>7

\* The ends of the matches take one step for each symbol of a pattern.
LEMMA EndsFold ==
  ASSUME NEW text \in Seq(Symbols), NEW p \in Seq(Symbols)
  PROVE  FoldsTo(SUBSET Positions(text), {0}, EndsStep(text), p, MatchEnds(p, text))
<1> DEFINE V == SUBSET Positions(text)
           next == EndsStep(text)
           Iterates(g) == g = [s \in SUBSET (DOMAIN p) |->
                                 IF s = {} THEN {0}
                                 ELSE EndsAfter(g[s \ {Max(s)}], p[Max(s)], text)]
           iter == CHOOSE g : Iterates(g)
<1>1. Range(p) \subseteq Symbols
  BY DEF Range
<1>2. PICK g \in [SUBSET (DOMAIN p) -> V] : StepsOver(V, {0}, next, p, g)
  <2>1. {0} \in V /\ next \in [V \X Symbols -> V]
    BY GlobSteps
  <2> HIDE DEF V, next
  <2>2. QED BY <2>1, StepsExist
<1>3. Iterates(g)
  <2>1. ASSUME NEW s \in SUBSET (DOMAIN p), s # {}
        PROVE  g[s] = EndsAfter(g[s \ {Max(s)}], p[Max(s)], text)
    <3>1. g[s \ {Max(s)}] \in V /\ p[Max(s)] \in Symbols
          /\ g[s] = next[<<g[s \ {Max(s)}], p[Max(s)]>>]
      BY <1>1, <1>2, <2>1 DEF StepsOver
    <3>2. QED BY <3>1 DEF EndsStep
  <2>2. g[{}] = {0}
    BY <1>2 DEF StepsOver
  <2>3. QED BY <1>2, <2>1, <2>2
<1>4. Iterates(iter)
  <2> HIDE DEF Iterates
  <2>1. QED BY <1>3
<1>5. MatchEnds(p, text) = iter[DOMAIN p]
  BY DEF MatchEnds, FoldLeft, MapThenFoldSet
<1> HIDE DEF iter
<1>6. StepsOver(V, {0}, next, p, iter)
  <2>1. ASSUME NEW s \in SUBSET (DOMAIN p), s # {}, iter[s \ {Max(s)}] \in V
        PROVE  p[Max(s)] \in Range(p) /\ iter[s] = next[<<iter[s \ {Max(s)}], p[Max(s)]>>]
    <3>1. p[Max(s)] \in Range(p)
      BY <1>2, <2>1 DEF StepsOver
    <3>2. iter[s] = EndsAfter(iter[s \ {Max(s)}], p[Max(s)], text)
      BY <1>4, <2>1
    <3>3. QED BY <1>1, <2>1, <3>1, <3>2 DEF EndsStep
  <2>2. iter[{}] = {0}
    BY <1>4
  <2> HIDE DEF Iterates, V, next
  <2>3. QED BY <2>1, <2>2 DEF StepsOver
<1>7. FoldsTo(V, {0}, next, p, iter[DOMAIN p])
  <2>1. {0} \in V /\ next \in [V \X Symbols -> V]
    BY GlobSteps
  <2> HIDE DEF V, next
  <2>2. QED BY <1>6, <2>1, StepsFold
<1>8. QED BY <1>5, <1>7

\* The greedy scan takes one step for each part.
LEMMA ScanFolds ==
  ASSUME NEW text \in Seq(Symbols), NEW anchored, NEW p \in Seq(Part)
  PROVE  FoldsTo(Scan(text), 0, TakeStep(text, anchored), p, Consumed(p, text, anchored))
<1> DEFINE V == Scan(text)
           next == TakeStep(text, anchored)
           Iterates(g) == g = [s \in SUBSET (DOMAIN p) |->
                                 IF s = {} THEN 0
                                 ELSE TakePart(g[s \ {Max(s)}], p[Max(s)], text, anchored)]
           iter == CHOOSE g : Iterates(g)
<1>1. Range(p) \subseteq Part
  BY DEF Range
<1>2. PICK g \in [SUBSET (DOMAIN p) -> V] : StepsOver(V, 0, next, p, g)
  <2>1. 0 \in V /\ next \in [V \X Part -> V]
    BY GlobSteps
  <2> HIDE DEF V, next
  <2>2. QED BY <2>1, StepsExist
<1>3. Iterates(g)
  <2>1. ASSUME NEW s \in SUBSET (DOMAIN p), s # {}
        PROVE  g[s] = TakePart(g[s \ {Max(s)}], p[Max(s)], text, anchored)
    <3>1. g[s \ {Max(s)}] \in V /\ p[Max(s)] \in Part
          /\ g[s] = next[<<g[s \ {Max(s)}], p[Max(s)]>>]
      BY <1>1, <1>2, <2>1 DEF StepsOver
    <3>2. QED BY <3>1 DEF TakeStep
  <2>2. g[{}] = 0
    BY <1>2 DEF StepsOver
  <2>3. QED BY <1>2, <2>1, <2>2
<1>4. Iterates(iter)
  <2> HIDE DEF Iterates
  <2>1. QED BY <1>3
<1>5. Consumed(p, text, anchored) = iter[DOMAIN p]
  BY DEF Consumed, FoldLeft, MapThenFoldSet
<1> HIDE DEF iter
<1>6. StepsOver(V, 0, next, p, iter)
  <2>1. ASSUME NEW s \in SUBSET (DOMAIN p), s # {}, iter[s \ {Max(s)}] \in V
        PROVE  p[Max(s)] \in Range(p) /\ iter[s] = next[<<iter[s \ {Max(s)}], p[Max(s)]>>]
    <3>1. p[Max(s)] \in Range(p)
      BY <1>2, <2>1 DEF StepsOver
    <3>2. iter[s] = TakePart(iter[s \ {Max(s)}], p[Max(s)], text, anchored)
      BY <1>4, <2>1
    <3>3. QED BY <1>1, <2>1, <3>1, <3>2 DEF TakeStep
  <2>2. iter[{}] = 0
    BY <1>4
  <2> HIDE DEF Iterates, V, next
  <2>3. QED BY <2>1, <2>2 DEF StepsOver
<1>7. FoldsTo(V, 0, next, p, iter[DOMAIN p])
  <2>1. 0 \in V /\ next \in [V \X Part -> V]
    BY GlobSteps
  <2> HIDE DEF V, next
  <2>2. QED BY <1>6, <2>1, StepsFold
<1>8. QED BY <1>5, <1>7

\* The three by their first and their next element.
LEMMA SplitLaws ==
  /\ Split(<<>>) = Unsplit
  /\ \A p \in Seq(Symbols) : Split(p) \in SplitState
  /\ \A p \in Seq(Symbols), e \in Symbols : Split(Append(p, e)) = SplitSymbol(Split(p), e)
<1>1. Split(<<>>) = Unsplit
  <2>1. <<>> \in Seq(Symbols)
    OBVIOUS
  <2>2. FoldsTo(SplitState, Unsplit, SplitStep, <<>>, Split(<<>>))
    BY <2>1, SplitFolds
  <2>3. QED BY <2>2, FoldStart
<1>2. ASSUME NEW p \in Seq(Symbols), NEW e \in Symbols
      PROVE  Split(p) \in SplitState /\ Split(Append(p, e)) = SplitSymbol(Split(p), e)
  <2>1. Append(p, e) \in Seq(Symbols)
    OBVIOUS
  <2>2. Steps(SplitState, SplitStep, Split(p), e, Split(Append(p, e)))
    BY <2>1, SplitFolds, FoldStep
  <2>3. QED BY <2>2 DEF Steps, SplitStep
<1>3. Star \in Symbols
  BY DEF Symbols
<1>4. QED BY <1>1, <1>2, <1>3

\* The ends of the matches by the first and the next symbol of a pattern.
LEMMA EndsLaws ==
  ASSUME NEW text \in Seq(Symbols)
  PROVE  /\ MatchEnds(<<>>, text) = {0}
         /\ \A p \in Seq(Symbols) : MatchEnds(p, text) \in SUBSET Positions(text)
         /\ \A p \in Seq(Symbols), e \in Symbols :
              MatchEnds(Append(p, e), text) = EndsAfter(MatchEnds(p, text), e, text)
<1>1. MatchEnds(<<>>, text) = {0}
  <2>1. <<>> \in Seq(Symbols)
    OBVIOUS
  <2>2. FoldsTo(SUBSET Positions(text), {0}, EndsStep(text), <<>>, MatchEnds(<<>>, text))
    BY <2>1, EndsFold
  <2>3. QED BY <2>2, FoldStart
<1>2. ASSUME NEW p \in Seq(Symbols), NEW e \in Symbols
      PROVE  /\ MatchEnds(p, text) \in SUBSET Positions(text)
             /\ MatchEnds(Append(p, e), text) = EndsAfter(MatchEnds(p, text), e, text)
  <2>1. Append(p, e) \in Seq(Symbols)
    OBVIOUS
  <2>2. Steps(SUBSET Positions(text), EndsStep(text), MatchEnds(p, text), e, MatchEnds(Append(p, e), text))
    BY <2>1, EndsFold, FoldStep
  <2>3. QED BY <2>2 DEF Steps, EndsStep
<1>3. Star \in Symbols
  BY DEF Symbols
<1>4. QED BY <1>1, <1>2, <1>3

\* The scan by the first and the next part.
LEMMA ScanLaws ==
  ASSUME NEW text \in Seq(Symbols), NEW anchored
  PROVE  /\ Consumed(<<>>, text, anchored) = 0
         /\ \A p \in Seq(Part), part \in Part :
              /\ Consumed(p, text, anchored) \in Scan(text)
              /\ Consumed(Append(p, part), text, anchored)
                   = TakePart(Consumed(p, text, anchored), part, text, anchored)
<1>1. Consumed(<<>>, text, anchored) = 0
  <2>1. <<>> \in Seq(Part)
    OBVIOUS
  <2>2. FoldsTo(Scan(text), 0, TakeStep(text, anchored), <<>>, Consumed(<<>>, text, anchored))
    BY <2>1, ScanFolds
  <2>3. QED BY <2>2, FoldStart
<1>2. ASSUME NEW p \in Seq(Part), NEW part \in Part
      PROVE  /\ Consumed(p, text, anchored) \in Scan(text)
             /\ Consumed(Append(p, part), text, anchored)
                  = TakePart(Consumed(p, text, anchored), part, text, anchored)
  <2>1. Append(p, part) \in Seq(Part)
    OBVIOUS
  <2>2. Steps(Scan(text), TakeStep(text, anchored), Consumed(p, text, anchored), part,
              Consumed(Append(p, part), text, anchored))
    BY <2>1, ScanFolds, FoldStep
  <2>3. QED BY <2>2 DEF Steps, TakeStep
<1>3. QED BY <1>1, <1>2

Occurs(part, k, text) ==
  /\ k + Len(part) <= Len(text)
  /\ \A i \in 1..Len(part) : text[k + i] = part[i]

\* A text, a part, and their symbols.
LEMMA TextTypes ==
  ASSUME NEW text \in Seq(Symbols), NEW part \in Part
  PROVE  /\ Len(text) \in Nat /\ Len(part) \in Nat /\ Len(part) > 0
         /\ \A i \in 1..Len(part) : part[i] \in Symbols
         /\ \A i \in 1..Len(text) : text[i] \in Symbols
         /\ part \in Seq(Symbols) /\ part # <<>>
BY EmptySeq DEF Part

\* The places the scan looks at are those where the part occurs.
LEMMA OccurrencesAre ==
  ASSUME NEW text \in Seq(Symbols), NEW part \in Part, NEW from \in 0..Len(text), NEW k \in 0..Len(text)
  PROVE  k \in Occurrences(from, part, text) <=> from <= k /\ Occurs(part, k, text)
<1> DEFINE sub == SubSeq(text, k + 1, k + Len(part))
<1>1. Len(text) \in Nat /\ Len(part) \in Nat /\ Len(part) > 0 /\ part \in Seq(Symbols)
  BY TextTypes
<1>2. k \in from..Len(text) - Len(part) <=> from <= k /\ k + Len(part) <= Len(text)
  BY <1>1
<1>3. ASSUME k + Len(part) <= Len(text)
      PROVE  sub = part <=> \A i \in 1..Len(part) : text[k + i] = part[i]
  <2>1. /\ sub \in Seq(Symbols) /\ Len(sub) = Len(part)
        /\ \A i \in 1..Len(part) : sub[i] = text[k + i]
    <3>1. \A j \in k + 1..k + Len(part) : j \in 1..Len(text)
      BY <1>1, <1>3
    <3>2. \A j \in k + 1..k + Len(part) : text[j] \in Symbols
      BY <3>1, TextTypes
    <3>3. /\ sub \in Seq(Symbols)
          /\ Len(sub) = IF k + 1 <= k + Len(part) THEN (k + Len(part)) - (k + 1) + 1 ELSE 0
          /\ \A i \in 1..(k + Len(part)) - (k + 1) + 1 : sub[i] = text[(k + 1) + i - 1]
      BY <1>1, <3>2, SubSeqProperties
    <3>4. (k + Len(part)) - (k + 1) + 1 = Len(part) /\ k + 1 <= k + Len(part)
      BY <1>1
    <3> HIDE DEF sub
    <3>5. \A i \in 1..Len(part) : (k + 1) + i - 1 = k + i
      BY <1>1
    <3>6. QED BY <3>3, <3>4, <3>5
  <2> HIDE DEF sub
  <2>2. (\A i \in 1..Len(part) : sub[i] = part[i]) => sub = part
    BY <1>1, <2>1, SeqEqual
  <2>3. QED BY <2>1, <2>2
<1>4. QED BY <1>2, <1>3 DEF Occurrences, Occurs

\* A part with one symbol more.
LEMMA OccursAppend ==
  ASSUME NEW text \in Seq(Symbols), NEW part \in Seq(Symbols), NEW e \in Symbols, NEW k \in 0..Len(text)
  PROVE  Occurs(Append(part, e), k, text) <=>
           Occurs(part, k, text) /\ k + Len(part) + 1 <= Len(text) /\ text[k + Len(part) + 1] = e
<1> DEFINE q == Append(part, e)
<1>1. /\ Len(part) \in Nat /\ Len(text) \in Nat /\ Len(q) = Len(part) + 1 /\ q[Len(part) + 1] = e
      /\ \A i \in 1..Len(part) : q[i] = part[i]
  BY AppendProperties
<1> HIDE DEF q
<1>2. \A i \in 1..Len(part) + 1 : i \in 1..Len(part) \/ i = Len(part) + 1
  BY <1>1
<1>3. k + (Len(part) + 1) = k + Len(part) + 1 /\ Len(part) + 1 \in 1..Len(part) + 1
      /\ \A i \in 1..Len(part) : i \in 1..Len(part) + 1
  BY <1>1
<1>4. (\A i \in 1..Len(q) : text[k + i] = q[i]) <=>
        (\A i \in 1..Len(part) : text[k + i] = part[i]) /\ text[k + Len(part) + 1] = e
  <2>1. ASSUME \A i \in 1..Len(q) : text[k + i] = q[i]
        PROVE  (\A i \in 1..Len(part) : text[k + i] = part[i]) /\ text[k + Len(part) + 1] = e
    <3>1. text[k + (Len(part) + 1)] = q[Len(part) + 1]
      BY <1>1, <1>3, <2>1
    <3>2. ASSUME NEW i \in 1..Len(part)
          PROVE  text[k + i] = part[i]
      <4>1. i \in 1..Len(q)
        BY <1>1, <1>3
      <4>2. QED BY <1>1, <2>1, <4>1
    <3>3. QED BY <1>1, <1>3, <3>1, <3>2
  <2>2. ASSUME (\A i \in 1..Len(part) : text[k + i] = part[i]) /\ text[k + Len(part) + 1] = e,
               NEW i \in 1..Len(q)
        PROVE  text[k + i] = q[i]
    <3>1. CASE i \in 1..Len(part)
      BY <1>1, <2>2, <3>1
    <3>2. CASE i = Len(part) + 1
      BY <1>1, <1>3, <2>2, <3>2
    <3>3. QED BY <1>1, <1>2, <3>1, <3>2
  <2>3. QED BY <2>1, <2>2
<1>5. k + Len(q) <= Len(text) <=> k + Len(part) <= Len(text) /\ k + Len(part) + 1 <= Len(text)
  BY <1>1
<1>6. QED BY <1>4, <1>5 DEF Occurs, q

\* Where the last part may begin: at the start if it is the first and anchored, else from
\* the end of what the scan consumed of the parts before it.
Starts(front, text, anchored) ==
  IF front = <<>> /\ anchored THEN {0}
  ELSE {k \in 0..Len(text) : /\ Consumed(front, text, anchored) # Lost
                             /\ Consumed(front, text, anchored) <= k}

\* Nothing but the first part begins at 0.
LEMMA ConsumedSome ==
  ASSUME NEW text \in Seq(Symbols), NEW anchored, NEW parts \in Seq(Part), parts # <<>>
  PROVE  Consumed(parts, text, anchored) # 0
<1>1. Front(parts) \in Seq(Part) /\ Last(parts) \in Part /\ parts = Append(Front(parts), Last(parts))
  BY DEF Front, Last
<1> DEFINE f == Front(parts)
           l == Last(parts)
<1> HIDE DEF f, l
<1>2. f \in Seq(Part) /\ l \in Part /\ parts = Append(f, l)
  BY <1>1 DEF f, l
<1>3. Consumed(parts, text, anchored) = TakePart(Consumed(f, text, anchored), l, text, anchored)
      /\ Consumed(f, text, anchored) \in Scan(text)
  BY <1>2, ScanLaws
<1>4. QED BY <1>2, <1>3, TakeType

\* The scan gets past a part exactly where a match may: it ends at the first place.
LEMMA TakesFirst ==
  ASSUME NEW text \in Seq(Symbols), NEW anchored \in BOOLEAN, NEW front \in Seq(Part), NEW part \in Part,
         NEW k \in 0..Len(text)
  PROVE  (/\ Consumed(Append(front, part), text, anchored) # Lost
          /\ Consumed(Append(front, part), text, anchored) <= k)
         <=> \E j \in Starts(front, text, anchored) : Occurs(part, j, text) /\ j + Len(part) <= k
<1> DEFINE c == Consumed(front, text, anchored)
           d == Consumed(Append(front, part), text, anchored)
           found == Occurrences(c, part, text)
<1>1. c \in Scan(text) /\ d = TakePart(c, part, text, anchored)
  BY ScanLaws
<1>2. Len(text) \in Nat /\ Len(part) \in Nat /\ Len(part) > 0
  BY TextTypes
<1>3. c = 0 <=> front = <<>>
  BY ConsumedSome, ScanLaws
<1>4. 0 # Lost
  BY DEF Lost
<1> HIDE DEF c, d
<1>5. CASE c = Lost
  <2>1. d = Lost
    BY <1>1, <1>5 DEF TakePart
  <2>2. Starts(front, text, anchored) = {}
    BY <1>3, <1>4, <1>5 DEF Starts, c
  <2>3. QED BY <2>1, <2>2 DEF d
<1>6. CASE c # Lost
  <2>1. c \in 0..Len(text)
    BY <1>1, <1>6 DEF Scan, Positions
  <2>2. \A j \in 0..Len(text) : j \in found <=> c <= j /\ Occurs(part, j, text)
    BY <2>1, OccurrencesAre
  <2>3. found \subseteq 0..Len(text)
    BY <2>1, OccurrencesInText DEF Positions
  <2>4. d = IF found = {} \/ (c = 0 /\ anchored /\ 0 \notin found) THEN Lost ELSE Min(found) + Len(part)
    BY <1>1, <1>6 DEF TakePart
  <2> HIDE DEF found
  <2>5. found # {} => Min(found) \in found /\ \A j \in found : Min(found) <= j
    <3>1. found \subseteq Nat
      BY <2>3
    <3>2. QED BY <3>1, MinIsLeast
  <2> DEFINE m == Min(found)
  <2> HIDE DEF m
  <2>6. found # {} => m \in found /\ m \in 0..Len(text) /\ \A j \in found : m <= j
    BY <2>3, <2>5 DEF m
  <2>7. m \in 0..Len(text) => m + Len(part) # Lost
    BY <1>2 DEF Lost
  <2>8. CASE front = <<>> /\ anchored
    <3>1. c = 0 /\ Starts(front, text, anchored) = {0}
      BY <1>3, <2>8 DEF Starts
    <3>2. 0 \in found <=> Occurs(part, 0, text)
      BY <1>2, <2>2, <3>1
    <3>3. CASE 0 \in found
      <4>1. m = 0
        BY <2>6, <3>3
      <4>2. d = 0 + Len(part) /\ d # Lost
        BY <2>4, <2>6, <2>7, <3>3, <4>1 DEF m
      <4>3. QED BY <3>1, <3>2, <3>3, <4>2 DEF d
    <3>4. CASE 0 \notin found
      <4>1. d = Lost
        BY <2>4, <2>8, <3>1, <3>4
      <4>2. QED BY <3>1, <3>2, <3>4, <4>1 DEF d
    <3>5. QED BY <3>3, <3>4
  <2>9. CASE ~(front = <<>> /\ anchored)
    <3>1. \A j : j \in Starts(front, text, anchored) /\ Occurs(part, j, text) <=> j \in found
      <4>1. Starts(front, text, anchored) = {j \in 0..Len(text) : c # Lost /\ c <= j}
        BY <2>9 DEF Starts, c
      <4>2. QED BY <1>6, <2>2, <2>3, <4>1
    <3>2. d = IF found = {} THEN Lost ELSE m + Len(part)
      BY <1>3, <2>4, <2>9 DEF m
    <3>3. CASE found = {}
      BY <3>1, <3>2, <3>3 DEF d
    <3>4. CASE found # {}
      <4>1. d = m + Len(part) /\ d # Lost /\ m \in found /\ m \in 0..Len(text)
        BY <2>6, <2>7, <3>2, <3>4
      <4>2. ASSUME d <= k
            PROVE  \E j \in Starts(front, text, anchored) : Occurs(part, j, text) /\ j + Len(part) <= k
        BY <3>1, <4>1, <4>2
      <4>3. ASSUME NEW j \in Starts(front, text, anchored), Occurs(part, j, text), j + Len(part) <= k
            PROVE  d <= k
        <5>1. j \in found /\ j \in 0..Len(text) /\ m <= j
          BY <2>3, <2>6, <3>1, <4>3
        <5>2. QED BY <1>2, <4>1, <4>3, <5>1
      <4>4. QED BY <4>1, <4>2, <4>3 DEF d
    <3>5. QED BY <3>3, <3>4
  <2>10. QED BY <2>8, <2>9
<1>7. QED BY <1>5, <1>6

\* A part is a suffix where it occurs at the end.
LEMMA SuffixOccurs ==
  ASSUME NEW text \in Seq(Symbols), NEW part \in Part
  PROVE  IsSuffix(part, text) <=>
           Len(part) <= Len(text) /\ Occurs(part, Len(text) - Len(part), text)
<1> DEFINE n == Len(text)
           l == Len(part)
           rp == Reverse(part)
           rt == Reverse(text)
<1>1. n \in Nat /\ l \in Nat /\ l > 0 /\ part \in Seq(Symbols)
      /\ (\A i \in 1..l : part[i] \in Symbols) /\ (\A i \in 1..n : text[i] \in Symbols)
  BY TextTypes
<1>2. /\ rp \in Seq(Symbols) /\ Len(rp) = l /\ \A i \in 1..l : rp[i] = part[(l - i) + 1]
      /\ rt \in Seq(Symbols) /\ Len(rt) = n /\ \A i \in 1..n : rt[i] = text[(n - i) + 1]
  <2>1. \A i \in 1..l : (l - i) + 1 \in 1..l
    BY <1>1
  <2>2. \A i \in 1..n : (n - i) + 1 \in 1..n
    BY <1>1
  <2>3. rp = [i \in 1..l |-> part[(l - i) + 1]] /\ rt = [i \in 1..n |-> text[(n - i) + 1]]
    BY DEF Reverse
  <2> HIDE DEF rp, rt, l, n
  <2>4. QED BY <1>1, <2>1, <2>2, <2>3
<1>3. IsSuffix(part, text) <=> l <= n /\ SubSeq(rp, 1, l) = SubSeq(rt, 1, l)
  BY <1>2 DEF IsSuffix, IsPrefix
<1> HIDE DEF rp, rt, n, l
<1>4. ASSUME l <= n
      PROVE  SubSeq(rp, 1, l) = SubSeq(rt, 1, l) <=> Occurs(part, n - l, text)
  <2>1. SubSeq(rp, 1, l) = rp
    BY <1>1, <1>2
  <2>2. /\ SubSeq(rt, 1, l) \in Seq(Symbols) /\ Len(SubSeq(rt, 1, l)) = l
        /\ \A i \in 1..l : SubSeq(rt, 1, l)[i] = rt[i]
    BY <1>1, <1>2, <1>4
  <2> DEFINE sub == SubSeq(rt, 1, l)
  <2> HIDE DEF sub
  <2>3. sub = rp <=> \A i \in 1..l : rt[i] = rp[i]
    <3>1. (\A i \in 1..l : sub[i] = rp[i]) => sub = rp
      BY <1>1, <1>2, <2>2, SeqEqual DEF sub
    <3>2. QED BY <2>2, <3>1 DEF sub
  <2>4. ASSUME \A i \in 1..l : rt[i] = rp[i], NEW i \in 1..l
        PROVE  text[(n - l) + i] = part[i]
    <3>1. (l - i) + 1 \in 1..l /\ (l - i) + 1 \in 1..n
      BY <1>1, <1>4
    <3>2. rt[(l - i) + 1] = rp[(l - i) + 1]
      BY <2>4, <3>1
    <3>3. (l - ((l - i) + 1)) + 1 = i /\ (n - ((l - i) + 1)) + 1 = (n - l) + i
      BY <1>1
    <3>4. rp[(l - i) + 1] = part[(l - ((l - i) + 1)) + 1]
      BY <1>2, <3>1
    <3>5. rt[(l - i) + 1] = text[(n - ((l - i) + 1)) + 1]
      BY <1>2, <3>1
    <3>6. QED BY <3>2, <3>3, <3>4, <3>5
  <2>5. ASSUME \A i \in 1..l : text[(n - l) + i] = part[i], NEW i \in 1..l
        PROVE  rt[i] = rp[i]
    <3>1. (l - i) + 1 \in 1..l /\ i \in 1..n /\ (n - l) + ((l - i) + 1) = (n - i) + 1
      BY <1>1, <1>4
    <3>2. text[(n - l) + ((l - i) + 1)] = part[(l - i) + 1]
      BY <2>5, <3>1
    <3>3. QED BY <1>2, <3>1, <3>2
  <2>6. (n - l) + l <= n
    BY <1>1
  <2>7. QED BY <2>1, <2>3, <2>4, <2>5, <2>6 DEF Occurs, sub, n, l
<1>5. QED BY <1>3, <1>4 DEF n, l

\* A text matches itself, whatever stars it holds.
LEMMA MatchesItself ==
  ASSUME NEW text \in Seq(Symbols)
  PROVE  Glob(text, text)
<1> DEFINE Begins(q) == Len(q) <= Len(text) /\ \A i \in 1..Len(q) : q[i] = text[i]
           S == {q \in Seq(Symbols) : Begins(q) => Len(q) \in MatchEnds(q, text)}
<1>1. <<>> \in S
  BY EndsLaws
<1>2. ASSUME NEW q \in Seq(Symbols), NEW e \in Symbols, q \in S
      PROVE  Append(q, e) \in S
  <2> DEFINE r == Append(q, e)
  <2>1. /\ r \in Seq(Symbols) /\ Len(r) = Len(q) + 1 /\ Len(q) \in Nat /\ Len(text) \in Nat
        /\ r[Len(q) + 1] = e /\ \A i \in 1..Len(q) : r[i] = q[i]
    BY AppendProperties
  <2>2. MatchEnds(r, text) = EndsAfter(MatchEnds(q, text), e, text)
    BY EndsLaws
  <2> HIDE DEF r
  <2> SUFFICES ASSUME Begins(r) PROVE Len(r) \in MatchEnds(r, text)
    BY <2>1 DEF r
  <2>3. Len(q) + 1 \in 1..Len(text) /\ Len(q) + 1 \in 1..Len(r) /\ Len(q) <= Len(text)
        /\ (Len(q) + 1) - 1 = Len(q) /\ Len(q) <= Len(q) + 1 /\ Len(q) + 1 \in 0..Len(text)
    BY <2>1
  <2>4. text[Len(q) + 1] = e
    BY <2>1, <2>3
  <2>5. Begins(q)
    <3>1. ASSUME NEW i \in 1..Len(q)
          PROVE  q[i] = text[i]
      <4>1. i \in 1..Len(r)
        BY <2>1
      <4>2. QED BY <2>1, <4>1
    <3>2. QED BY <2>3, <3>1
  <2>6. Len(q) \in MatchEnds(q, text)
    BY <1>2, <2>5
  <2>7. QED BY <2>1, <2>2, <2>3, <2>4, <2>6 DEF EndsAfter
<1>3. text \in S
  <2> HIDE DEF S
  <2>1. QED BY <1>1, <1>2, SeqInduction
<1>4. Len(text) <= Len(text)
  OBVIOUS
<1>5. QED BY <1>3, <1>4 DEF Glob

\* What a pattern is anchored by shows in all of its beginnings but the empty one.
Fits(q, anchored) == q # <<>> => (anchored <=> Head(q) # Star)

\* Between the parts a match ends where the next part may begin; inside a part it ends where
\* an occurrence of what there is of it does.
Closed(ends, parts, text, anchored) ==
  \A k \in 0..Len(text) : k \in ends <=> k \in Starts(parts, text, anchored)
Opened(ends, front, part, text, anchored) ==
  \A k \in 0..Len(text) :
    k \in ends <=> \E j \in Starts(front, text, anchored) : Occurs(part, j, text) /\ k = j + Len(part)

Matched(q, text, anchored) ==
  LET split == Split(q)
      ends == MatchEnds(q, text)
  IN /\ split.open => q # <<>> /\ Last(q) # Star
     /\ q # <<>> /\ ~split.open => Last(q) = Star
     /\ q # <<>> /\ Star \notin Range(q) =>
          anchored /\ split.open /\ Front(split.parts) = <<>> /\ Last(split.parts) = q
     /\ q # <<>> /\ ~split.open => split.parts # <<>> \/ ~anchored
     /\ q # <<>> /\ ~split.open => Closed(ends, split.parts, text, anchored)
     /\ split.open => Opened(ends, Front(split.parts), Last(split.parts), text, anchored)
     /\ split.open /\ Star \in Range(q) => Front(split.parts) # <<>> \/ ~anchored

\* The parts of an open split.
LEMMA OpenParts ==
  ASSUME NEW s \in SplitState, s.open
  PROVE  /\ s.parts # <<>> /\ Front(s.parts) \in Seq(Part) /\ Last(s.parts) \in Part
         /\ s.parts = Append(Front(s.parts), Last(s.parts))
<1>1. s.parts \in Seq(Part) /\ s.parts # <<>>
  BY DEF SplitState
<1>2. QED BY <1>1 DEF Front, Last

\* A part begins in the text.
LEMMA StartsInText ==
  ASSUME NEW text \in Seq(Symbols), NEW front, NEW anchored
  PROVE  Starts(front, text, anchored) \subseteq 0..Len(text)
BY DEF Starts

\* A star closes a part.
LEMMA StarCloses ==
  ASSUME NEW text \in Seq(Symbols), NEW anchored \in BOOLEAN, NEW front \in Seq(Part), NEW part \in Part,
         NEW ends, Opened(ends, front, part, text, anchored), ends \subseteq 0..Len(text)
  PROVE  Closed(EndsAfter(ends, Star, text), Append(front, part), text, anchored)
<1> DEFINE parts == Append(front, part)
<1>1. parts # <<>>
  BY AppendedLast
<1>2. Len(text) \in Nat /\ Len(part) \in Nat
  BY TextTypes
<1>3. ASSUME NEW k \in 0..Len(text)
      PROVE  k \in EndsAfter(ends, Star, text) <=> k \in Starts(parts, text, anchored)
  <2>1. k \in EndsAfter(ends, Star, text) <=> \E j \in ends : j <= k
    BY DEF EndsAfter
  <2>2. k \in Starts(parts, text, anchored) <=>
          Consumed(parts, text, anchored) # Lost /\ Consumed(parts, text, anchored) <= k
    BY <1>1 DEF Starts
  <2>3. k \in Starts(parts, text, anchored) <=>
          \E j \in Starts(front, text, anchored) : Occurs(part, j, text) /\ j + Len(part) <= k
    BY <2>2, TakesFirst
  <2>4. ASSUME NEW j \in ends, j <= k
        PROVE  \E i \in Starts(front, text, anchored) : Occurs(part, i, text) /\ i + Len(part) <= k
    BY <2>4 DEF Opened
  <2>5. ASSUME NEW i \in Starts(front, text, anchored), Occurs(part, i, text), i + Len(part) <= k
        PROVE  \E j \in ends : j <= k
    <3>1. i \in 0..Len(text)
      BY StartsInText
    <3>2. i + Len(part) \in 0..Len(text)
      BY <1>2, <2>5, <3>1 DEF Occurs
    <3>3. i + Len(part) \in ends
      BY <2>5, <3>2 DEF Opened
    <3>4. QED BY <2>5, <3>3
  <2>6. QED BY <2>1, <2>3, <2>4, <2>5
<1>4. QED BY <1>3 DEF Closed

\* Another star changes nothing.
LEMMA StarStays ==
  ASSUME NEW text \in Seq(Symbols), NEW anchored \in BOOLEAN, NEW parts \in Seq(Part),
         parts # <<>> \/ ~anchored, NEW ends, Closed(ends, parts, text, anchored),
         ends \subseteq 0..Len(text)
  PROVE  Closed(EndsAfter(ends, Star, text), parts, text, anchored)
<1> DEFINE c == Consumed(parts, text, anchored)
<1>1. Starts(parts, text, anchored) = {k \in 0..Len(text) : c # Lost /\ c <= k}
  BY DEF Starts
<1>2. c \in Scan(text) /\ Len(text) \in Nat
  <2>1. Star \in Symbols
    BY DEF Symbols
  <2>2. \A e \in Symbols : <<e>> \in Part
    BY DEF Part
  <2>3. <<Star>> \in Part
    BY <2>1, <2>2
  <2>4. \A part \in Part : Consumed(parts, text, anchored) \in Scan(text)
    BY ScanLaws
  <2>5. QED BY <2>3, <2>4
<1>3. c # Lost => c \in 0..Len(text)
  BY <1>2 DEF Scan, Positions
<1> HIDE DEF c
<1>4. ASSUME NEW k \in 0..Len(text)
      PROVE  k \in EndsAfter(ends, Star, text) <=> k \in Starts(parts, text, anchored)
  <2>1. k \in EndsAfter(ends, Star, text) <=> \E j \in ends : j <= k
    BY DEF EndsAfter
  <2>2. \A j \in 0..Len(text) : j \in ends <=> c # Lost /\ c <= j
    BY <1>1 DEF Closed
  <2>3. ASSUME NEW j \in ends, j <= k
        PROVE  c # Lost /\ c <= k
    <3>1. j \in 0..Len(text) /\ c # Lost /\ c <= j
      BY <2>2, <2>3
    <3>2. QED BY <1>3, <2>3, <3>1
  <2>4. QED BY <1>1, <2>1, <2>2, <2>3
<1>5. QED BY <1>4 DEF Closed

\* A symbol opens a part or lets it grow.
LEMMA SymbolOpens ==
  ASSUME NEW text \in Seq(Symbols), NEW anchored \in BOOLEAN, NEW parts \in Seq(Part),
         NEW ends, ends \subseteq 0..Len(text), Closed(ends, parts, text, anchored),
         NEW e \in Symbols, e # Star
  PROVE  Opened(EndsAfter(ends, e, text), parts, <<e>>, text, anchored)
<1>1. Len(text) \in Nat /\ Len(<<e>>) = 1 /\ <<e>>[1] = e
  BY TextTypes
<1>2. ASSUME NEW j \in 0..Len(text)
      PROVE  Occurs(<<e>>, j, text) <=> j + 1 <= Len(text) /\ text[j + 1] = e
  BY <1>1 DEF Occurs
<1>3. ASSUME NEW k \in 0..Len(text)
      PROVE  k \in EndsAfter(ends, e, text) <=>
               \E j \in Starts(parts, text, anchored) : Occurs(<<e>>, j, text) /\ k = j + Len(<<e>>)
  <2>1. k \in EndsAfter(ends, e, text) <=> k \in 1..Len(text) /\ k - 1 \in ends /\ text[k] = e
    BY DEF EndsAfter
  <2>2. ASSUME k \in 1..Len(text), k - 1 \in ends, text[k] = e
        PROVE  \E j \in Starts(parts, text, anchored) : Occurs(<<e>>, j, text) /\ k = j + Len(<<e>>)
    <3>1. k - 1 \in 0..Len(text) /\ (k - 1) + 1 = k /\ k <= Len(text)
      BY <1>1, <2>2
    <3>2. k - 1 \in Starts(parts, text, anchored)
      BY <2>2, <3>1 DEF Closed
    <3>3. Occurs(<<e>>, k - 1, text)
      BY <1>2, <2>2, <3>1
    <3>4. QED BY <1>1, <3>1, <3>2, <3>3
  <2>3. ASSUME NEW j \in Starts(parts, text, anchored), Occurs(<<e>>, j, text), k = j + Len(<<e>>)
        PROVE  k \in 1..Len(text) /\ k - 1 \in ends /\ text[k] = e
    <3>1. j \in 0..Len(text)
      BY StartsInText
    <3>2. j + 1 <= Len(text) /\ text[j + 1] = e /\ j \in ends
      BY <1>2, <2>3, <3>1 DEF Closed
    <3>3. k = j + 1 /\ k - 1 = j
      BY <1>1, <2>3, <3>1
    <3>4. QED BY <1>1, <3>1, <3>2, <3>3
  <2>4. QED BY <2>1, <2>2, <2>3
<1>4. QED BY <1>3 DEF Opened

\* In an open part a symbol lets the part grow.
LEMMA SymbolGrows ==
  ASSUME NEW text \in Seq(Symbols), NEW anchored \in BOOLEAN, NEW front \in Seq(Part), NEW part \in Part,
         NEW ends, ends \subseteq 0..Len(text), Opened(ends, front, part, text, anchored),
         NEW e \in Symbols, e # Star
  PROVE  Opened(EndsAfter(ends, e, text), front, Append(part, e), text, anchored)
<1> DEFINE grown == Append(part, e)
<1>1. Len(text) \in Nat /\ Len(part) \in Nat /\ part \in Seq(Symbols) /\ Len(grown) = Len(part) + 1
  BY TextTypes, AppendedLast
<1>2. ASSUME NEW j \in 0..Len(text)
      PROVE  Occurs(grown, j, text) <=>
               Occurs(part, j, text) /\ j + Len(part) + 1 <= Len(text) /\ text[j + Len(part) + 1] = e
  BY <1>1, OccursAppend
<1> HIDE DEF grown
<1>3. ASSUME NEW k \in 0..Len(text)
      PROVE  k \in EndsAfter(ends, e, text) <=>
               \E j \in Starts(front, text, anchored) : Occurs(grown, j, text) /\ k = j + Len(grown)
  <2>1. k \in EndsAfter(ends, e, text) <=> k \in 1..Len(text) /\ k - 1 \in ends /\ text[k] = e
    BY DEF EndsAfter
  <2>2. ASSUME k \in 1..Len(text), k - 1 \in ends, text[k] = e
        PROVE  \E j \in Starts(front, text, anchored) : Occurs(grown, j, text) /\ k = j + Len(grown)
    <3>1. k - 1 \in 0..Len(text) /\ k <= Len(text)
      BY <1>1, <2>2
    <3>2. PICK j \in Starts(front, text, anchored) : Occurs(part, j, text) /\ k - 1 = j + Len(part)
      BY <2>2, <3>1 DEF Opened
    <3>3. j \in 0..Len(text)
      BY StartsInText
    <3>4. k = j + Len(part) + 1 /\ k = j + Len(grown)
      BY <1>1, <3>2, <3>3
    <3>5. Occurs(grown, j, text)
      BY <1>2, <2>2, <3>1, <3>2, <3>3, <3>4
    <3>6. QED BY <3>4, <3>5
  <2>3. ASSUME NEW j \in Starts(front, text, anchored), Occurs(grown, j, text), k = j + Len(grown)
        PROVE  k \in 1..Len(text) /\ k - 1 \in ends /\ text[k] = e
    <3>1. j \in 0..Len(text)
      BY StartsInText
    <3>2. Occurs(part, j, text) /\ j + Len(part) + 1 <= Len(text) /\ text[j + Len(part) + 1] = e
      BY <1>2, <2>3, <3>1
    <3>3. k = j + Len(part) + 1 /\ k - 1 = j + Len(part) /\ j + Len(part) \in 0..Len(text)
          /\ k \in 1..Len(text)
      BY <1>1, <2>3, <3>1, <3>2
    <3>4. j + Len(part) \in ends
      BY <3>2, <3>3 DEF Opened
    <3>5. QED BY <3>2, <3>3, <3>4
  <2>4. QED BY <2>1, <2>2, <2>3
<1>4. QED BY <1>3 DEF Opened, grown

\* The last element of a list is one of it.
LEMMA LastInRange ==
  ASSUME NEW A, NEW p \in Seq(A), p # <<>>
  PROVE  Last(p) \in Range(p)
<1>1. Len(p) \in DOMAIN p
  OBVIOUS
<1>2. QED BY <1>1 DEF Last, Range

\* The parts of a pattern with one symbol more.
LEMMA SplitGrows ==
  ASSUME NEW q \in Seq(Symbols), NEW e \in Symbols
  PROVE  /\ e = Star => Split(Append(q, e)).parts = Split(q).parts /\ ~Split(Append(q, e)).open
         /\ e # Star => Split(Append(q, e)).open
         /\ e # Star /\ Split(q).open =>
              Split(Append(q, e)).parts = Append(Front(Split(q).parts), Append(Last(Split(q).parts), e))
         /\ e # Star /\ ~Split(q).open => Split(Append(q, e)).parts = Append(Split(q).parts, <<e>>)
<1>1. Split(Append(q, e)) = SplitSymbol(Split(q), e) /\ Split(q) \in SplitState
  BY SplitLaws
<1>2. Split(q) \in [parts : Seq(Part), open : BOOLEAN]
  BY <1>1 DEF SplitState
<1>3. QED BY <1>1, <1>2 DEF SplitSymbol

\* The start of a text ends the match of no symbols.
LEMMA NothingMatched ==
  ASSUME NEW text \in Seq(Symbols), NEW anchored \in BOOLEAN
  PROVE  /\ ~anchored => Closed(EndsAfter({0}, Star, text), <<>>, text, anchored)
         /\ anchored => Closed({0}, <<>>, text, anchored)
<1>1. Consumed(<<>>, text, anchored) = 0 /\ 0 # Lost /\ Len(text) \in Nat
  BY ScanLaws DEF Lost
<1>2. CASE ~anchored
  <2>1. Starts(<<>>, text, anchored) = {k \in 0..Len(text) : 0 <= k}
    BY <1>1, <1>2 DEF Starts
  <2>2. EndsAfter({0}, Star, text) = {k \in 0..Len(text) : 0 <= k}
    BY DEF EndsAfter
  <2>3. QED BY <1>2, <2>1, <2>2 DEF Closed
<1>3. CASE anchored
  <2>1. Starts(<<>>, text, anchored) = {0}
    BY <1>3 DEF Starts
  <2>2. QED BY <1>3, <2>1 DEF Closed
<1>4. QED BY <1>2, <1>3

\* What a star more makes of a match.
LEMMA StarMatched ==
  ASSUME NEW text \in Seq(Symbols), NEW anchored \in BOOLEAN, NEW q \in Seq(Symbols),
         Matched(q, text, anchored), Fits(Append(q, Star), anchored)
  PROVE  Matched(Append(q, Star), text, anchored)
<1> DEFINE r == Append(q, Star)
           s == Split(q)
           t == Split(r)
           ends == MatchEnds(q, text)
<1>1. Star \in Symbols
  BY DEF Symbols
<1>2. /\ r # <<>> /\ Last(r) = Star /\ Star \in Range(r)
      /\ Head(r) = IF q = <<>> THEN Star ELSE Head(q)
  BY <1>1, AppendedLast
<1>3. t.parts = s.parts /\ ~t.open
  BY <1>1, SplitGrows
<1>4. s \in SplitState /\ s.parts \in Seq(Part) /\ s.open \in BOOLEAN
  BY SplitLaws DEF SplitState
<1>5. MatchEnds(r, text) = EndsAfter(ends, Star, text) /\ ends \subseteq 0..Len(text)
  BY <1>1, EndsLaws DEF Positions
<1> HIDE DEF r
<1>6. CASE q = <<>>
  <2>1. ~anchored
    BY <1>2, <1>6 DEF Fits, r
  <2>2. s.parts = <<>> /\ ends = {0}
    BY <1>6, SplitLaws, EndsLaws DEF Unsplit
  <2>3. Closed(MatchEnds(r, text), t.parts, text, anchored)
    BY <1>3, <1>5, <2>1, <2>2, NothingMatched
  <2> HIDE DEF s, t, ends
  <2>4. QED BY <1>2, <1>3, <2>1, <2>3 DEF Matched, r, t
<1>7. CASE q # <<>> /\ s.open
  <2>1. Opened(ends, Front(s.parts), Last(s.parts), text, anchored)
    BY <1>7 DEF Matched
  <2>2. s.parts # <<>> /\ Front(s.parts) \in Seq(Part) /\ Last(s.parts) \in Part
        /\ s.parts = Append(Front(s.parts), Last(s.parts))
    BY <1>4, <1>7, OpenParts
  <2>3. Closed(MatchEnds(r, text), t.parts, text, anchored)
    <3> DEFINE f == Front(s.parts)
               l == Last(s.parts)
    <3> HIDE DEF f, l, s, t, ends
    <3>1. f \in Seq(Part) /\ l \in Part /\ s.parts = Append(f, l) /\ Opened(ends, f, l, text, anchored)
      BY <2>1, <2>2 DEF f, l
    <3>2. Closed(EndsAfter(ends, Star, text), Append(f, l), text, anchored)
      BY <1>5, <3>1, StarCloses
    <3>3. QED BY <1>3, <1>5, <3>1, <3>2
  <2> HIDE DEF s, t, ends
  <2>4. QED BY <1>2, <1>3, <2>2, <2>3 DEF Matched, r, t
<1>8. CASE q # <<>> /\ ~s.open
  <2>1. Closed(ends, s.parts, text, anchored) /\ (s.parts # <<>> \/ ~anchored)
    BY <1>8 DEF Matched
  <2> HIDE DEF s, t, ends
  <2>2. Closed(EndsAfter(ends, Star, text), s.parts, text, anchored)
    BY <1>4, <1>5, <2>1, StarStays
  <2>3. Closed(MatchEnds(r, text), t.parts, text, anchored)
    BY <1>3, <1>5, <2>2
  <2>4. QED BY <1>2, <1>3, <2>1, <2>3 DEF Matched, r, t
<1>9. CASE q = <<>> /\ s.open
  BY <1>6, <1>9
<1>10. QED BY <1>4, <1>6, <1>7, <1>8

\* What another symbol more makes of a match.
LEMMA SymbolMatched ==
  ASSUME NEW text \in Seq(Symbols), NEW anchored \in BOOLEAN, NEW q \in Seq(Symbols), NEW e \in Symbols,
         e # Star, Matched(q, text, anchored), Fits(Append(q, e), anchored)
  PROVE  Matched(Append(q, e), text, anchored)
<1> DEFINE r == Append(q, e)
           s == Split(q)
           t == Split(r)
           ends == MatchEnds(q, text)
<1>1. /\ r # <<>> /\ Last(r) = e /\ Range(r) = Range(q) \cup {e}
      /\ Head(r) = IF q = <<>> THEN e ELSE Head(q)
  BY AppendedLast
<1>2. /\ t.open
      /\ s.open => t.parts = Append(Front(s.parts), Append(Last(s.parts), e))
      /\ ~s.open => t.parts = Append(s.parts, <<e>>)
  BY SplitGrows
<1>3. s \in SplitState /\ s.parts \in Seq(Part) /\ s.open \in BOOLEAN
  BY SplitLaws DEF SplitState
<1>4. MatchEnds(r, text) = EndsAfter(ends, e, text) /\ ends \subseteq 0..Len(text)
  BY EndsLaws DEF Positions
<1>5. q = <<>> => s.parts = <<>> /\ ~s.open /\ ends = {0} /\ anchored /\ r = <<e>>
  <2>1. ASSUME q = <<>>
        PROVE  Head(r) = e /\ r = <<e>> /\ r # <<>>
    BY <1>1, <2>1
  <2>2. q = <<>> => s = Unsplit /\ ends = {0}
    BY SplitLaws, EndsLaws
  <2>3. QED BY <2>1, <2>2 DEF Unsplit, Fits, r
<1>6. <<e>> \in Part
  BY DEF Part
<1>7. CASE s.open
  <2> DEFINE f == Front(s.parts)
             l == Last(s.parts)
  <2>1. q # <<>> /\ f \in Seq(Part) /\ l \in Part /\ s.parts = Append(f, l)
        /\ Opened(ends, f, l, text, anchored)
        /\ (Star \in Range(q) => f # <<>> \/ ~anchored)
        /\ (Star \notin Range(q) => anchored /\ f = <<>> /\ l = q)
    <3>1. s.parts # <<>> /\ f \in Seq(Part) /\ l \in Part /\ s.parts = Append(f, l)
      BY <1>3, <1>7, OpenParts
    <3>2. q # <<>>
      BY <1>5, <1>7
    <3>3. QED BY <1>7, <3>1, <3>2 DEF Matched
  <2> HIDE DEF f, l
  <2> DEFINE m == Append(l, e)
  <2>2. m \in Part
    <3>1. l \in Seq(Symbols)
      BY <2>1 DEF Part
    <3>2. QED BY <3>1, AppendedLast DEF Part
  <2>3. t.parts = Append(f, m)
    BY <1>2, <1>7 DEF f, l
  <2>4. Opened(MatchEnds(r, text), f, m, text, anchored)
    <3> HIDE DEF s, t, r, ends
    <3>1. QED BY <1>4, <2>1, SymbolGrows
  <2>5. Star \notin Range(q) => m = r
    BY <2>1
  <2> HIDE DEF m
  <2>6. Front(t.parts) = f /\ Last(t.parts) = m
    <3> HIDE DEF s, t, r, ends
    <3>1. QED BY <2>1, <2>2, <2>3, AppendedLast
  <2> HIDE DEF s, t, r, ends
  <2>7. Star \in Range(r) <=> Star \in Range(q)
    BY <1>1
  <2>8. QED BY <1>1, <1>2, <2>1, <2>4, <2>5, <2>6, <2>7 DEF Matched, r, t
<1>8. CASE ~s.open
  <2>1. Closed(ends, s.parts, text, anchored)
    <3>1. CASE q = <<>>
      BY <1>5, <3>1, NothingMatched
    <3>2. CASE q # <<>>
      BY <1>8, <3>2 DEF Matched
    <3>3. QED BY <3>1, <3>2
  <2>2. t.parts = Append(s.parts, <<e>>)
    BY <1>2, <1>8
  <2>3. q # <<>> => Star \in Range(q) /\ (s.parts # <<>> \/ ~anchored)
    <3>1. q # <<>> => Last(q) = Star /\ (s.parts # <<>> \/ ~anchored)
      BY <1>8 DEF Matched
    <3>2. q # <<>> => Last(q) \in Range(q)
      BY LastInRange
    <3>3. QED BY <3>1, <3>2
  <2> HIDE DEF s, t, r, ends
  <2>4. Opened(MatchEnds(r, text), s.parts, <<e>>, text, anchored)
    BY <1>3, <1>4, <2>1, SymbolOpens
  <2>5. Front(t.parts) = s.parts /\ Last(t.parts) = <<e>>
    BY <1>3, <1>6, <2>2, AppendedLast
  <2>6. Star \in Range(r) => q # <<>> /\ Star \in Range(q)
    <3>1. q = <<>> => Range(q) = {}
      BY DEF Range
    <3>2. QED BY <1>1, <3>1
  <2>7. Star \notin Range(r) => q = <<>>
    BY <1>1, <2>3
  <2>8. QED BY <1>1, <1>2, <1>5, <2>3, <2>4, <2>5, <2>6, <2>7 DEF Matched, r, t
<1>9. QED BY <1>3, <1>7, <1>8

\* Every beginning of a pattern is matched as its parts say.
LEMMA EveryMatch ==
  ASSUME NEW text \in Seq(Symbols), NEW anchored \in BOOLEAN, NEW q \in Seq(Symbols), Fits(q, anchored)
  PROVE  Matched(q, text, anchored)
<1> DEFINE S == {p \in Seq(Symbols) : Fits(p, anchored) => Matched(p, text, anchored)}
<1>1. <<>> \in S
  <2>1. ~Split(<<>>).open
    BY SplitLaws DEF Unsplit
  <2>2. Matched(<<>>, text, anchored)
    BY <2>1 DEF Matched
  <2>3. QED BY <2>2
<1>2. ASSUME NEW p \in Seq(Symbols), NEW e \in Symbols, p \in S
      PROVE  Append(p, e) \in S
  <2>1. Append(p, e) \in Seq(Symbols)
    OBVIOUS
  <2> SUFFICES ASSUME Fits(Append(p, e), anchored) PROVE Matched(Append(p, e), text, anchored)
    BY <2>1
  <2>2. Fits(p, anchored)
    <3>1. Append(p, e) # <<>> /\ Head(Append(p, e)) = IF p = <<>> THEN e ELSE Head(p)
      BY AppendedLast
    <3>2. QED BY <3>1 DEF Fits
  <2>3. Matched(p, text, anchored)
    BY <1>2, <2>2
  <2>4. CASE e = Star
    <3>1. Fits(Append(p, Star), anchored)
      BY <2>4
    <3>2. Matched(Append(p, Star), text, anchored)
      BY <2>3, <3>1, StarMatched
    <3>3. QED BY <2>4, <3>2
  <2>5. CASE e # Star
    BY <2>3, <2>5, SymbolMatched
  <2>6. QED BY <2>4, <2>5
<1>3. q \in S
  <2> HIDE DEF S
  <2>1. QED BY <1>1, <1>2, SeqInduction
<1>4. QED BY <1>3

\* An anchored part that is a text.
LEMMA WholeText ==
  ASSUME NEW text \in Seq(Symbols), NEW part \in Part
  PROVE  Occurs(part, 0, text) /\ Len(part) = Len(text) => part = text
<1>1. part \in Seq(Symbols) /\ Len(text) \in Nat /\ Len(part) \in Nat
  BY TextTypes
<1>2. ASSUME Occurs(part, 0, text), Len(part) = Len(text)
      PROVE  part = text
  <2>1. ASSUME NEW i \in 1..Len(part)
        PROVE  part[i] = text[i]
    <3>1. text[0 + i] = part[i]
      BY <1>2 DEF Occurs
    <3>2. 0 + i = i
      BY <1>1
    <3>3. QED BY <3>1, <3>2
  <2>2. QED BY <1>1, <1>2, <2>1, SeqEqual
<1>3. QED BY <1>2

\* wildcard_match finds a match exactly when there is one.
THEOREM WildcardsMatch ==
  ASSUME NEW pattern \in Seq(Symbols), NEW text \in Seq(Symbols)
  PROVE  WildcardMatch(pattern, text) <=> Glob(pattern, text)
<1> DEFINE n == Len(text)
           s == Split(pattern)
           anchored == Head(pattern) # Star
           ends == MatchEnds(pattern, text)
<1>1. n \in Nat /\ n \in 0..n
  OBVIOUS
<1>2. Glob(pattern, text) <=> n \in ends
  BY DEF Glob
<1>3. CASE pattern = text
  BY <1>3, MatchesItself DEF WildcardMatch
<1>4. CASE pattern # text /\ pattern = <<>>
  <2>1. n # 0
    BY <1>4, EmptySeq
  <2>2. ends = {0} /\ Star \notin Range(pattern)
    BY <1>4, EndsLaws DEF Range
  <2>3. QED BY <1>2, <1>4, <2>1, <2>2 DEF WildcardMatch
<1>5. CASE pattern # text /\ pattern # <<>>
  <2>1. anchored \in BOOLEAN /\ Fits(pattern, anchored)
    BY DEF Fits
  <2> HIDE DEF anchored
  <2>2. Matched(pattern, text, anchored)
    BY <2>1, EveryMatch
  <2>3. WildcardMatch(pattern, text) <=>
          /\ Star \in Range(pattern)
          /\ Consumed(s.parts, text, anchored) # Lost
          /\ Last(pattern) # Star => IsSuffix(Last(s.parts), text)
    BY <1>5 DEF WildcardMatch, Parts, anchored
  <2>4. s \in SplitState /\ s.parts \in Seq(Part) /\ s.open \in BOOLEAN
    BY SplitLaws DEF SplitState
  <2>5. CASE ~s.open
    <3>1. Last(pattern) = Star /\ Closed(ends, s.parts, text, anchored) /\ (s.parts # <<>> \/ ~anchored)
      BY <1>5, <2>2, <2>5 DEF Matched
    <3>2. Star \in Range(pattern)
      BY <1>5, <3>1, LastInRange
    <3>3. n \in ends <=> Consumed(s.parts, text, anchored) # Lost /\ Consumed(s.parts, text, anchored) <= n
      BY <1>1, <3>1 DEF Closed, Starts
    <3>4. Consumed(s.parts, text, anchored) # Lost => Consumed(s.parts, text, anchored) <= n
      <4>1. Consumed(s.parts, text, anchored) \in Scan(text)
        <5>1. Star \in Symbols
          BY DEF Symbols
        <5>2. \A e \in Symbols : <<e>> \in Part
          BY DEF Part
        <5>3. <<Star>> \in Part
          BY <5>1, <5>2
        <5>4. \A part \in Part : Consumed(s.parts, text, anchored) \in Scan(text)
          BY <2>4, ScanLaws
        <5>5. QED BY <5>3, <5>4
      <4>2. QED BY <1>1, <4>1 DEF Scan, Positions
    <3>5. QED BY <1>2, <2>3, <3>1, <3>2, <3>3, <3>4
  <2>6. CASE s.open
    <3> DEFINE f == Front(s.parts)
               l == Last(s.parts)
               d == Consumed(s.parts, text, anchored)
    <3>1. f \in Seq(Part) /\ l \in Part /\ s.parts = Append(f, l)
      BY <2>4, <2>6, OpenParts
    <3>2. /\ Last(pattern) # Star /\ Opened(ends, f, l, text, anchored)
          /\ (Star \in Range(pattern) => f # <<>> \/ ~anchored)
          /\ (Star \notin Range(pattern) => anchored /\ f = <<>> /\ l = pattern)
      BY <1>5, <2>2, <2>6 DEF Matched
    <3> HIDE DEF f, l
    <3>3. Len(l) \in Nat /\ Len(l) > 0
      BY <3>1, TextTypes
    <3>4. n \in ends <=> \E j \in Starts(f, text, anchored) : Occurs(l, j, text) /\ n = j + Len(l)
      BY <1>1, <3>2 DEF Opened
    <3>5. \A j \in Starts(f, text, anchored) : j \in 0..n
      BY StartsInText
    <3>6. CASE Star \in Range(pattern)
      <4>1. IsSuffix(l, text) <=> Len(l) <= n /\ Occurs(l, n - Len(l), text)
        BY <3>1, SuffixOccurs
      <4>2. (d # Lost /\ d <= n) <=> \E j \in Starts(f, text, anchored) : Occurs(l, j, text) /\ j + Len(l) <= n
        <5> HIDE DEF s
        <5>1. QED BY <1>1, <2>1, <3>1, TakesFirst
      <4>3. d # Lost => d <= n
        <5>1. d \in Scan(text)
          <6>1. \A part \in Part : Consumed(s.parts, text, anchored) \in Scan(text)
            BY <2>4, ScanLaws
          <6>2. QED BY <3>1, <6>1
        <5>2. QED BY <1>1, <5>1 DEF Scan, Positions
      <4>4. \E c : Starts(f, text, anchored) = {k \in 0..n : c \in Int /\ c # Lost /\ c <= k}
        <5> DEFINE c == Consumed(f, text, anchored)
        <5>1. c \in Scan(text)
          BY <3>1, ScanLaws
        <5>2. c \in Int
          BY <1>1, <5>1 DEF Scan, Positions, Lost
        <5>3. Starts(f, text, anchored) = {k \in 0..n : c # Lost /\ c <= k}
          BY <3>2, <3>6 DEF Starts
        <5>4. QED BY <5>2, <5>3
      <4>5. PICK c : Starts(f, text, anchored) = {k \in 0..n : c \in Int /\ c # Lost /\ c <= k}
        BY <4>4
      <4> HIDE DEF d, n, ends, s
      <4>6. ASSUME d # Lost, IsSuffix(l, text)
            PROVE  n \in ends
        <5>1. PICK j \in Starts(f, text, anchored) : Occurs(l, j, text) /\ j + Len(l) <= n
          BY <4>2, <4>3, <4>6
        <5>2. Len(l) <= n /\ Occurs(l, n - Len(l), text) /\ n - Len(l) \in 0..n /\ j <= n - Len(l)
              /\ n = (n - Len(l)) + Len(l)
          BY <1>1, <3>3, <3>5, <4>1, <4>6, <5>1
        <5>3. n - Len(l) \in Starts(f, text, anchored)
          BY <1>1, <3>3, <3>5, <4>5, <5>1, <5>2
        <5>4. QED BY <3>4, <5>2, <5>3
      <4>7. ASSUME n \in ends
            PROVE  d # Lost /\ IsSuffix(l, text)
        <5>1. PICK j \in Starts(f, text, anchored) : Occurs(l, j, text) /\ n = j + Len(l)
          BY <3>4, <4>7
        <5>2. n - Len(l) = j /\ Len(l) <= n /\ j + Len(l) <= n
          BY <1>1, <3>3, <3>5, <5>1
        <5>3. QED BY <4>1, <4>2, <5>1, <5>2
      <4>8. WildcardMatch(pattern, text) <=> d # Lost /\ IsSuffix(l, text)
        BY <2>3, <3>2, <3>6 DEF d, l
      <4>9. QED BY <1>2, <4>6, <4>7, <4>8
    <3>7. CASE Star \notin Range(pattern)
      <4>1. Starts(f, text, anchored) = {0} /\ l = pattern
        BY <3>2, <3>7 DEF Starts
      <4>2. n \notin ends
        <5>1. SUFFICES ASSUME n \in ends PROVE FALSE
          OBVIOUS
        <5>2. Occurs(l, 0, text) /\ n = 0 + Len(l)
          BY <3>4, <4>1, <5>1
        <5>3. Len(l) = n
          BY <3>3, <5>2
        <5>4. l = text
          BY <3>1, <5>2, <5>3, WholeText
        <5>5. QED BY <1>5, <4>1, <5>4
      <4>3. QED BY <1>2, <2>3, <3>7, <4>2
    <3>8. QED BY <3>6, <3>7
  <2>7. QED BY <2>4, <2>5, <2>6
<1>6. QED BY <1>3, <1>4, <1>5

\* The step of a joined text by one text.
JoinStep(separator) == [q \in Seq(Symbols) \X Seq(Symbols) |-> q[1] \o <<separator>> \o q[2]]

\* Texts are joined to a text.
LEMMA JoinType ==
  ASSUME NEW separator \in Symbols, NEW texts \in Seq(Seq(Symbols))
  PROVE  JoinWith(texts, separator) \in Seq(Symbols)
<1>1. CASE texts = <<>>
  <2>1. JoinWith(texts, separator) = <<>>
    BY <1>1, Zenon DEF JoinWith
  <2>2. QED BY <2>1
<1>2. CASE texts # <<>>
  <2> DEFINE V == Seq(Symbols)
             p == Tail(texts)
             start == Head(texts)
             next == JoinStep(separator)
             Iterates(g) == g = [s \in SUBSET (DOMAIN p) |->
                                   IF s = {} THEN start
                                   ELSE g[s \ {Max(s)}] \o <<separator>> \o p[Max(s)]]
             iter == CHOOSE g : Iterates(g)
  <2>1. start \in V /\ p \in Seq(V)
    BY <1>2
  <2>2. next \in [V \X V -> V]
    <3>1. \A a \in V, b \in V : a \o <<separator>> \o b \in V
      OBVIOUS
    <3>2. QED BY <3>1 DEF JoinStep
  <2>3. JoinWith(texts, separator) = iter[DOMAIN p]
    BY <1>2 DEF JoinWith, FoldLeft, MapThenFoldSet
  <2> HIDE DEF p, start, V
  <2>4. Range(p) \subseteq V
    BY <2>1 DEF Range
  <2>5. PICK g \in [SUBSET (DOMAIN p) -> V] : StepsOver(V, start, next, p, g)
    <3> HIDE DEF next
    <3>1. QED BY <2>1, <2>2, StepsExist
  <2>6. Iterates(g)
    <3>1. ASSUME NEW s \in SUBSET (DOMAIN p), s # {}
          PROVE  g[s] = g[s \ {Max(s)}] \o <<separator>> \o p[Max(s)]
      <4>1. g[s \ {Max(s)}] \in V /\ p[Max(s)] \in V
            /\ g[s] = next[<<g[s \ {Max(s)}], p[Max(s)]>>]
        BY <2>4, <2>5, <3>1 DEF StepsOver
      <4>2. QED BY <4>1 DEF JoinStep, V
    <3>2. g[{}] = start
      BY <2>5 DEF StepsOver
    <3>3. QED BY <2>5, <3>1, <3>2
  <2>7. Iterates(iter)
    <3> HIDE DEF Iterates
    <3>1. QED BY <2>6
  <2> HIDE DEF iter
  <2>8. StepsOver(V, start, next, p, iter)
    <3>1. ASSUME NEW s \in SUBSET (DOMAIN p), s # {}, iter[s \ {Max(s)}] \in V
          PROVE  p[Max(s)] \in Range(p) /\ iter[s] = next[<<iter[s \ {Max(s)}], p[Max(s)]>>]
      <4>1. p[Max(s)] \in Range(p)
        BY <2>5, <3>1 DEF StepsOver
      <4>2. iter[s] = iter[s \ {Max(s)}] \o <<separator>> \o p[Max(s)]
        BY <2>7, <3>1
      <4>3. QED BY <2>4, <3>1, <4>1, <4>2 DEF JoinStep, V
    <3>2. iter[{}] = start
      BY <2>7
    <3> HIDE DEF Iterates, next
    <3>3. QED BY <3>1, <3>2 DEF StepsOver
  <2>9. FoldsTo(V, start, next, p, iter[DOMAIN p])
    <3> HIDE DEF next
    <3>1. QED BY <2>1, <2>2, <2>8, StepsFold
  <2>10. iter[DOMAIN p] \in V
    <3> DEFINE v == iter[DOMAIN p]
    <3> HIDE DEF v, next
    <3>1. PICK t : TraceOf(V, start, next, p, t) /\ v = t[Len(p)]
      BY <2>9 DEF FoldsTo, v
    <3>2. Len(p) \in 0..Len(p)
      BY <2>1
    <3>3. QED BY <3>1, <3>2 DEF TraceOf, v
  <2>11. QED BY <2>3, <2>10 DEF V
<1>3. QED BY <1>1, <1>2

-----------------------------------------------------------------------------
(* Paths *)

\* The parts of names, of those of a detour too (no prover knows that a literal is in STRING).
NamePart == STRING \cup {"", "x"}
Names == Seq(NamePart)
Walk == Seq(Names)

\* Every path is one of these.
LEMMA PathsAreWalks ==
  ASSUME NEW p \in Path
  PROVE  p \in Walk
<1>1. STRING \subseteq NamePart
  BY DEF NamePart
<1>2. Name \subseteq Names
  BY <1>1, SeqMonotonic DEF Name, Names
<1>3. QED BY <1>2, SeqMonotonic DEF Path, Walk

\* The steps of lexical_normalize and of collapse_path_traversal.
NormalizeStep == [q \in Walk \X Names |-> NormalizeName(q[1], q[2])]
CollapseStep(absolute) == [q \in Walk \X Names |-> CollapseName(absolute, q[1], q[2])]

\* They lead from names to names.
LEMMA PathSteps ==
  /\ <<>> \in Walk
  /\ NormalizeStep \in [Walk \X Names -> Walk]
  /\ \A absolute : CollapseStep(absolute) \in [Walk \X Names -> Walk]
<1>1. ASSUME NEW out \in Walk, NEW name \in Names
      PROVE  Append(out, name) \in Walk /\ (out # <<>> => Front(out) \in Walk)
  BY DEF Walk, Front
<1>2. NormalizeStep \in [Walk \X Names -> Walk]
  <2>1. \A out \in Walk, name \in Names : NormalizeName(out, name) \in Walk
    BY <1>1 DEF NormalizeName
  <2>2. QED BY <2>1 DEF NormalizeStep
<1>3. ASSUME NEW absolute
      PROVE  CollapseStep(absolute) \in [Walk \X Names -> Walk]
  <2>1. \A out \in Walk, name \in Names : CollapseName(absolute, out, name) \in Walk
    BY <1>1 DEF CollapseName
  <2>2. QED BY <2>1 DEF CollapseStep
<1>4. QED BY <1>2, <1>3 DEF Walk

\* lexical_normalize takes one step for each name of a path.
LEMMA NormalizeFolds ==
  ASSUME NEW p \in Walk
  PROVE  FoldsTo(Walk, <<>>, NormalizeStep, p, LexicalNormalize(p))
<1> DEFINE Iterates(g) == g = [s \in SUBSET (DOMAIN p) |->
                                 IF s = {} THEN <<>>
                                 ELSE NormalizeName(g[s \ {Max(s)}], p[Max(s)])]
           iter == CHOOSE g : Iterates(g)
<1>1. p \in Seq(Names) /\ Range(p) \subseteq Names
  BY DEF Walk, Range
<1>2. PICK g \in [SUBSET (DOMAIN p) -> Walk] : StepsOver(Walk, <<>>, NormalizeStep, p, g)
  BY <1>1, PathSteps, StepsExist
<1>3. Iterates(g)
  <2>1. ASSUME NEW s \in SUBSET (DOMAIN p), s # {}
        PROVE  g[s] = NormalizeName(g[s \ {Max(s)}], p[Max(s)])
    <3>1. g[s \ {Max(s)}] \in Walk /\ p[Max(s)] \in Names
          /\ g[s] = NormalizeStep[<<g[s \ {Max(s)}], p[Max(s)]>>]
      BY <1>1, <1>2, <2>1 DEF StepsOver
    <3>2. QED BY <3>1 DEF NormalizeStep
  <2>2. g[{}] = <<>>
    BY <1>2 DEF StepsOver
  <2>3. QED BY <1>2, <2>1, <2>2
<1>4. Iterates(iter)
  <2> HIDE DEF Iterates
  <2>1. QED BY <1>3
<1>5. LexicalNormalize(p) = iter[DOMAIN p]
  BY DEF LexicalNormalize, FoldLeft, MapThenFoldSet
<1> HIDE DEF iter
<1>6. StepsOver(Walk, <<>>, NormalizeStep, p, iter)
  <2>1. ASSUME NEW s \in SUBSET (DOMAIN p), s # {}, iter[s \ {Max(s)}] \in Walk
        PROVE  p[Max(s)] \in Range(p)
               /\ iter[s] = NormalizeStep[<<iter[s \ {Max(s)}], p[Max(s)]>>]
    <3>1. p[Max(s)] \in Range(p)
      BY <1>2, <2>1 DEF StepsOver
    <3>2. iter[s] = NormalizeName(iter[s \ {Max(s)}], p[Max(s)])
      BY <1>4, <2>1
    <3>3. QED BY <1>1, <2>1, <3>1, <3>2 DEF NormalizeStep
  <2>2. iter[{}] = <<>>
    BY <1>4
  <2> HIDE DEF Iterates
  <2>3. QED BY <2>1, <2>2 DEF StepsOver
<1>7. FoldsTo(Walk, <<>>, NormalizeStep, p, iter[DOMAIN p])
  <2>1. <<>> \in Walk /\ NormalizeStep \in [Walk \X Names -> Walk]
    BY PathSteps
  <2>2. QED BY <1>1, <1>6, <2>1, StepsFold
<1>8. QED BY <1>5, <1>7

\* lexical_normalize by its first and its next name.
LEMMA NormalizeLaws ==
  /\ LexicalNormalize(<<>>) = <<>>
  /\ \A p \in Walk : LexicalNormalize(p) \in Walk
  /\ \A p \in Walk, e \in Names :
       LexicalNormalize(Append(p, e)) = NormalizeName(LexicalNormalize(p), e)
<1>1. LexicalNormalize(<<>>) = <<>>
  BY PathSteps, NormalizeFolds, FoldStart
<1>2. ASSUME NEW p \in Walk, NEW e \in Names
      PROVE  /\ LexicalNormalize(p) \in Walk
             /\ LexicalNormalize(Append(p, e)) = NormalizeName(LexicalNormalize(p), e)
  <2>1. p \in Seq(Names) /\ Append(p, e) \in Walk
    BY DEF Walk
  <2>2. Steps(Walk, NormalizeStep, LexicalNormalize(p), e, LexicalNormalize(Append(p, e)))
    BY <2>1, NormalizeFolds, FoldStep
  <2>3. QED BY <2>2 DEF Steps, NormalizeStep
<1>3. Empty \in Names
  BY DEF Names, NamePart, Empty
<1>4. QED BY <1>1, <1>2, <1>3

\* collapse_path_traversal takes one step for each name of a path.
LEMMA CollapseFolds ==
  ASSUME NEW absolute, NEW p \in Walk
  PROVE  FoldsTo(Walk, <<>>, CollapseStep(absolute), p, CollapsedNames(absolute, p))
<1> DEFINE next == CollapseStep(absolute)
           Iterates(g) == g = [s \in SUBSET (DOMAIN p) |->
                                 IF s = {} THEN <<>>
                                 ELSE CollapseName(absolute, g[s \ {Max(s)}], p[Max(s)])]
           iter == CHOOSE g : Iterates(g)
<1>1. p \in Seq(Names) /\ Range(p) \subseteq Names
  BY DEF Walk, Range
<1>2. PICK g \in [SUBSET (DOMAIN p) -> Walk] : StepsOver(Walk, <<>>, next, p, g)
  BY <1>1, PathSteps, StepsExist
<1>3. Iterates(g)
  <2>1. ASSUME NEW s \in SUBSET (DOMAIN p), s # {}
        PROVE  g[s] = CollapseName(absolute, g[s \ {Max(s)}], p[Max(s)])
    <3>1. g[s \ {Max(s)}] \in Walk /\ p[Max(s)] \in Names
          /\ g[s] = next[<<g[s \ {Max(s)}], p[Max(s)]>>]
      BY <1>1, <1>2, <2>1 DEF StepsOver
    <3>2. QED BY <3>1 DEF CollapseStep
  <2>2. g[{}] = <<>>
    BY <1>2 DEF StepsOver
  <2>3. QED BY <1>2, <2>1, <2>2
<1>4. Iterates(iter)
  <2> HIDE DEF Iterates
  <2>1. QED BY <1>3
<1>5. CollapsedNames(absolute, p) = iter[DOMAIN p]
  BY DEF CollapsedNames, FoldLeft, MapThenFoldSet
<1> HIDE DEF iter
<1>6. StepsOver(Walk, <<>>, next, p, iter)
  <2>1. ASSUME NEW s \in SUBSET (DOMAIN p), s # {}, iter[s \ {Max(s)}] \in Walk
        PROVE  p[Max(s)] \in Range(p)
               /\ iter[s] = next[<<iter[s \ {Max(s)}], p[Max(s)]>>]
    <3>1. p[Max(s)] \in Range(p)
      BY <1>2, <2>1 DEF StepsOver
    <3>2. iter[s] = CollapseName(absolute, iter[s \ {Max(s)}], p[Max(s)])
      BY <1>4, <2>1
    <3>3. QED BY <1>1, <2>1, <3>1, <3>2 DEF CollapseStep
  <2>2. iter[{}] = <<>>
    BY <1>4
  <2> HIDE DEF next
  <2> HIDE DEF Iterates
  <2>3. QED BY <2>1, <2>2 DEF StepsOver
<1>7. FoldsTo(Walk, <<>>, CollapseStep(absolute), p, iter[DOMAIN p])
  <2>1. <<>> \in Walk /\ CollapseStep(absolute) \in [Walk \X Names -> Walk]
    BY PathSteps
  <2>2. QED BY <1>1, <1>6, <2>1, StepsFold
<1>8. QED BY <1>5, <1>7

\* collapse_path_traversal by its first and its next name.
LEMMA CollapseLaws ==
  ASSUME NEW absolute
  PROVE  /\ CollapsedNames(absolute, <<>>) = <<>>
         /\ \A p \in Walk : CollapsedNames(absolute, p) \in Walk
         /\ \A p \in Walk, e \in Names :
              CollapsedNames(absolute, Append(p, e))
                = CollapseName(absolute, CollapsedNames(absolute, p), e)
<1>1. CollapsedNames(absolute, <<>>) = <<>>
  BY PathSteps, CollapseFolds, FoldStart
<1>2. ASSUME NEW p \in Walk, NEW e \in Names
      PROVE  /\ CollapsedNames(absolute, p) \in Walk
             /\ CollapsedNames(absolute, Append(p, e))
                  = CollapseName(absolute, CollapsedNames(absolute, p), e)
  <2>1. p \in Seq(Names) /\ Append(p, e) \in Walk
    BY DEF Walk
  <2>2. Steps(Walk, CollapseStep(absolute), CollapsedNames(absolute, p), e,
              CollapsedNames(absolute, Append(p, e)))
    BY <2>1, CollapseFolds, FoldStep
  <2>3. QED BY <2>2 DEF Steps, CollapseStep
<1>3. Empty \in Names
  BY DEF Names, NamePart, Empty
<1>4. QED BY <1>1, <1>2, <1>3

\* The lists of names that paths are made of.
LEMMA PathTypes ==
  /\ <<>> \in Walk /\ Empty \in Names /\ Dot \in Names /\ DotDot \in Names /\ <<"x">> \in Names
  /\ \A p \in Walk : /\ Len(p) \in Nat /\ DOMAIN p = 1..Len(p) /\ \A i \in 1..Len(p) : p[i] \in Names
                     /\ \A q \in Walk : p \o q \in Walk
                     /\ \A e \in Names : Append(p, e) \in Walk
<1>1. <<>> \in Walk
  BY DEF Walk
<1>2. Empty \in Names /\ Dot \in Names /\ DotDot \in Names /\ <<"x">> \in Names
  BY DEF Names, NamePart, Empty, Dot, DotDot
<1>3. ASSUME NEW p \in Walk
      PROVE  /\ Len(p) \in Nat /\ DOMAIN p = 1..Len(p) /\ \A i \in 1..Len(p) : p[i] \in Names
             /\ \A q \in Walk : p \o q \in Walk
             /\ \A e \in Names : Append(p, e) \in Walk
  BY DEF Walk
<1>4. QED BY <1>1, <1>2, <1>3

\* A list of names by its last name.
LEMMA FrontAndLast ==
  ASSUME NEW p \in Walk, p # <<>>
  PROVE  Front(p) \in Walk /\ Last(p) \in Names /\ p = Append(Front(p), Last(p))
BY DEF Walk, Front, Last

\* A name appended after a concatenation.
LEMMA ConcatAppend ==
  ASSUME NEW a \in Walk, NEW p \in Walk, NEW e \in Names
  PROVE  a \o Append(p, e) = Append(a \o p, e)
BY DEF Walk

\* The collapsed names: no empty one and no `.`, and under the root no `..`.
Clean(absolute, out) ==
  \A i \in DOMAIN out : out[i] \notin {Empty, Dot} /\ (absolute => out[i] # DotDot)

\* The names that normalising tells apart.
LEMMA NamesDiffer ==
  Empty # Dot /\ Empty # DotDot /\ Dot # DotDot /\ <<"x">> \notin {Empty, Dot, DotDot}
BY DEF Empty, Dot, DotDot

\* Collapsing one name more and walking it from where the names so far lead is the same.
LEMMA CollapseStepDenotes ==
  ASSUME NEW absolute \in BOOLEAN, NEW out \in Walk, Clean(absolute, out), NEW name \in Names,
         NEW r \in Walk, absolute => r = <<>>
  PROVE  /\ Clean(absolute, CollapseName(absolute, out, name))
         /\ LexicalNormalize(r \o CollapseName(absolute, out, name))
              = NormalizeName(LexicalNormalize(r \o out), name)
<1> DEFINE N(p) == LexicalNormalize(p)
<1>1. r \o out \in Walk /\ N(r \o out) \in Walk
  BY PathTypes, NormalizeLaws
<1>2. CASE name \in {Empty, Dot}
  <2>1. CollapseName(absolute, out, name) = out
    BY <1>2, NamesDiffer DEF CollapseName
  <2>2. NormalizeName(N(r \o out), name) = N(r \o out)
    BY <1>2, NamesDiffer DEF NormalizeName
  <2>3. QED BY <2>1, <2>2
<1>3. CASE name = DotDot /\ out # <<>> /\ Last(out) # DotDot
  <2>1. CollapseName(absolute, out, name) = Front(out)
    BY <1>3, NamesDiffer DEF CollapseName
  <2>2. /\ Front(out) \in Walk /\ Last(out) \in Names /\ out = Append(Front(out), Last(out))
        /\ Len(Front(out)) \in Nat /\ Len(out) = Len(Front(out)) + 1 /\ Last(out) = out[Len(out)]
        /\ \A i \in 1..Len(Front(out)) : out[i] = Front(out)[i]
        /\ DOMAIN out = 1..Len(out) /\ DOMAIN Front(out) = 1..Len(Front(out))
    <3>1. Front(out) \in Walk /\ Last(out) \in Names /\ out = Append(Front(out), Last(out))
      BY <1>3, FrontAndLast
    <3>2. /\ Len(Front(out)) \in Nat /\ Len(out) = Len(Front(out)) + 1
          /\ \A i \in 1..Len(Front(out)) : out[i] = Front(out)[i]
      BY <3>1, AppendProperties DEF Walk
    <3>3. DOMAIN out = 1..Len(out) /\ DOMAIN Front(out) = 1..Len(Front(out))
      BY <3>1 DEF Walk
    <3>4. Last(out) = out[Len(out)]
      BY DEF Last
    <3>5. QED BY <3>1, <3>2, <3>3, <3>4
  <2> DEFINE f == Front(out)
             l == Last(out)
  <2> HIDE DEF f, l
  <2>3. r \o f \in Walk /\ N(r \o f) \in Walk /\ r \o out = Append(r \o f, l)
    <3>1. f \in Walk /\ l \in Names /\ out = Append(f, l)
      BY <2>2 DEF f, l
    <3>2. r \o f \in Walk
      BY <3>1, PathTypes
    <3>3. N(r \o f) \in Walk
      BY <3>2, NormalizeLaws
    <3>4. r \o Append(f, l) = Append(r \o f, l)
      BY <3>1, ConcatAppend
    <3>5. QED BY <3>1, <3>2, <3>3, <3>4
  <2>4. l \in Names /\ l \notin {Empty, Dot, DotDot}
    <3>1. Len(out) \in DOMAIN out
      BY <2>2
    <3>2. QED BY <1>3, <2>2, <3>1 DEF Clean, l
  <2>5. N(r \o out) = Append(N(r \o f), l)
    <3>1. N(Append(r \o f, l)) = NormalizeName(N(r \o f), l)
      BY <2>3, <2>4, NormalizeLaws
    <3>2. QED BY <2>3, <2>4, <3>1 DEF NormalizeName
  <2>6. NormalizeName(N(r \o out), name) = N(r \o f)
    <3>1. N(r \o out) # <<>> /\ Front(N(r \o out)) = N(r \o f)
      <4> DEFINE w == N(r \o f)
      <4>1. w \in Seq(Names)
        BY <2>3 DEF Walk
      <4>2. N(r \o out) = Append(w, l)
        BY <2>5
      <4> HIDE DEF w
      <4>3. Append(w, l) # <<>> /\ Front(Append(w, l)) = w
        BY <2>4, <4>1, AppendedLast
      <4>4. QED BY <4>2, <4>3 DEF w
    <3>2. QED BY <1>3, <3>1, NamesDiffer DEF NormalizeName
  <2>7. Clean(absolute, f)
    <3>1. \A i \in DOMAIN Front(out) : i \in DOMAIN out /\ out[i] = Front(out)[i]
      BY <2>2
    <3>2. QED BY <3>1 DEF Clean, f
  <2>8. QED BY <2>1, <2>6, <2>7 DEF f
<1>4. CASE name = DotDot /\ (out = <<>> \/ Last(out) = DotDot) /\ absolute
  <2>1. CollapseName(absolute, out, name) = out
    BY <1>4, NamesDiffer DEF CollapseName
  <2>2. out = <<>>
    <3> SUFFICES ASSUME out # <<>> PROVE FALSE
      OBVIOUS
    <3>1. Len(out) \in DOMAIN out /\ Last(out) = out[Len(out)]
      BY DEF Walk, Last
    <3>2. QED BY <1>4, <3>1 DEF Clean
  <2>3. r \o out = <<>>
    BY <1>4, <2>2
  <2>4. N(r \o out) = <<>>
    BY <2>3, NormalizeLaws
  <2>5. QED BY <1>4, <2>1, <2>4, NamesDiffer DEF NormalizeName
<1>5. CASE name \notin {Empty, Dot} /\ (name = DotDot => ~absolute /\ (out = <<>> \/ Last(out) = DotDot))
  <2>1. CollapseName(absolute, out, name) = Append(out, name)
    BY <1>5 DEF CollapseName
  <2>2. N(r \o Append(out, name)) = NormalizeName(N(r \o out), name)
    <3>1. r \o Append(out, name) = Append(r \o out, name)
      BY ConcatAppend
    <3>2. QED BY <1>1, <3>1, NormalizeLaws
  <2>3. Clean(absolute, Append(out, name))
    <3>1. /\ DOMAIN out = 1..Len(out) /\ DOMAIN Append(out, name) = 1..Len(out) + 1 /\ Len(out) \in Nat
          /\ Append(out, name)[Len(out) + 1] = name
          /\ \A i \in 1..Len(out) : Append(out, name)[i] = out[i]
      BY AppendProperties DEF Walk
    <3> DEFINE a == Append(out, name)
    <3> HIDE DEF a
    <3>2. ASSUME NEW i \in DOMAIN a
          PROVE  a[i] \notin {Empty, Dot} /\ (absolute => a[i] # DotDot)
      <4>1. CASE i = Len(out) + 1
        BY <1>5, <3>1, <4>1 DEF a
      <4>2. CASE i \in 1..Len(out)
        BY <3>1, <4>2 DEF a, Clean
      <4>3. QED BY <3>1, <4>1, <4>2 DEF a
    <3>3. QED BY <3>2 DEF Clean, a
  <2>4. QED BY <2>1, <2>2, <2>3
<1>6. QED BY <1>2, <1>3, <1>4, <1>5

\* From where r leads, a path and its collapsed names lead to one place.
Denotes(absolute, r, p) ==
  /\ Clean(absolute, CollapsedNames(absolute, p))
  /\ LexicalNormalize(r \o CollapsedNames(absolute, p)) = LexicalNormalize(r \o p)

\* That is so of every path, name by name.
LEMMA CollapsedDenotes ==
  ASSUME NEW absolute \in BOOLEAN, NEW r \in Walk, absolute => r = <<>>, NEW p \in Walk
  PROVE  Denotes(absolute, r, p)
<1> DEFINE S == {q \in Walk : Denotes(absolute, r, q)}
<1>1. <<>> \in S
  <2>1. CollapsedNames(absolute, <<>>) = <<>>
    BY CollapseLaws
  <2>2. <<>> \in Walk /\ DOMAIN <<>> = {}
    BY PathTypes
  <2>3. QED BY <2>1, <2>2 DEF Denotes, Clean
<1>2. ASSUME NEW q \in Walk, NEW e \in Names, q \in S
      PROVE  Append(q, e) \in S
  <2> DEFINE out == CollapsedNames(absolute, q)
  <2>1. out \in Walk /\ CollapsedNames(absolute, Append(q, e)) = CollapseName(absolute, out, e)
    BY CollapseLaws
  <2>2. Clean(absolute, out) /\ LexicalNormalize(r \o out) = LexicalNormalize(r \o q)
    BY <1>2 DEF Denotes
  <2> HIDE DEF out
  <2>3. /\ Clean(absolute, CollapseName(absolute, out, e))
        /\ LexicalNormalize(r \o CollapseName(absolute, out, e))
             = NormalizeName(LexicalNormalize(r \o out), e)
    BY <2>1, <2>2, CollapseStepDenotes
  <2>4. LexicalNormalize(r \o Append(q, e)) = NormalizeName(LexicalNormalize(r \o q), e)
    <3>1. r \o Append(q, e) = Append(r \o q, e)
      BY ConcatAppend
    <3>2. r \o q \in Walk
      BY PathTypes
    <3>3. QED BY <3>1, <3>2, NormalizeLaws
  <2>5. Append(q, e) \in Walk
    BY PathTypes
  <2>6. QED BY <2>1, <2>2, <2>3, <2>4, <2>5 DEF Denotes
<1>3. p \in S
  <2> HIDE DEF S
  <2>1. QED BY <1>1, <1>2, SeqInduction DEF Walk
<1>4. QED BY <1>3

\* What follows two paths with one normal form leads both to one place.
LEMMA NormalizeSuffix ==
  ASSUME NEW a \in Walk, NEW b \in Walk, LexicalNormalize(a) = LexicalNormalize(b), NEW c \in Walk
  PROVE  LexicalNormalize(a \o c) = LexicalNormalize(b \o c)
<1> DEFINE S == {q \in Walk : LexicalNormalize(a \o q) = LexicalNormalize(b \o q)}
<1>1. <<>> \in S
  <2>1. a \o <<>> = a /\ b \o <<>> = b
    BY DEF Walk
  <2>2. QED BY <2>1, PathTypes
<1>2. ASSUME NEW q \in Walk, NEW e \in Names, q \in S
      PROVE  Append(q, e) \in S
  <2>1. a \o Append(q, e) = Append(a \o q, e) /\ b \o Append(q, e) = Append(b \o q, e)
    BY ConcatAppend
  <2>2. a \o q \in Walk /\ b \o q \in Walk /\ Append(q, e) \in Walk
    BY PathTypes
  <2>3. /\ LexicalNormalize(Append(a \o q, e)) = NormalizeName(LexicalNormalize(a \o q), e)
        /\ LexicalNormalize(Append(b \o q, e)) = NormalizeName(LexicalNormalize(b \o q), e)
    BY <2>2, NormalizeLaws
  <2>4. QED BY <1>2, <2>1, <2>2, <2>3
<1>3. c \in S
  <2> HIDE DEF S
  <2>1. QED BY <1>1, <1>2, SeqInduction DEF Walk
<1>4. QED BY <1>3

\* What follows two paths with the same collapsed names collapses to the same names.
LEMMA CollapseSuffix ==
  ASSUME NEW absolute, NEW a \in Walk, NEW b \in Walk,
         CollapsedNames(absolute, a) = CollapsedNames(absolute, b), NEW c \in Walk
  PROVE  CollapsedNames(absolute, a \o c) = CollapsedNames(absolute, b \o c)
<1> DEFINE S == {q \in Walk : CollapsedNames(absolute, a \o q) = CollapsedNames(absolute, b \o q)}
<1>1. <<>> \in S
  <2>1. a \o <<>> = a /\ b \o <<>> = b
    BY DEF Walk
  <2>2. QED BY <2>1, PathTypes
<1>2. ASSUME NEW q \in Walk, NEW e \in Names, q \in S
      PROVE  Append(q, e) \in S
  <2>1. a \o Append(q, e) = Append(a \o q, e) /\ b \o Append(q, e) = Append(b \o q, e)
    BY ConcatAppend
  <2>2. a \o q \in Walk /\ b \o q \in Walk /\ Append(q, e) \in Walk
    BY PathTypes
  <2>3. /\ CollapsedNames(absolute, Append(a \o q, e))
             = CollapseName(absolute, CollapsedNames(absolute, a \o q), e)
        /\ CollapsedNames(absolute, Append(b \o q, e))
             = CollapseName(absolute, CollapsedNames(absolute, b \o q), e)
    BY <2>2, CollapseLaws
  <2>4. QED BY <1>2, <2>1, <2>2, <2>3
<1>3. c \in S
  <2> HIDE DEF S
  <2>1. QED BY <1>1, <1>2, SeqInduction DEF Walk
<1>4. QED BY <1>3

\* The root's own empty name leads nowhere.
LEMMA UnderRoot ==
  ASSUME NEW p \in Walk
  PROVE  LexicalNormalize(<<Empty>> \o p) = LexicalNormalize(p)
<1>1. <<>> \in Walk /\ <<Empty>> \in Walk /\ <<Empty>> = Append(<<>>, Empty)
  <2>1. <<>> \in Walk /\ Empty \in Names
    BY PathTypes
  <2>2. \A e \in Names : <<e>> = Append(<<>>, e) /\ <<e>> \in Seq(Names)
    OBVIOUS
  <2>3. QED BY <2>1, <2>2 DEF Walk
<1>2. LexicalNormalize(<<Empty>>) = LexicalNormalize(<<>>)
  <2>1. NormalizeName(<<>>, Empty) = <<>>
    BY NamesDiffer DEF NormalizeName
  <2>2. QED BY <1>1, <2>1, PathTypes, NormalizeLaws
<1>3. LexicalNormalize(<<Empty>> \o p) = LexicalNormalize(<<>> \o p)
  BY <1>1, <1>2, NormalizeSuffix
<1>4. <<>> \o p = p
  BY DEF Walk
<1>5. QED BY <1>3, <1>4

PlaceOf(root, p) == LexicalNormalize(IF IsAbsolute(p) THEN p ELSE root \o p)

\* collapse_path_traversal keeps an absolute path absolute, a relative one relative, and
\* either where it leads.
LEMMA CollapsePlace ==
  ASSUME NEW p \in Walk, NEW root \in Walk
  PROVE  PlaceOf(root, CollapsePathTraversal(p)) = PlaceOf(root, p)
<1> DEFINE names == CollapsedNames(IsAbsolute(p), p)
<1>1. IsAbsolute(p) \in BOOLEAN
  BY DEF IsAbsolute
<1>2. names \in Walk
  BY CollapseLaws
<1>3. CASE IsAbsolute(p)
  <2>1. <<>> \in Walk /\ <<>> \o p = p /\ <<>> \o names = names
    BY <1>2 DEF Walk
  <2>2. LexicalNormalize(names) = LexicalNormalize(p)
    <3>1. Denotes(IsAbsolute(p), <<>>, p)
      BY <1>1, <2>1, CollapsedDenotes
    <3>2. QED BY <2>1, <3>1 DEF Denotes
  <2>3. CASE names = <<>>
    <3>1. CollapsePathTraversal(p) = <<Empty, Empty>>
      BY <1>3, <2>3 DEF CollapsePathTraversal
    <3>2. <<Empty, Empty>> = <<Empty>> \o <<Empty>> /\ <<Empty>> = <<Empty>> \o <<>> /\ <<Empty>> \in Walk
      BY PathTypes DEF Walk
    <3>3. LexicalNormalize(<<Empty, Empty>>) = LexicalNormalize(<<>>)
      BY <2>1, <3>2, UnderRoot
    <3>4. IsAbsolute(<<Empty, Empty>>)
      BY DEF IsAbsolute
    <3>5. QED BY <1>3, <2>2, <2>3, <3>1, <3>3, <3>4 DEF PlaceOf
  <2>4. CASE names # <<>>
    <3>1. CollapsePathTraversal(p) = <<Empty>> \o names
      BY <1>3, <2>4 DEF CollapsePathTraversal
    <3>2. IsAbsolute(<<Empty>> \o names)
      <4>1. Len(names) > 0
        BY <1>2, <2>4 DEF Walk
      <4> HIDE DEF names
      <4>2. Len(<<Empty>> \o names) = 1 + Len(names) /\ (<<Empty>> \o names)[1] = Empty /\ Len(names) \in Nat
        BY <1>2, PathTypes DEF Walk
      <4>3. QED BY <4>1, <4>2 DEF IsAbsolute
    <3>3. QED BY <1>2, <1>3, <2>2, <3>1, <3>2, UnderRoot DEF PlaceOf
  <2>5. QED BY <2>3, <2>4
<1>4. CASE ~IsAbsolute(p)
  <2>1. Clean(FALSE, names) /\ LexicalNormalize(root \o names) = LexicalNormalize(root \o p)
    <3>1. Denotes(IsAbsolute(p), root, p)
      BY <1>1, <1>4, CollapsedDenotes
    <3>2. QED BY <1>4, <3>1 DEF Denotes, Clean
  <2>2. CASE names = <<>>
    <3>1. CollapsePathTraversal(p) = <<Dot>>
      BY <1>4, <2>2 DEF CollapsePathTraversal
    <3>2. ~IsAbsolute(<<Dot>>)
      BY DEF IsAbsolute
    <3>3. LexicalNormalize(root \o <<Dot>>) = LexicalNormalize(root)
      <4>1. root \o <<Dot>> = Append(root, Dot)
        BY PathTypes DEF Walk
      <4>2. LexicalNormalize(Append(root, Dot)) = NormalizeName(LexicalNormalize(root), Dot)
        BY PathTypes, NormalizeLaws
      <4>3. QED BY <4>1, <4>2, NamesDiffer DEF NormalizeName
    <3>4. root \o names = root
      BY <2>2 DEF Walk
    <3>5. QED BY <1>4, <2>1, <3>1, <3>2, <3>3, <3>4 DEF PlaceOf
  <2>3. CASE names # <<>>
    <3>1. CollapsePathTraversal(p) = names
      BY <1>4, <2>3 DEF CollapsePathTraversal
    <3>2. ~IsAbsolute(names)
      <4>1. 1 \in DOMAIN names
        BY <1>2, <2>3 DEF Walk
      <4>2. QED BY <2>1, <4>1 DEF Clean, IsAbsolute
    <3>3. QED BY <1>4, <2>1, <3>1, <3>2 DEF PlaceOf
  <2>4. QED BY <2>2, <2>3
<1>5. QED BY <1>3, <1>4

\* Into a directory and out of it again.
Detour == <<<<"x">>, DotDot>>

\* Both ways to normalise a path forget a detour in it.
LEMMA DetourLeadsBack ==
  ASSUME NEW u \in Walk, NEW v \in Walk
  PROVE  /\ LexicalNormalize(u \o Detour \o v) = LexicalNormalize(u \o v)
         /\ \A absolute :
              CollapsedNames(absolute, u \o Detour \o v) = CollapsedNames(absolute, u \o v)
<1> DEFINE x == <<"x">>
           ux == Append(u, x)
<1>1. x \in Names /\ DotDot \in Names /\ ux \in Walk /\ Append(ux, DotDot) \in Walk
  BY PathTypes
<1>2. x \notin {Empty, Dot, DotDot} /\ DotDot \notin {Empty, Dot}
  BY NamesDiffer
<1>3. u \o Detour = Append(ux, DotDot)
  BY <1>1 DEF Detour, Walk
<1> HIDE DEF x
<1>4. LexicalNormalize(Append(ux, DotDot)) = LexicalNormalize(u)
  <2> DEFINE out == LexicalNormalize(u)
  <2>1. out \in Walk
    BY NormalizeLaws
  <2>2. LexicalNormalize(ux) = Append(out, x)
    <3>1. LexicalNormalize(ux) = NormalizeName(out, x)
      BY <1>1, NormalizeLaws
    <3>2. QED BY <1>2, <3>1 DEF NormalizeName
  <2> HIDE DEF ux
  <2>3. LexicalNormalize(Append(ux, DotDot)) = NormalizeName(Append(out, x), DotDot)
    BY <1>1, <2>2, NormalizeLaws
  <2>4. Append(out, x) # <<>> /\ Front(Append(out, x)) = out
    BY <1>1, <2>1, AppendedLast DEF Walk
  <2>5. QED BY <1>2, <2>3, <2>4 DEF NormalizeName
<1>5. ASSUME NEW absolute
      PROVE  CollapsedNames(absolute, Append(ux, DotDot)) = CollapsedNames(absolute, u)
  <2> DEFINE out == CollapsedNames(absolute, u)
  <2>1. out \in Walk
    BY CollapseLaws
  <2>2. CollapsedNames(absolute, ux) = Append(out, x)
    <3>1. CollapsedNames(absolute, ux) = CollapseName(absolute, out, x)
      BY <1>1, CollapseLaws
    <3>2. QED BY <1>2, <3>1 DEF CollapseName
  <2> HIDE DEF ux
  <2>3. CollapsedNames(absolute, Append(ux, DotDot)) = CollapseName(absolute, Append(out, x), DotDot)
    BY <1>1, <2>2, CollapseLaws
  <2>4. Append(out, x) # <<>> /\ Front(Append(out, x)) = out /\ Last(Append(out, x)) = x
    BY <1>1, <2>1, AppendedLast DEF Walk
  <2>5. QED BY <1>2, <2>3, <2>4 DEF CollapseName
<1>6. LexicalNormalize(Append(ux, DotDot) \o v) = LexicalNormalize(u \o v)
  BY <1>1, <1>4, NormalizeSuffix
<1>7. ASSUME NEW absolute
      PROVE  CollapsedNames(absolute, Append(ux, DotDot) \o v) = CollapsedNames(absolute, u \o v)
  BY <1>1, <1>5, CollapseSuffix
<1>8. QED BY <1>3, <1>6, <1>7

\* Concatenation of names is associative.
LEMMA WalkAssociative ==
  ASSUME NEW a \in Walk, NEW b \in Walk, NEW c \in Walk
  PROVE  a \o (b \o c) = (a \o b) \o c
BY DEF Walk

\* The names of two walks, one after the other.
LEMMA WalkConcat ==
  ASSUME NEW a \in Walk, NEW b \in Walk
  PROVE  /\ a \o b \in Walk /\ Len(a \o b) = Len(a) + Len(b)
         /\ \A k \in 1..Len(a) + Len(b) : (a \o b)[k] = IF k <= Len(a) THEN a[k] ELSE b[k - Len(a)]
BY ConcatProperties DEF Walk
-----------------------------------------------------------------------------
(* Backslashes *)

\* The steps of replacing the backslashes of a name and of a path; of a name there is always
\* one name at least.
Pieces == Walk \ {<<>>}
SlashPartStep == [q \in Pieces \X NamePart |-> SlashPart(q[1], q[2])]
SlashNameStep == [q \in Walk \X Names |-> SlashName(q[1], q[2])]

\* The parts of one name become names.
LEMMA SlashSteps == << <<>> >> \in Pieces /\ SlashPartStep \in [Pieces \X NamePart -> Pieces]
<1>1. << <<>> >> \in Pieces
  <2>1. <<>> \in Names
    BY DEF Names
  <2>2. \A e \in Names : <<e>> \in Seq(Names) /\ <<e>> # <<>>
    OBVIOUS
  <2>3. QED BY <2>1, <2>2 DEF Pieces, Walk
<1>2. ASSUME NEW names \in Pieces, NEW part \in NamePart
      PROVE  SlashPart(names, part) \in Pieces
  <2>1. names \in Walk /\ Front(names) \in Walk /\ Last(names) \in Names
    BY FrontAndLast DEF Pieces
  <2>2. <<>> \in Names /\ Append(Last(names), part) \in Names
    BY <2>1 DEF Names
  <2>3. \A p \in Walk, e \in Names : Append(p, e) \in Walk /\ Append(p, e) # <<>>
    BY AppendedLast DEF Walk
  <2>4. QED BY <2>1, <2>2, <2>3 DEF SlashPart, Pieces
<1>3. SlashPartStep \in [Pieces \X NamePart -> Pieces]
  BY <1>2 DEF SlashPartStep
<1>4. QED BY <1>1, <1>3

\* The names of one name, part by part.
LEMMA SlashedNameFolds ==
  ASSUME NEW p \in Names
  PROVE  FoldsTo(Pieces, << <<>> >>, SlashPartStep, p, SlashedName(p))
<1> DEFINE Iterates(g) == g = [s \in SUBSET (DOMAIN p) |->
                                 IF s = {} THEN << <<>> >>
                                 ELSE SlashPart(g[s \ {Max(s)}], p[Max(s)])]
           iter == CHOOSE g : Iterates(g)
<1>1. p \in Seq(NamePart) /\ Range(p) \subseteq NamePart
  BY DEF Walk, Names, Range
<1>2. PICK g \in [SUBSET (DOMAIN p) -> Pieces] : StepsOver(Pieces, << <<>> >>, SlashPartStep, p, g)
  BY <1>1, SlashSteps, StepsExist
<1>3. Iterates(g)
  <2>1. ASSUME NEW s \in SUBSET (DOMAIN p), s # {}
        PROVE  g[s] = SlashPart(g[s \ {Max(s)}], p[Max(s)])
    <3>1. g[s \ {Max(s)}] \in Pieces /\ p[Max(s)] \in NamePart
          /\ g[s] = SlashPartStep[<<g[s \ {Max(s)}], p[Max(s)]>>]
      BY <1>1, <1>2, <2>1 DEF StepsOver
    <3>2. QED BY <3>1 DEF SlashPartStep
  <2>2. g[{}] = << <<>> >>
    BY <1>2 DEF StepsOver
  <2>3. QED BY <1>2, <2>1, <2>2
<1>4. Iterates(iter)
  <2> HIDE DEF Iterates
  <2>1. QED BY <1>3
<1>5. SlashedName(p) = iter[DOMAIN p]
  BY DEF SlashedName, FoldLeft, MapThenFoldSet
<1> HIDE DEF iter
<1>6. StepsOver(Pieces, << <<>> >>, SlashPartStep, p, iter)
  <2>1. ASSUME NEW s \in SUBSET (DOMAIN p), s # {}, iter[s \ {Max(s)}] \in Pieces
        PROVE  p[Max(s)] \in Range(p)
               /\ iter[s] = SlashPartStep[<<iter[s \ {Max(s)}], p[Max(s)]>>]
    <3>1. p[Max(s)] \in Range(p)
      BY <1>2, <2>1 DEF StepsOver
    <3>2. iter[s] = SlashPart(iter[s \ {Max(s)}], p[Max(s)])
      BY <1>4, <2>1
    <3>3. QED BY <1>1, <2>1, <3>1, <3>2 DEF SlashPartStep
  <2>2. iter[{}] = << <<>> >>
    BY <1>4
  <2> HIDE DEF Iterates
  <2>3. QED BY <2>1, <2>2 DEF StepsOver
<1>7. FoldsTo(Pieces, << <<>> >>, SlashPartStep, p, iter[DOMAIN p])
  BY <1>1, <1>6, SlashSteps, StepsFold
<1>8. QED BY <1>5, <1>7

\* The names of one name, by its first and its next part.
LEMMA SlashedNameLaws ==
  /\ SlashedName(<<>>) = << <<>> >>
  /\ \A n \in Names : SlashedName(n) \in Walk
  /\ \A n \in Names, e \in NamePart : SlashedName(Append(n, e)) = SlashPart(SlashedName(n), e)
<1>1. SlashedName(<<>>) = << <<>> >>
  <2>1. <<>> \in Names
    BY DEF Names
  <2>2. QED BY <2>1, SlashedNameFolds, FoldStart
<1>2. ASSUME NEW n \in Names, NEW e \in NamePart
      PROVE  SlashedName(n) \in Walk /\ SlashedName(Append(n, e)) = SlashPart(SlashedName(n), e)
  <2>1. n \in Seq(NamePart) /\ Append(n, e) \in Names
    BY DEF Names
  <2>2. Steps(Pieces, SlashPartStep, SlashedName(n), e, SlashedName(Append(n, e)))
    BY <2>1, SlashedNameFolds, FoldStep
  <2>3. QED BY <2>2 DEF Steps, SlashPartStep, Pieces
<1>3. "" \in NamePart
  BY DEF NamePart
<1>4. QED BY <1>1, <1>2, <1>3

\* A part that is no backslash ends no name.
LEMMA SlashedOne ==
  ASSUME NEW n \in Names, NEW e \in NamePart, e # Back, SlashedName(n) = <<n>>
  PROVE  SlashedName(Append(n, e)) = <<Append(n, e)>>
<1>1. SlashedName(Append(n, e)) = Append(Front(<<n>>), Append(Last(<<n>>), e))
  BY SlashedNameLaws DEF SlashPart
<1>2. Front(<<n>>) = <<>> /\ Last(<<n>>) = n
  <2>1. <<>> \in Seq(Names) /\ Append(<<>>, n) = <<n>>
    OBVIOUS
  <2>2. QED BY <2>1, AppendedLast
<1>3. \A a : Append(<<>>, a) = <<a>>
  OBVIOUS
<1>4. QED BY <1>1, <1>2, <1>3

\* Two and three appended to nothing.
LEMMA TwoAppended ==
  ASSUME NEW S, NEW a \in S, NEW b \in S
  PROVE  Append(<<a>>, b) = <<a, b>>
<1>1. <<a>> \in Seq(S) /\ <<a, b>> \in Seq(S)
  OBVIOUS
<1>2. /\ Append(<<a>>, b) \in Seq(S) /\ Len(Append(<<a>>, b)) = 2
      /\ \A i \in 1..2 : Append(<<a>>, b)[i] = <<a, b>>[i]
  BY <1>1
<1>3. Len(<<a, b>>) = 2
  OBVIOUS
<1>4. QED BY <1>1, <1>2, <1>3, SeqEqual

LEMMA ThreeAppended ==
  ASSUME NEW S, NEW a \in S, NEW b \in S, NEW c \in S
  PROVE  Append(Append(Append(<<>>, a), b), c) = <<a, b, c>>
<1>1. <<a, b>> \in Seq(S) /\ <<a, b, c>> \in Seq(S)
  OBVIOUS
<1>2. /\ Append(<<a, b>>, c) \in Seq(S) /\ Len(Append(<<a, b>>, c)) = 3
      /\ \A i \in 1..3 : Append(<<a, b>>, c)[i] = <<a, b, c>>[i]
  BY <1>1
<1>3. Append(<<a, b>>, c) = <<a, b, c>>
  <2>1. Len(<<a, b, c>>) = 3
    OBVIOUS
  <2>2. QED BY <1>1, <1>2, <2>1, SeqEqual
<1>4. Append(<<>>, a) = <<a>>
  OBVIOUS
<1>5. QED BY <1>3, <1>4, TwoAppended

\* The names of a detour have no backslash.
LEMMA SlashedDetour == SlashedName(<<"x">>) = << <<"x">> >> /\ SlashedName(DotDot) = <<DotDot>>
<1>1. <<>> \in Names /\ SlashedName(<<>>) = << <<>> >>
  BY SlashedNameLaws DEF Names
<1>2. "" \in NamePart /\ "x" \in NamePart /\ "" # Back /\ "x" # Back
  BY DEF NamePart, Back
<1>3. SlashedName(Append(<<>>, "x")) = <<Append(<<>>, "x")>>
  BY <1>1, <1>2, SlashedOne
<1> DEFINE a == Append(<<>>, "")
           b == Append(a, "")
<1>4. a \in Names /\ b \in Names
  <2>1. \A n \in Names : Append(n, "") \in Names
    <3>1. \A n \in Seq(NamePart), e \in NamePart : Append(n, e) \in Seq(NamePart)
      OBVIOUS
    <3>2. QED BY <1>2, <3>1 DEF Names
  <2>2. a \in Names
    BY <1>1, <2>1
  <2> HIDE DEF a
  <2>3. QED BY <2>1, <2>2
<1>5. SlashedName(a) = <<a>>
  BY <1>1, <1>2, SlashedOne
<1>6. SlashedName(b) = <<b>>
  <2> HIDE DEF a
  <2>1. QED BY <1>2, <1>4, <1>5, SlashedOne
<1>7. SlashedName(Append(b, "")) = <<Append(b, "")>>
  <2> HIDE DEF b
  <2>1. QED BY <1>2, <1>4, <1>6, SlashedOne
<1>8. Append(<<>>, "x") = <<"x">> /\ Append(b, "") = DotDot
  <2>1. \A e : Append(<<>>, e) = <<e>>
    OBVIOUS
  <2>2. Append(b, "") = DotDot
    BY <1>2, ThreeAppended DEF DotDot
  <2>3. QED BY <2>1, <2>2
<1>9. QED BY <1>3, <1>7, <1>8

\* The names of a name are added after those before it.
LEMMA SlashNameSteps == <<>> \in Walk /\ SlashNameStep \in [Walk \X Names -> Walk]
<1>1. \A out \in Walk, n \in Names : SlashName(out, n) \in Walk
  BY SlashedNameLaws, PathTypes DEF SlashName
<1>2. QED BY <1>1, PathTypes DEF SlashNameStep

\* The names of a path, name by name.
LEMMA SlashedFolds ==
  ASSUME NEW p \in Walk
  PROVE  FoldsTo(Walk, <<>>, SlashNameStep, p, Slashed(p))
<1> DEFINE Iterates(g) == g = [s \in SUBSET (DOMAIN p) |->
                                 IF s = {} THEN <<>>
                                 ELSE SlashName(g[s \ {Max(s)}], p[Max(s)])]
           iter == CHOOSE g : Iterates(g)
<1>1. p \in Seq(Names) /\ Range(p) \subseteq Names
  BY DEF Walk, Range
<1>2. PICK g \in [SUBSET (DOMAIN p) -> Walk] : StepsOver(Walk, <<>>, SlashNameStep, p, g)
  BY <1>1, SlashNameSteps, StepsExist
<1>3. Iterates(g)
  <2>1. ASSUME NEW s \in SUBSET (DOMAIN p), s # {}
        PROVE  g[s] = SlashName(g[s \ {Max(s)}], p[Max(s)])
    <3>1. g[s \ {Max(s)}] \in Walk /\ p[Max(s)] \in Names
          /\ g[s] = SlashNameStep[<<g[s \ {Max(s)}], p[Max(s)]>>]
      BY <1>1, <1>2, <2>1 DEF StepsOver
    <3>2. QED BY <3>1 DEF SlashNameStep
  <2>2. g[{}] = <<>>
    BY <1>2 DEF StepsOver
  <2>3. QED BY <1>2, <2>1, <2>2
<1>4. Iterates(iter)
  <2> HIDE DEF Iterates
  <2>1. QED BY <1>3
<1>5. Slashed(p) = iter[DOMAIN p]
  BY DEF Slashed, FoldLeft, MapThenFoldSet
<1> HIDE DEF iter
<1>6. StepsOver(Walk, <<>>, SlashNameStep, p, iter)
  <2>1. ASSUME NEW s \in SUBSET (DOMAIN p), s # {}, iter[s \ {Max(s)}] \in Walk
        PROVE  p[Max(s)] \in Range(p)
               /\ iter[s] = SlashNameStep[<<iter[s \ {Max(s)}], p[Max(s)]>>]
    <3>1. p[Max(s)] \in Range(p)
      BY <1>2, <2>1 DEF StepsOver
    <3>2. iter[s] = SlashName(iter[s \ {Max(s)}], p[Max(s)])
      BY <1>4, <2>1
    <3>3. QED BY <1>1, <2>1, <3>1, <3>2 DEF SlashNameStep
  <2>2. iter[{}] = <<>>
    BY <1>4
  <2> HIDE DEF Iterates
  <2>3. QED BY <2>1, <2>2 DEF StepsOver
<1>7. FoldsTo(Walk, <<>>, SlashNameStep, p, iter[DOMAIN p])
  BY <1>1, <1>6, SlashNameSteps, StepsFold
<1>8. QED BY <1>5, <1>7

\* The names of a path, by its first and its next name.
LEMMA SlashedLaws ==
  /\ Slashed(<<>>) = <<>>
  /\ \A p \in Walk : Slashed(p) \in Walk
  /\ \A p \in Walk, e \in Names : Slashed(Append(p, e)) = Slashed(p) \o SlashedName(e)
<1>1. Slashed(<<>>) = <<>>
  BY SlashNameSteps, SlashedFolds, FoldStart
<1>2. ASSUME NEW p \in Walk, NEW e \in Names
      PROVE  Slashed(p) \in Walk /\ Slashed(Append(p, e)) = Slashed(p) \o SlashedName(e)
  <2>1. p \in Seq(Names) /\ Append(p, e) \in Walk
    BY DEF Walk
  <2>2. Steps(Walk, SlashNameStep, Slashed(p), e, Slashed(Append(p, e)))
    BY <2>1, SlashedFolds, FoldStep
  <2>3. QED BY <2>2 DEF Steps, SlashNameStep, SlashName
<1>3. Empty \in Names
  BY PathTypes
<1>4. QED BY <1>1, <1>2, <1>3

\* The names of two paths, one after the other.
LEMMA SlashedConcat ==
  ASSUME NEW a \in Walk, NEW b \in Walk
  PROVE  Slashed(a \o b) = Slashed(a) \o Slashed(b)
<1> DEFINE S == {q \in Walk : Slashed(a \o q) = Slashed(a) \o Slashed(q)}
<1>1. <<>> \in S
  <2>1. a \o <<>> = a /\ Slashed(a) \o <<>> = Slashed(a)
    BY SlashedLaws DEF Walk
  <2>2. QED BY <2>1, PathTypes, SlashedLaws
<1>2. ASSUME NEW q \in Walk, NEW e \in Names, q \in S
      PROVE  Append(q, e) \in S
  <2>1. a \o Append(q, e) = Append(a \o q, e) /\ a \o q \in Walk /\ Append(q, e) \in Walk
    BY ConcatAppend, PathTypes
  <2>2. /\ Slashed(Append(a \o q, e)) = Slashed(a \o q) \o SlashedName(e)
        /\ Slashed(Append(q, e)) = Slashed(q) \o SlashedName(e)
    BY <2>1, SlashedLaws
  <2>3. Slashed(a) \o (Slashed(q) \o SlashedName(e)) = (Slashed(a) \o Slashed(q)) \o SlashedName(e)
    <3>1. Slashed(a) \in Walk /\ Slashed(q) \in Walk /\ SlashedName(e) \in Walk
      BY SlashedLaws, SlashedNameLaws
    <3>2. QED BY <3>1, WalkAssociative
  <2>4. QED BY <1>2, <2>1, <2>2, <2>3
<1>3. b \in S
  <2> HIDE DEF S
  <2>1. QED BY <1>1, <1>2, SeqInduction DEF Walk
<1>4. QED BY <1>3

\* A detour stays one, wherever it is, when the backslashes around it become slashes.
LEMMA DetourSlashed ==
  ASSUME NEW u \in Walk, NEW v \in Walk
  PROVE  Slashed(u \o Detour \o v) = Slashed(u) \o Detour \o Slashed(v)
<1>1. Detour = Append(Append(<<>>, <<"x">>), DotDot) /\ Append(<<>>, <<"x">>) = << <<"x">> >>
  BY DEF Detour
<1>2. <<>> \in Walk /\ <<"x">> \in Names /\ DotDot \in Names /\ Append(<<>>, <<"x">>) \in Walk
  BY PathTypes
<1>3. Detour \in Walk
  BY <1>1, <1>2, PathTypes
<1>4. Slashed(Detour) = Detour
  <2>1. Slashed(Append(<<>>, <<"x">>)) = Slashed(<<>>) \o << <<"x">> >>
    BY <1>2, SlashedLaws, SlashedDetour
  <2>2. Slashed(Detour) = Slashed(Append(<<>>, <<"x">>)) \o <<DotDot>>
    BY <1>1, <1>2, SlashedLaws, SlashedDetour
  <2>3. (<<>> \o << <<"x">> >>) \o <<DotDot>> = Detour
    <3>1. (<<>> \o << <<"x">> >>) \o <<DotDot>> = Append(Append(<<>>, <<"x">>), DotDot)
      BY <1>2
    <3>2. QED BY <1>1, <3>1
  <2>4. QED BY <2>1, <2>2, <2>3, SlashedLaws
<1>5. Slashed(u \o Detour \o v) = Slashed(u \o Detour) \o Slashed(v)
  <2>1. u \o Detour \in Walk
    BY <1>3, PathTypes
  <2>2. QED BY <2>1, SlashedConcat
<1>6. Slashed(u \o Detour) = Slashed(u) \o Detour
  BY <1>3, <1>4, SlashedConcat
<1>7. QED BY <1>5, <1>6
=============================================================================
