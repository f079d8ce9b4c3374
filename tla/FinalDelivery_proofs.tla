------------------------- MODULE FinalDelivery_proofs -------------------------
(***************************************************************************)
(* The final answer of a turn, for every number of turns, artifacts and    *)
(* records, and every length of run: deliverFinal keeps the contract with  *)
(* its caller, the documents follow the text, and the evidence is true.    *)
(***************************************************************************)
EXTENDS FinalDelivery, FiniteSetTheorems, SequenceTheorems, WellFoundedInduction, TLAPS

Records == [turn : Turns \cup {Earlier}, session : Sessions, ordinal : Nat \ {0}, old : BOOLEAN]
TurnStates == [pc : Pcs, session : Sessions, background : BOOLEAN,
               left : Seq(Paths), attempts : Nat, verdict : Verdicts]
DeliveryTypes ==
    /\ turn \in [Turns -> TurnStates]
    /\ collected \in [Turns -> Seq(Paths)]
    /\ evidence \in Seq(Records)
    /\ answers \in [Turns -> Nat] /\ files \in [Turns -> Seq(Paths)]
    /\ notices \in [Turns -> Nat] /\ mishaps \in Nat

\* What the chat shows of a turn's answer at each step of deliverFinal.  The
\* verdict alone is not enough: an answer may be there while none is returned.
Unsettled == {"none", "too_large"}
Answering == {"rich", "markdown", "text"}
Following == {"evidence", "artifacts", "notice"}
AnswerCounted(t) ==
    /\ answers[t] \in 0..1
    /\ turn[t].pc \in Answering => answers[t] = 0
    /\ turn[t].pc \in Following => answers[t] = 1
    /\ turn[t].pc # "idle" => turn[t].verdict \in Unsettled
    /\ turn[t].pc = "idle" =>
         /\ turn[t].verdict \in Unsettled \cup {"rejected"} => answers[t] = 0
         /\ turn[t].verdict = "delivered" => answers[t] = 1

\* While documents are sent, those shown and those left make up the turn's.
FilesOrdered(t) ==
    /\ IsInjective(collected[t]) /\ Len(collected[t]) <= MaxArtifacts
    /\ IsPrefix(files[t], collected[t])
    /\ files[t] # <<>> \/ notices[t] # 0 =>
         answers[t] = 1 /\ Foreground(t) /\ turn[t].pc # "evidence"
    /\ notices[t] <= 1 /\ (notices[t] = 1 => files[t] # collected[t])
    /\ turn[t].pc \in {"artifacts", "notice"} =>
         /\ Foreground(t) /\ notices[t] = 0
         /\ turn[t].left # <<>> /\ collected[t] = files[t] \o turn[t].left

\* A record speaks of an answer that is there.
EvidenceTrue ==
    /\ Len(evidence) <= MaxRecords /\ OrdinalsRise(evidence)
    /\ \A i \in DOMAIN evidence : evidence[i].turn # Earlier =>
         LET t == evidence[i].turn IN
         answers[t] = 1 /\ Foreground(t) /\ turn[t].verdict \notin {"uncertain", "rejected"}

DeliveryInv ==
    /\ DeliveryTypes /\ EvidenceTrue
    /\ \A t \in Turns : AnswerCounted(t) /\ FilesOrdered(t)

----------------------------------------------------------------------------
(* Folds over a sequence *)

\* Induction over the numbers, as the least of those that would refute it.
LEMMA LeastNumber ==
    ASSUME NEW T \in SUBSET Nat, T # {}
    PROVE  \E m \in T : \A k \in T : m <= k
<1>1. PICK m \in T : \A k \in T : <<k, m>> \notin OpToRel(<, Nat)
  BY WFMin, NatLessThanWellFounded
<1>2. ASSUME NEW k \in T PROVE ~(k < m)
  BY <1>1 DEF OpToRel
<1> QED
  BY <1>2

LEMMA IndexInduction ==
    ASSUME NEW n \in Nat, NEW T, 0 \in T, \A k \in 1..n : k - 1 \in T => k \in T
    PROVE  \A k \in 0..n : k \in T
<1> DEFINE Others == (0..n) \ T
<1>1. CASE Others # {}
  <2>1. PICK m \in Others : \A k \in Others : m <= k
    <3>1. Others \in SUBSET Nat
      OBVIOUS
    <3> QED
      BY <1>1, <3>1, LeastNumber
  <2>2. m \in 1..n /\ m - 1 \in 0..n /\ ~(m <= m - 1)
    OBVIOUS
  <2>3. m - 1 \in T
    BY <2>1
  <2> QED
    BY <2>3
<1> QED
  BY <1>1

LEMMA MaxIsLast ==
    ASSUME NEW S, NEW m \in S, S \subseteq Int, \A k \in S : k <= m
    PROVE  Max(S) = m
<1>1. \E x \in S : \A y \in S : x >= y
  OBVIOUS
<1>2. Max(S) \in S /\ \A y \in S : Max(S) >= y
  BY DEF Max
<1>3. Max(S) \in Int /\ m \in Int /\ Max(S) <= m /\ Max(S) >= m
  BY <1>2
<1> QED
  BY <1>3

LEMMA MaxOfBounded ==
    ASSUME NEW n \in Nat, NEW S \in SUBSET (0..n), S # {}
    PROVE  Max(S) \in S /\ \A i \in S : i <= Max(S)
<1> DEFINE T == {b \in 0..n : \A i \in S : i <= b}
<1>1. PICK m \in T : \A b \in T : m <= b
  <2>1. T \in SUBSET Nat /\ n \in T
    OBVIOUS
  <2> QED
    BY <2>1, LeastNumber
<1>2. m \in S
  <2> SUFFICES ASSUME m \notin S PROVE FALSE
    OBVIOUS
  <2>1. PICK i \in S : TRUE
    OBVIOUS
  <2>2. m - 1 \in 0..n
    OBVIOUS
  <2>3. \A j \in S : j <= m - 1
    OBVIOUS
  <2> QED
    BY <1>1
<1>3. S \subseteq Int /\ \A k \in S : k <= m
  OBVIOUS
<1> QED
  BY <1>2, <1>3, MaxIsLast

LEMMA Bounded ==
    ASSUME NEW n \in Nat, NEW f \in [1..n -> Nat]
    PROVE  \E b \in Nat : \A i \in 1..n : f[i] <= b
<1> DEFINE T == {k \in 0..n : \E b \in Nat : \A i \in 1..k : f[i] <= b}
<1>1. 0 \in T
  OBVIOUS
<1>2. ASSUME NEW k \in 1..n, k - 1 \in T PROVE k \in T
  <2>1. PICK b \in Nat : \A i \in 1..k - 1 : f[i] <= b
    BY <1>2
  <2>2. PICK c \in Nat : b <= c /\ f[k] <= c
    OBVIOUS
  <2>3. \A i \in 1..k : f[i] <= c
    <3> TAKE i \in 1..k
    <3>1. CASE i = k
      BY <2>2, <3>1
    <3>2. CASE i # k
      BY <2>1, <2>2
    <3> QED
      BY <3>1, <3>2
  <2> QED
    BY <2>3
<1> HIDE DEF T
<1>3. \A k \in 0..n : k \in T
  BY <1>1, <1>2, IndexInduction
<1>4. n \in T
  BY <1>3
<1> QED
  BY <1>4 DEF T

\* The recursion of MapThenFoldSet over the indices of a sequence has a
\* solution: its calls peel off the last index.
Folds(h, n, base, step) ==
    /\ h[{}] = base
    /\ \A s \in SUBSET (1..n) : s # {} => h[s] = step[Max(s)][h[s \ {Max(s)}]]
LEMMA FoldExists ==
    ASSUME NEW n \in Nat, NEW X, NEW base \in X, NEW step \in [1..n -> [X -> X]]
    PROVE  \E h \in [SUBSET (1..n) -> X] : Folds(h, n, base, step)
<1> DEFINE Solves(h, k) ==
             \A s \in SUBSET (1..k) :
               h[s] = IF s = {} THEN base ELSE step[Max(s)][h[s \ {Max(s)}]]
           Solved(k) == \E h \in [SUBSET (1..k) -> X] : Solves(h, k)
<1>1. Solved(0)
  <2>1. [s \in SUBSET (1..0) |-> base] \in [SUBSET (1..0) -> X]
    OBVIOUS
  <2>2. Solves([s \in SUBSET (1..0) |-> base], 0)
    OBVIOUS
  <2> QED
    BY <2>2
<1>2. ASSUME NEW k \in 0..n, k + 1 \in 0..n, Solved(k) PROVE Solved(k + 1)
  <2> PICK h \in [SUBSET (1..k) -> X] : Solves(h, k)
    BY <1>2
  <2> DEFINE g == [s \in SUBSET (1..k + 1) |->
                    IF k + 1 \in s THEN step[k + 1][h[s \ {k + 1}]] ELSE h[s]]
  <2>1. ASSUME NEW s \in SUBSET (1..k + 1) PROVE s \ {k + 1} \in SUBSET (1..k)
    OBVIOUS
  <2>2. g \in [SUBSET (1..k + 1) -> X]
    <3> SUFFICES ASSUME NEW s \in SUBSET (1..k + 1)
                 PROVE  (IF k + 1 \in s THEN step[k + 1][h[s \ {k + 1}]] ELSE h[s]) \in X
      OBVIOUS
    <3>1. CASE k + 1 \in s
      <4>1. h[s \ {k + 1}] \in X
        OBVIOUS
      <4> QED
        BY <1>2
    <3>2. CASE k + 1 \notin s
      BY <3>2
    <3> QED
      BY <3>1
  <2>3. ASSUME NEW s \in SUBSET (1..k + 1)
        PROVE  g[s] = IF s = {} THEN base ELSE step[Max(s)][g[s \ {Max(s)}]]
    <3>1. CASE k + 1 \in s
      <4>1. Max(s) = k + 1
        <5>1. s \subseteq Int /\ \A i \in s : i <= k + 1
          OBVIOUS
        <5> QED
          BY <3>1, <5>1, MaxIsLast
      <4>2. g[s \ {k + 1}] = h[s \ {k + 1}]
        OBVIOUS
      <4> QED
        BY <3>1, <4>1
    <3>2. CASE k + 1 \notin s
      <4>1. s \in SUBSET (1..k) /\ s \ {Max(s)} \in SUBSET (1..k)
        <5>1. ASSUME NEW i \in s PROVE i \in 1..k
          <6>1. i \in 1..k + 1 /\ i # k + 1
            BY <3>2
          <6> QED
            BY <6>1
        <5> QED
          BY <5>1
      <4>2. g[s] = h[s] /\ g[s \ {Max(s)}] = h[s \ {Max(s)}]
        BY <4>1
      <4> QED
        BY <4>1, <4>2
    <3> QED
      BY <3>1, <3>2
  <2> QED
    BY <2>2, <2>3
<1> HIDE DEF Solved
<1>3. ASSUME NEW k \in 1..n, Solved(k - 1) PROVE Solved(k)
  <2>1. k - 1 \in 0..n /\ (k - 1) + 1 \in 0..n
    OBVIOUS
  <2>2. Solved((k - 1) + 1)
    BY <1>2, <1>3
  <2>3. (k - 1) + 1 = k
    OBVIOUS
  <2> QED
    BY <2>2
<1>4. Solved(n)
  <2> DEFINE T == {i \in 0..n : Solved(i)}
  <2>1. 0 \in T /\ \A k \in 1..n : k - 1 \in T => k \in T
    BY <1>1, <1>3
  <2> HIDE DEF T
  <2>2. \A k \in 0..n : k \in T
    BY <2>1, IndexInduction
  <2> QED
    BY <2>2 DEF T
<1>5. PICK h \in [SUBSET (1..n) -> X] : Solves(h, n)
  BY <1>4 DEF Solved
<1>6. Folds(h, n, base, step)
  BY <1>5 DEF Folds
<1> QED
  BY <1>6

\* parseArtifactRows: the paths it finds are few and different.
LEMMA FoundProper ==
    ASSUME NEW us \in Seq(Uses)
    PROVE  Found(us) \in {c \in Seq(Paths) : Len(c) <= MaxArtifacts /\ IsInjective(c)}
<1> DEFINE n == Len(us)
           X == {c \in Seq(Paths) : Len(c) <= MaxArtifacts /\ IsInjective(c)}
           add(found, u) == IF u.ok /\ Len(found) < MaxArtifacts /\ ~Contains(found, u.path)
                            THEN Append(found, u.path) ELSE found
           it[s \in SUBSET (DOMAIN us)] ==
             IF s = {} THEN <<>> ELSE LET x == Max(s) IN add(it[s \ {x}], us[x])
<1>1. Found(us) = it[DOMAIN us]
  BY DEF Found, FoldLeft, MapThenFoldSet
<1>2. n \in Nat /\ DOMAIN us = 1..n /\ \A i \in 1..n : us[i] \in Uses
  OBVIOUS
<1>3. <<>> \in X
  BY DeliveryBounds DEF IsInjective
<1>4. ASSUME NEW c \in X, NEW u \in Uses PROVE add(c, u) \in X
  <2>1. CASE u.ok /\ Len(c) < MaxArtifacts /\ ~Contains(c, u.path)
    <3> DEFINE d == Append(c, u.path)
    <3>1. u.path \in Paths
      BY DEF Uses
    <3>2. /\ d \in Seq(Paths) /\ Len(d) = Len(c) + 1 /\ Len(c) \in Nat
          /\ \A i \in 1..Len(c) : d[i] = c[i]
          /\ d[Len(c) + 1] = u.path
      BY <3>1
    <3>3. \A i \in 1..Len(c) : c[i] # u.path
      BY <2>1 DEF Contains
    <3>4. \A i, j \in 1..Len(c) : c[i] = c[j] => i = j
      BY DEF IsInjective
    <3> HIDE DEF d
    <3>5. ASSUME NEW i \in 1..Len(d), NEW j \in 1..Len(d), d[i] = d[j] PROVE i = j
      BY <3>2, <3>3, <3>4, <3>5
    <3>6. IsInjective(d)
      BY <3>5 DEF IsInjective
    <3>7. Len(d) <= MaxArtifacts
      BY <2>1, <3>2, DeliveryBounds
    <3>8. add(c, u) = d
      BY <2>1 DEF d
    <3> QED
      BY <3>2, <3>6, <3>7, <3>8
  <2>2. CASE ~(u.ok /\ Len(c) < MaxArtifacts /\ ~Contains(c, u.path))
    BY <2>2
  <2> QED
    BY <2>1
<1> HIDE DEF add, X
<1>5. it = [s \in SUBSET (DOMAIN us) |->
              IF s = {} THEN <<>> ELSE LET x == Max(s) IN add(it[s \ {x}], us[x])]
  <2> DEFINE step == [i \in 1..n |-> [c \in X |-> add(c, us[i])]]
  <2>1. step \in [1..n -> [X -> X]]
    BY <1>4
  <2>2. PICK h \in [SUBSET (1..n) -> X] : Folds(h, n, <<>>, step)
    <3> HIDE DEF step, n, it
    <3> QED
      BY <1>2, <1>3, <2>1, FoldExists
  <2>3. ASSUME NEW s \in SUBSET (1..n), s # {}
        PROVE  step[Max(s)][h[s \ {Max(s)}]] = add(h[s \ {Max(s)}], us[Max(s)])
    <3>1. Max(s) \in 1..n
      <4>1. s \in SUBSET (0..n)
        OBVIOUS
      <4> QED
        BY <1>2, <2>3, <4>1, MaxOfBounded
    <3>2. h[s \ {Max(s)}] \in X
      OBVIOUS
    <3> QED
      BY <3>1
  <2>4. h = [s \in SUBSET (DOMAIN us) |->
              IF s = {} THEN <<>> ELSE LET x == Max(s) IN add(h[s \ {x}], us[x])]
    BY <1>2, <2>2, <2>3 DEF Folds
  <2> QED
    BY <2>4, Zenon
<1> HIDE DEF it
<1>6. ASSUME NEW k \in 1..n, it[1..k - 1] \in X PROVE it[1..k] \in X
  <2>1. Max(1..k) = k /\ (1..k) \ {k} = 1..k - 1 /\ 1..k # {} /\ 1..k \in SUBSET (DOMAIN us)
    <3>1. (1..k) \ {k} = 1..k - 1
      OBVIOUS
    <3>2. 1..k \subseteq Int /\ k \in 1..k /\ \A i \in 1..k : i <= k
      OBVIOUS
    <3>3. Max(1..k) = k
      BY <3>2, MaxIsLast
    <3> QED
      BY <1>2, <3>1, <3>3
  <2>2. it[1..k] = add(it[1..k - 1], us[k])
    BY <1>5, <2>1
  <2> QED
    BY <1>4, <1>6, <2>2
<1>7. it[1..0] \in X
  BY <1>3, <1>5
<1>8. it[1..n] \in X
  <2> DEFINE T == {i \in 0..n : it[1..i] \in X}
  <2>1. 0 \in T /\ \A k \in 1..n : k - 1 \in T => k \in T
    BY <1>6, <1>7
  <2> HIDE DEF T
  <2>2. \A k \in 0..n : k \in T
    BY <1>2, <2>1, IndexInduction
  <2> QED
    BY <2>2 DEF T
<1> QED
  BY <1>1, <1>8 DEF X

\* What is retained of the evidence is some of it, in the same order.
Selects(r, e, k) ==
    \E g \in [1..Len(r) -> 1..k] :
      /\ \A i, j \in 1..Len(r) : i < j => g[i] < g[j]
      /\ \A i \in 1..Len(r) : r[i] = e[g[i]]
LEMMA RetainedSelects ==
    ASSUME NEW e \in Seq(Records)
    PROVE  /\ Retained(e) \in Seq(Records) /\ Len(Retained(e)) <= Len(e)
           /\ Selects(Retained(e), e, Len(e))
<1> DEFINE n == Len(e)
           X == Seq(Records)
           keep(kept, r) == IF r.old THEN kept ELSE Append(kept, r)
           it[s \in SUBSET (DOMAIN e)] ==
             IF s = {} THEN <<>> ELSE LET x == Max(s) IN keep(it[s \ {x}], e[x])
<1>1. Retained(e) = it[DOMAIN e]
  BY DEF Retained, FoldLeft, MapThenFoldSet
<1>2. n \in Nat /\ DOMAIN e = 1..n /\ \A i \in 1..n : e[i] \in Records
  OBVIOUS
<1>3. <<>> \in X
  OBVIOUS
<1>4. ASSUME NEW c \in X, NEW r \in Records PROVE keep(c, r) \in X
  OBVIOUS
<1>5. ASSUME NEW k \in 1..n, NEW c \in X, Len(c) <= k - 1, Selects(c, e, k - 1)
      PROVE  Len(keep(c, e[k])) <= k /\ Selects(keep(c, e[k]), e, k)
  <2>1. PICK g \in [1..Len(c) -> 1..k - 1] :
           /\ \A i, j \in 1..Len(c) : i < j => g[i] < g[j]
           /\ \A i \in 1..Len(c) : c[i] = e[g[i]]
    BY <1>5 DEF Selects
  <2>2. CASE e[k].old
    <3>1. keep(c, e[k]) = c /\ g \in [1..Len(c) -> 1..k]
      BY <2>2
    <3>2. Len(c) <= k
      BY <1>5
    <3>3. Selects(c, e, k)
      BY <2>1 DEF Selects
    <3> QED
      BY <3>1, <3>2, <3>3
  <2>3. CASE ~e[k].old
    <3> DEFINE d == Append(c, e[k])
               h == [i \in 1..Len(d) |-> IF i = Len(d) THEN k ELSE g[i]]
    <3>1. /\ Len(c) \in Nat /\ Len(d) = Len(c) + 1
          /\ \A i \in 1..Len(c) : d[i] = c[i]
          /\ d[Len(d)] = e[k]
      OBVIOUS
    <3> HIDE DEF d
    <3>2. h \in [1..Len(d) -> 1..k]
      BY <3>1
    <3>3. ASSUME NEW i \in 1..Len(d), NEW j \in 1..Len(d), i < j PROVE h[i] < h[j]
      <4>1. i \in 1..Len(c) /\ h[i] = g[i] /\ g[i] \in 1..k - 1
        BY <3>1, <3>3
      <4>2. CASE j = Len(d)
        BY <4>1, <4>2
      <4>3. CASE j # Len(d)
        <5>1. j \in 1..Len(c) /\ h[j] = g[j]
          BY <3>1, <4>3
        <5> QED
          BY <2>1, <3>3, <5>1
      <4> QED
        BY <4>2, <4>3
    <3>4. \A i \in 1..Len(d) : d[i] = e[h[i]]
      BY <2>1, <3>1
    <3>5. Len(d) <= k /\ keep(c, e[k]) = d
      BY <1>5, <2>3 DEF d
    <3> QED
      BY <3>2, <3>3, <3>4, <3>5 DEF Selects
  <2> QED
    BY <2>2, <2>3
<1> HIDE DEF keep, X
<1>6. it = [s \in SUBSET (DOMAIN e) |->
              IF s = {} THEN <<>> ELSE LET x == Max(s) IN keep(it[s \ {x}], e[x])]
  <2> DEFINE step == [i \in 1..n |-> [c \in X |-> keep(c, e[i])]]
  <2>1. step \in [1..n -> [X -> X]]
    BY <1>4
  <2>2. PICK h \in [SUBSET (1..n) -> X] : Folds(h, n, <<>>, step)
    <3> HIDE DEF step, n, it
    <3> QED
      BY <1>2, <1>3, <2>1, FoldExists
  <2>3. ASSUME NEW s \in SUBSET (1..n), s # {}
        PROVE  step[Max(s)][h[s \ {Max(s)}]] = keep(h[s \ {Max(s)}], e[Max(s)])
    <3>1. Max(s) \in 1..n
      <4>1. s \in SUBSET (0..n)
        OBVIOUS
      <4> QED
        BY <1>2, <2>3, <4>1, MaxOfBounded
    <3>2. h[s \ {Max(s)}] \in X
      OBVIOUS
    <3> QED
      BY <3>1
  <2>4. h = [s \in SUBSET (DOMAIN e) |->
              IF s = {} THEN <<>> ELSE LET x == Max(s) IN keep(h[s \ {x}], e[x])]
    BY <1>2, <2>2, <2>3 DEF Folds
  <2> QED
    BY <2>4, Zenon
<1> HIDE DEF it
<1> DEFINE Good(k) == /\ it[1..k] \in X /\ Len(it[1..k]) <= k
                      /\ Selects(it[1..k], e, k)
           T == {k \in 0..n : Good(k)}
<1>7. 0 \in T
  <2>1. it[1..0] = <<>>
    BY <1>6
  <2>2. Selects(<<>>, e, 0)
    <3> DEFINE g == [i \in 1..Len(<<>>) |-> i]
    <3>1. Len(<<>>) = 0
      OBVIOUS
    <3>2. g \in [1..Len(<<>>) -> 1..0] /\ ~\E i \in 1..Len(<<>>) : TRUE
      OBVIOUS
    <3> QED
      BY <3>2 DEF Selects
  <2> QED
    BY <1>3, <2>1, <2>2
<1>8. ASSUME NEW k \in 1..n, k - 1 \in T PROVE k \in T
  <2>1. Max(1..k) = k /\ (1..k) \ {k} = 1..k - 1 /\ 1..k # {} /\ 1..k \in SUBSET (DOMAIN e)
    <3>1. (1..k) \ {k} = 1..k - 1
      OBVIOUS
    <3>2. 1..k \subseteq Int /\ k \in 1..k /\ \A i \in 1..k : i <= k
      OBVIOUS
    <3>3. Max(1..k) = k
      BY <3>2, MaxIsLast
    <3> QED
      BY <1>2, <3>1, <3>3
  <2>2. it[1..k] = keep(it[1..k - 1], e[k])
    BY <1>6, <2>1
  <2> QED
    BY <1>4, <1>5, <1>8, <2>2
<1> HIDE DEF T
<1>9. \A k \in 0..n : k \in T
  BY <1>2, <1>7, <1>8, IndexInduction
<1> QED
  BY <1>1, <1>9 DEF T, X

----------------------------------------------------------------------------
(* The records on disk *)

Rising(e) == e \in Seq(Records) /\ Len(e) <= MaxRecords /\ OrdinalsRise(e)
From(r, e) == \A i \in 1..Len(r) : \E j \in 1..Len(e) : r[i] = e[j]

LEMMA RetainedRises ==
    ASSUME NEW e, Rising(e)
    PROVE  Rising(Retained(e)) /\ From(Retained(e), e)
<1> DEFINE r == Retained(e)
<1>1. e \in Seq(Records) /\ r \in Seq(Records) /\ Len(r) <= Len(e) /\ Selects(r, e, Len(e))
  BY RetainedSelects DEF Rising
<1> HIDE DEF r
<1>2. /\ Len(e) \in Nat /\ DOMAIN e = 1..Len(e)
      /\ Len(r) \in Nat /\ DOMAIN r = 1..Len(r)
  OBVIOUS
<1>3. PICK g \in [1..Len(r) -> 1..Len(e)] :
         /\ \A i, j \in 1..Len(r) : i < j => g[i] < g[j]
         /\ \A i \in 1..Len(r) : r[i] = e[g[i]]
  BY <1>1 DEF Selects
<1>4. ASSUME NEW i \in 1..Len(r), NEW j \in 1..Len(r), i < j, r[i].session = r[j].session
      PROVE  r[i].ordinal < r[j].ordinal
  <2>1. g[i] \in 1..Len(e) /\ g[j] \in 1..Len(e) /\ g[i] < g[j]
    BY <1>3, <1>4
  <2>2. r[i] = e[g[i]] /\ r[j] = e[g[j]]
    BY <1>3
  <2>3. \A a, b \in 1..Len(e) :
          a < b /\ e[a].session = e[b].session => e[a].ordinal < e[b].ordinal
    BY DEF Rising, OrdinalsRise
  <2>4. e[g[i]].session = e[g[j]].session
    BY <1>4, <2>2
  <2>5. e[g[i]].ordinal < e[g[j]].ordinal
    BY <2>1, <2>3, <2>4
  <2> QED
    BY <2>2, <2>5
<1>5. From(r, e)
  BY <1>3 DEF From
<1>6. Len(r) <= MaxRecords
  BY <1>1, DeliveryBounds DEF Rising
<1> QED
  <2>1. OrdinalsRise(r)
    BY <1>4 DEF OrdinalsRise
  <2> QED
    BY <1>1, <1>5, <1>6, <2>1 DEF Rising, r

LEMMA EvictedRises ==
    ASSUME NEW e, Rising(e)
    PROVE  Rising(Evicted(e)) /\ From(Evicted(e), e) /\ Len(Evicted(e)) < MaxRecords
<1>1. e \in Seq(Records) /\ Len(e) \in Nat /\ DOMAIN e = 1..Len(e) /\ Len(e) <= MaxRecords
  BY DEF Rising
<1>2. CASE Len(e) < MaxRecords
  BY <1>2, DeliveryBounds DEF Evicted, From
<1>3. CASE ~(Len(e) < MaxRecords)
  <2>1. e # <<>> /\ Evicted(e) = Tail(e)
    <3>1. Len(e) >= MaxRecords /\ Len(e) # 0
      BY <1>3, DeliveryBounds
    <3>2. Len(<<>>) = 0
      OBVIOUS
    <3> QED
      BY <3>1 DEF Evicted
  <2>2. /\ Tail(e) \in Seq(Records) /\ Len(Tail(e)) = Len(e) - 1
        /\ \A i \in 1..Len(Tail(e)) : Tail(e)[i] = e[i + 1]
    BY <1>1, <2>1
  <2>3. DOMAIN Tail(e) = 1..Len(Tail(e))
    OBVIOUS
  <2>4. OrdinalsRise(Tail(e))
    BY DEF Rising, OrdinalsRise
  <2>5. From(Tail(e), e)
    <3>1. \A i \in 1..Len(Tail(e)) : i + 1 \in 1..Len(e)
      OBVIOUS
    <3> QED
      BY DEF From
  <2> QED
    BY <2>1, <2>4, <2>5, DeliveryBounds DEF Rising
<1> QED
  BY <1>2, <1>3

\* A turn's place is beyond those of its session's records.
LEMMA OrdinalIsNew ==
    ASSUME NEW e \in Seq(Records), NEW s
    PROVE  /\ Ordinal(e, s) \in Nat \ {0}
           /\ \A i \in 1..Len(e) : e[i].session = s => e[i].ordinal < Ordinal(e, s)
<1> DEFINE f == [i \in 1..Len(e) |-> e[i].ordinal]
           S == {0} \cup {e[i].ordinal : i \in Of(e, s)}
<1>1. Len(e) \in Nat /\ DOMAIN e = 1..Len(e) /\ \A i \in 1..Len(e) : e[i].ordinal \in Nat
  <2>1. \A i \in 1..Len(e) : e[i] \in Records
    OBVIOUS
  <2> QED
    BY <2>1 DEF Records
<1>2. f \in [1..Len(e) -> Nat]
  BY <1>1
<1>3. PICK b \in Nat : \A i \in 1..Len(e) : f[i] <= b
  <2> HIDE DEF f
  <2> QED
    BY <1>1, <1>2, Bounded
<1>4. S \in SUBSET (0..b) /\ S # {}
  <2>1. \A i \in Of(e, s) : e[i].ordinal \in 0..b
    BY <1>1, <1>3 DEF Of
  <2> QED
    BY <2>1
<1> HIDE DEF S
<1>5. Max(S) \in S /\ \A i \in S : i <= Max(S)
  BY <1>4, MaxOfBounded
<1>6. Ordinal(e, s) = Max(S) + 1
  BY DEF Ordinal, S
<1>7. \A i \in 1..Len(e) : e[i].session = s => e[i].ordinal \in S
  BY DEF S, Of
<1>8. Max(S) \in Nat
  <2>1. \A k \in S : k \in 0..b
    BY <1>4
  <2> QED
    BY <1>5, <2>1
<1>9. ASSUME NEW i \in 1..Len(e), e[i].session = s PROVE e[i].ordinal < Max(S) + 1
  <2>1. e[i].ordinal \in Nat /\ e[i].ordinal <= Max(S)
    BY <1>1, <1>5, <1>7, <1>9
  <2> QED
    BY <1>8, <2>1
<1> QED
  BY <1>6, <1>8, <1>9

LEMMA AppendRises ==
    ASSUME NEW e, Rising(e), Len(e) < MaxRecords, NEW r \in Records,
           \A i \in 1..Len(e) : e[i].session = r.session => e[i].ordinal < r.ordinal
    PROVE  /\ Rising(Append(e, r))
           /\ \A i \in 1..Len(Append(e, r)) :
                Append(e, r)[i] = r \/ \E j \in 1..Len(e) : Append(e, r)[i] = e[j]
<1> DEFINE d == Append(e, r)
<1>1. e \in Seq(Records) /\ Len(e) \in Nat /\ DOMAIN e = 1..Len(e)
  BY DEF Rising
<1>2. /\ d \in Seq(Records) /\ Len(d) = Len(e) + 1
      /\ \A i \in 1..Len(e) : d[i] = e[i]
      /\ d[Len(e) + 1] = r
  BY <1>1
<1>3. DOMAIN d = 1..Len(e) + 1
  OBVIOUS
<1> HIDE DEF d
<1>4. ASSUME NEW i \in 1..Len(e) + 1, NEW j \in 1..Len(e) + 1, i < j,
             d[i].session = d[j].session
      PROVE  d[i].ordinal < d[j].ordinal
  <2>1. i \in 1..Len(e) /\ d[i] = e[i]
    BY <1>2, <1>4
  <2>2. CASE j = Len(e) + 1
    BY <1>2, <1>4, <2>2
  <2>3. CASE j # Len(e) + 1
    <3>1. j \in 1..Len(e) /\ d[j] = e[j]
      BY <1>2, <2>3
    <3> QED
      BY <1>4, <2>1, <3>1 DEF Rising, OrdinalsRise
  <2> QED
    BY <2>2, <2>3
<1>5. OrdinalsRise(d)
  BY <1>3, <1>4 DEF OrdinalsRise
<1>6. \A i \in 1..Len(d) : d[i] = r \/ \E j \in 1..Len(e) : d[i] = e[j]
  BY <1>2
<1>7. Len(d) <= MaxRecords
  BY <1>2, DeliveryBounds
<1> QED
  BY <1>5, <1>7
     DEF Rising,
         d ----------------------------------------------------------------------------
(* One turn moves *)

\* Turn t is at pc with verdict v and the documents l left; no other moves.
Moves(t, pc, v, l) ==
    /\ turn' \in [Turns -> TurnStates]
    /\ turn'[t].pc = pc /\ turn'[t].verdict = v /\ turn'[t].left = l
    /\ turn'[t].background = turn[t].background
    /\ \A u \in Turns \ {t} : turn'[u] = turn[u]

LEMMA GoesMoves ==
    ASSUME DeliveryTypes, NEW t \in Turns, NEW pc \in Pcs, Goes(t, pc)
    PROVE  Moves(t, pc, turn[t].verdict, turn[t].left)
  BY DEF DeliveryTypes, TurnStates, Goes, Moves

LEMMA ReturnsMoves ==
    ASSUME DeliveryTypes, NEW t \in Turns, NEW v \in Verdicts, Returns(t, v)
    PROVE  Moves(t, "idle", v, <<>>)
<1> DEFINE a == IF v = "too_large" THEN turn[t].attempts ELSE 0
           r == [turn[t] EXCEPT !.pc = "idle", !.verdict = v, !.left = <<>>, !.attempts = a]
<1>1. turn[t] \in TurnStates /\ "idle" \in Pcs
  BY DEF DeliveryTypes, Pcs
<1>2. a \in Nat
  BY <1>1 DEF TurnStates
<1>3. turn' = [turn EXCEPT ![t] = r]
  BY DEF Returns
<1> HIDE DEF a
<1>4. /\ r \in TurnStates /\ r.pc = "idle" /\ r.verdict = v /\ r.left = <<>>
      /\ r.background = turn[t].background
  <2>1. <<>> \in Seq(Paths)
    OBVIOUS
  <2> QED
    BY <1>1, <1>2, <2>1 DEF TurnStates
<1> HIDE DEF r
<1> QED
  BY <1>3, <1>4 DEF Moves, DeliveryTypes

LEMMA ShownOnce ==
    ASSUME DeliveryTypes, NEW t \in Turns, AnswerShown(t)
    PROVE  /\ answers' \in [Turns -> Nat] /\ answers'[t] = answers[t] + 1
           /\ \A u \in Turns \ {t} : answers'[u] = answers[u]
  BY DEF DeliveryTypes, AnswerShown

LEMMA MishapCounted ==
    ASSUME DeliveryTypes, Mishap \/ Works
    PROVE  mishaps' \in Nat
  BY DEF DeliveryTypes, Mishap, Works

\* What holds of a turn holds while it stands still.
StandsStill(u) ==
    /\ turn'[u] = turn[u] /\ collected'[u] = collected[u]
    /\ answers'[u] = answers[u] /\ files'[u] = files[u] /\ notices'[u] = notices[u]
LEMMA OthersStandStill ==
    ASSUME DeliveryInv, NEW u \in Turns, StandsStill(u)
    PROVE  AnswerCounted(u)' /\ FilesOrdered(u)'
<1>1. AnswerCounted(u) /\ FilesOrdered(u)
  BY DEF DeliveryInv
<1>2. AnswerCounted(u)'
  BY <1>1 DEF StandsStill, AnswerCounted
<1>3. FilesOrdered(u)'
  BY <1>1 DEF StandsStill, FilesOrdered, Foreground
<1> QED
  BY <1>2, <1>3

\* The evidence stays true when no answer goes and no turn fails afterwards.
Stays(t) ==
    answers[t] = 1 /\ Foreground(t) /\ turn[t].verdict \notin {"uncertain", "rejected"} =>
      (answers[t] = 1 /\ Foreground(t) /\ turn[t].verdict \notin {"uncertain", "rejected"})'
LEMMA EvidenceStays ==
    ASSUME DeliveryInv, UNCHANGED evidence, \A u \in Turns : Stays(u)
    PROVE  EvidenceTrue'
<1>1. EvidenceTrue /\ \A i \in DOMAIN evidence : evidence[i].turn \in Turns \cup {Earlier}
  <2>1. \A i \in DOMAIN evidence : evidence[i] \in Records
    BY DEF DeliveryInv, DeliveryTypes
  <2> QED
    BY <2>1 DEF DeliveryInv, Records
<1>2. Len(evidence') <= MaxRecords /\ OrdinalsRise(evidence')
  BY <1>1 DEF EvidenceTrue
<1>3. ASSUME NEW i \in DOMAIN evidence, evidence[i].turn # Earlier
      PROVE  LET t == evidence[i].turn IN
             (answers[t] = 1 /\ Foreground(t) /\ turn[t].verdict \notin {"uncertain", "rejected"})'
  BY <1>1, <1>3 DEF EvidenceTrue, Stays
<1> QED
  BY <1>2, <1>3 DEF EvidenceTrue
\* The invariant after a move of t, from what t, its evidence and the chat show.
LEMMA AfterMove ==
    ASSUME DeliveryInv, NEW t \in Turns, turn' \in [Turns -> TurnStates],
           DeliveryTypes', EvidenceTrue', AnswerCounted(t)', FilesOrdered(t)',
           \A u \in Turns \ {t} : StandsStill(u)
    PROVE  DeliveryInv'
<1>1. ASSUME NEW u \in Turns PROVE AnswerCounted(u)' /\ FilesOrdered(u)'
  BY OthersStandStill
<1> QED
  BY <1>1 DEF DeliveryInv

----------------------------------------------------------------------------
(* Prefixes *)

LEMMA PrefixMeans ==
    ASSUME NEW X, NEW f \in Seq(X), NEW c \in Seq(X)
    PROVE  IsPrefix(f, c) <=> Len(f) <= Len(c) /\ \A i \in 1..Len(f) : f[i] = c[i]
<1> DEFINE p == SubSeq(f, 1, Len(f))
           q == SubSeq(c, 1, Len(f))
<1>1. Len(f) \in Nat /\ Len(c) \in Nat
  OBVIOUS
<1>2. CASE Len(f) <= Len(c)
  <2>1. /\ p \in Seq(X) /\ Len(p) = Len(f) /\ \A i \in 1..Len(f) : p[i] = f[i]
        /\ q \in Seq(X) /\ Len(q) = Len(f) /\ \A i \in 1..Len(f) : q[i] = c[i]
    BY <1>2
  <2>2. p = q <=> \A i \in 1..Len(f) : p[i] = q[i]
    OBVIOUS
  <2> HIDE DEF p, q
  <2>3. p = q <=> \A i \in 1..Len(f) : f[i] = c[i]
    BY <2>1, <2>2
  <2> QED
    BY DEF IsPrefix
<1> QED
  BY DEF IsPrefix

LEMMA PrefixOfConcat ==
    ASSUME NEW X, NEW f \in Seq(X), NEW l \in Seq(X)
    PROVE  IsPrefix(f, f \o l)
<1>1. /\ f \o l \in Seq(X) /\ Len(f) <= Len(f \o l)
      /\ \A i \in 1..Len(f) : (f \o l)[i] = f[i]
  OBVIOUS
<1> QED
  BY <1>1, PrefixMeans

LEMMA NextPrefix ==
    ASSUME NEW X, NEW f \in Seq(X), NEW l \in Seq(X), l # <<>>
    PROVE  /\ Append(f, Head(l)) \in Seq(X) /\ Tail(l) \in Seq(X)
           /\ f \o l = Append(f, Head(l)) \o Tail(l)
           /\ f # f \o l
           /\ Len(l) # 1 => Tail(l) # <<>>
<1> DEFINE a == Append(f, Head(l))
<1>1. /\ Head(l) \in X /\ Tail(l) \in Seq(X) /\ Len(l) \in Nat \ {0} /\ Head(l) = l[1]
      /\ Len(Tail(l)) = Len(l) - 1 /\ \A i \in 1..Len(Tail(l)) : Tail(l)[i] = l[i + 1]
  OBVIOUS
<1>2. /\ a \in Seq(X) /\ Len(f) \in Nat /\ Len(a) = Len(f) + 1
      /\ \A i \in 1..Len(f) : a[i] = f[i]
      /\ a[Len(f) + 1] = Head(l)
  OBVIOUS
<1> HIDE DEF a
<1>3. /\ f \o l \in Seq(X) /\ Len(f \o l) = Len(f) + Len(l)
      /\ \A i \in 1..Len(f) + Len(l) :
           (f \o l)[i] = IF i <= Len(f) THEN f[i] ELSE l[i - Len(f)]
  OBVIOUS
<1>4. /\ a \o Tail(l) \in Seq(X) /\ Len(a \o Tail(l)) = Len(a) + Len(Tail(l))
      /\ \A i \in 1..Len(a) + Len(Tail(l)) :
           (a \o Tail(l))[i] = IF i <= Len(a) THEN a[i] ELSE Tail(l)[i - Len(a)]
  BY <1>1, <1>2, ConcatProperties
<1>5. ASSUME NEW i \in 1..Len(f) + Len(l) PROVE (f \o l)[i] = (a \o Tail(l))[i]
  <2>1. CASE i <= Len(f)
    BY <1>2
  <2>2. CASE i = Len(f) + 1
    BY <1>2
  <2>3. CASE i > Len(f) + 1
    <3>1. i - Len(a) \in 1..Len(Tail(l)) /\ (i - Len(a)) + 1 = i - Len(f)
      BY <1>2, <2>3
    <3>2. Tail(l)[i - Len(a)] = l[i - Len(f)]
      BY <3>1
    <3> QED
      BY <1>2
  <2> QED
    BY <1>2
<1>6. f \o l = a \o Tail(l)
  BY <1>1, <1>2, <1>4, <1>5
<1>7. f # f \o l
  OBVIOUS
<1>8. Len(l) # 1 => Tail(l) # <<>>
  <2>1. Len(l) # 1 => Len(Tail(l)) # 0
    OBVIOUS
  <2>2. Len(<<>>) = 0
    OBVIOUS
  <2> QED
    BY <2>1
<1> QED
  BY <1>6, <1>8 DEF a

LEMMA PrefixInjective ==
    ASSUME NEW X, NEW f \in Seq(X), NEW c \in Seq(X), IsPrefix(f, c), IsInjective(c)
    PROVE  IsInjective(f)
<1>1. Len(f) <= Len(c) /\ \A i \in 1..Len(f) : f[i] = c[i]
  BY PrefixMeans
<1>2. /\ Len(f) \in Nat /\ DOMAIN f = 1..Len(f) /\ Len(c) \in Nat /\ DOMAIN c = 1..Len(c)
      /\ \A i \in 1..Len(f) : i \in 1..Len(c)
  BY <1>1
<1> QED
  BY <1>1 DEF IsInjective

LEMMA EmptyPrefix ==
    ASSUME NEW X, NEW c \in Seq(X)
    PROVE  IsPrefix(<<>>, c) /\ IsInjective(<<>>) /\ <<>> \in Seq(X) /\ <<>> \o c = c
<1>1. <<>> \in Seq(X) /\ Len(<<>>) = 0 /\ Len(c) \in Nat
  OBVIOUS
<1>2. IsPrefix(<<>>, c)
  <2>1. <<>> \o c \in Seq(X) /\ <<>> \o c = c
    OBVIOUS
  <2> QED
    BY <1>1, <2>1, PrefixOfConcat
<1>3. IsInjective(<<>>)
  BY DEF IsInjective
<1>4. <<>> \o c = c
  OBVIOUS
<1> QED
  BY <1>2, <1>3
(* Initialisation *)

LEMMA DeliveryInit == Init => DeliveryInv
<1> SUFFICES ASSUME Init PROVE DeliveryInv
  OBVIOUS
<1>1. <<>> \in Seq(Paths) /\ IsInjective(<<>>) /\ IsPrefix(<<>>, <<>>) /\ Len(<<>>) = 0
  <2>1. <<>> \in Seq(Paths) /\ Len(<<>>) = 0
    OBVIOUS
  <2> QED
    BY <2>1, EmptyPrefix
<1>2. turn \in [Turns -> TurnStates]
  <2>1. ASSUME NEW r \in [pc : {"idle"}, session : Sessions, background : BOOLEAN,
                          left : {<<>>}, attempts : {0}, verdict : {"none"}]
        PROVE  r \in TurnStates
    <3>1. /\ r = [pc |-> "idle", session |-> r.session, background |-> r.background,
                  left |-> <<>>, attempts |-> 0, verdict |-> "none"]
          /\ r.session \in Sessions /\ r.background \in BOOLEAN
      OBVIOUS
    <3>2. "idle" \in Pcs /\ "none" \in Verdicts /\ 0 \in Nat /\ <<>> \in Seq(Paths)
      BY DEF Pcs, Verdicts
    <3> QED
      BY <3>2 DEF TurnStates
  <2> QED
    BY <2>1 DEF Init
<1>3. evidence \in Seq(Records) /\ Len(evidence) <= MaxRecords
  <2>1. evidence \in BoundedSeq(EarlierRecords, MaxEarlier)
    BY DEF Init
  <2>2. PICK n \in 0..MaxEarlier : evidence \in [1..n -> EarlierRecords]
    BY <2>1 DEF BoundedSeq, SeqOf
  <2>3. n \in Nat /\ n <= MaxRecords
    BY DeliveryBounds
  <2>4. EarlierRecords \subseteq Records
    <3>1. 1..MaxRecords \subseteq Nat \ {0}
      OBVIOUS
    <3> QED
      BY <3>1 DEF EarlierRecords, Records
  <2>5. evidence \in Seq(EarlierRecords) /\ Len(evidence) = n
    BY <2>2
  <2>6. evidence \in [1..n -> Records]
    BY <2>2, <2>4
  <2> QED
    BY <2>3, <2>6
<1>4. DeliveryTypes
  BY <1>2, <1>3 DEF Init, DeliveryTypes
<1>5. EvidenceTrue
  <2>1. \A i \in DOMAIN evidence : evidence[i].turn = Earlier
    <3>1. evidence \in BoundedSeq(EarlierRecords, MaxEarlier)
      BY DEF Init
    <3> QED
      BY <3>1 DEF BoundedSeq, SeqOf, EarlierRecords
  <2> QED
    BY <1>3, <2>1 DEF Init, EvidenceTrue
<1>6. ASSUME NEW t \in Turns PROVE AnswerCounted(t) /\ FilesOrdered(t)
  <2>1. /\ turn[t].pc = "idle" /\ turn[t].verdict = "none" /\ answers[t] = 0
        /\ collected[t] = <<>> /\ files[t] = <<>> /\ notices[t] = 0
    BY DEF Init
  <2>2. AnswerCounted(t)
    BY <2>1 DEF AnswerCounted, Following
  <2>3. FilesOrdered(t)
    BY <1>1, <2>1, DeliveryBounds DEF FilesOrdered
  <2> QED
    BY <2>2, <2>3
<1> QED
  BY <1>4, <1>5, <1>6 DEF DeliveryInv

----------------------------------------------------------------------------
(* The Stop hook *)

LEMMA StopKeeps ==
    ASSUME DeliveryInv, NEW t \in Turns, Stop(t)
    PROVE  DeliveryInv' /\ Moves(t, turn'[t].pc, turn[t].verdict, turn[t].left)
<1>1. DeliveryTypes /\ AnswerCounted(t) /\ FilesOrdered(t)
  BY DEF DeliveryInv
<1>2. PICK pc \in {"rich", "markdown"} :
        turn' = [turn EXCEPT ![t].attempts = @ + 1, ![t].pc = pc]
  BY DEF Stop
<1>3. Moves(t, pc, turn[t].verdict, turn[t].left)
  <2> DEFINE r == [turn[t] EXCEPT !.attempts = @ + 1, !.pc = pc]
  <2>1. turn[t] \in TurnStates /\ pc \in Pcs
    BY <1>1 DEF DeliveryTypes, Pcs
  <2>2. turn' = [turn EXCEPT ![t] = r]
    BY <1>2
  <2>3. /\ r \in TurnStates /\ r.pc = pc /\ r.verdict = turn[t].verdict
        /\ r.left = turn[t].left /\ r.background = turn[t].background
    <3>1. turn[t].attempts + 1 \in Nat
      BY <2>1 DEF TurnStates
    <3> QED
      BY <2>1, <3>1 DEF TurnStates
  <2> HIDE DEF r
  <2> QED
    BY <1>1, <2>2, <2>3 DEF DeliveryTypes, Moves
<1>4. /\ answers[t] = 0 /\ files[t] = <<>> /\ notices[t] = 0
      /\ UNCHANGED <<evidence, answers, files, notices, mishaps>>
  BY <1>1 DEF Stop, AnswerCounted, FilesOrdered, Unsettled, chatVars
<1>5. /\ collected' \in [Turns -> Seq(Paths)]
      /\ \A u \in Turns \ {t} : collected'[u] = collected[u]
      /\ IsInjective(collected'[t]) /\ Len(collected'[t]) <= MaxArtifacts
  <2>1. CASE UNCHANGED collected
    BY <1>1, <2>1 DEF DeliveryTypes, FilesOrdered
  <2>2. CASE \E c \in Collections : collected' = [collected EXCEPT ![t] = c]
    <3>1. PICK us \in BoundedSeq(Uses, MaxUses) : collected' = [collected EXCEPT ![t] = Found(us)]
      BY <2>2 DEF Collections
    <3>2. us \in Seq(Uses)
      <4>1. PICK n \in 0..MaxUses : us \in [1..n -> Uses]
        BY DEF BoundedSeq, SeqOf
      <4> QED
        BY <4>1
    <3>3. /\ Found(us) \in Seq(Paths) /\ Len(Found(us)) <= MaxArtifacts
          /\ IsInjective(Found(us))
      BY <3>2, FoundProper
    <3> HIDE DEF Collections
    <3> QED
      BY <1>1, <3>1, <3>3 DEF DeliveryTypes
  <2> QED
    BY <2>1, <2>2 DEF Stop, Collects
<1>6. DeliveryTypes'
  BY <1>1, <1>3, <1>4, <1>5 DEF DeliveryTypes, Moves
<1>7. AnswerCounted(t)'
  BY <1>3, <1>4 DEF AnswerCounted, Moves, Unsettled, Following, Stop
<1>8. FilesOrdered(t)'
  <2>1. IsPrefix(files'[t], collected'[t])
    BY <1>4, <1>5, EmptyPrefix
  <2>2. files'[t] = <<>> /\ notices'[t] = 0 /\ turn'[t].pc \in {"rich", "markdown"}
    BY <1>3, <1>4 DEF Moves
  <2> QED
    BY <1>5, <2>1, <2>2 DEF FilesOrdered
<1>9. \A u \in Turns : Stays(u)
  BY <1>3, <1>4 DEF Stays, Moves, Foreground
<1>10. \A u \in Turns \ {t} : StandsStill(u)
  BY <1>3, <1>4, <1>5 DEF StandsStill, Moves
<1>11. EvidenceTrue'
  BY <1>4, <1>9, EvidenceStays
<1> QED
  BY <1>3, <1>6, <1>7, <1>8, <1>10, <1>11, AfterMove DEF Moves

----------------------------------------------------------------------------
(* Sending the answer *)

\* What one send can do to a turn: every branch of the three methods.
Sends(t) ==
    /\ turn[t].pc \in Answering
    /\ \/ Accepted(t) \/ Unknown(t)
       \/ \E pc \in Answering : Refused(t, pc) /\ Works
       \/ \E v \in {"too_large", "rejected"} : Returns(t, v) /\ UNCHANGED answers /\ Works
    /\ UNCHANGED <<collected, evidence, files, notices>>
LEMMA MethodsSend ==
    ASSUME NEW t \in Turns, SendRich(t) \/ SendMarkdown(t) \/ SendText(t)
    PROVE  Sends(t)
<1>1. CASE SendRich(t)
  BY <1>1 DEF SendRich, Sends, Answering
<1>2. CASE SendMarkdown(t)
  BY <1>2 DEF SendMarkdown, Sends, Answering, TooLarge
<1>3. CASE SendText(t)
  BY <1>3 DEF SendText, Sends, Answering, TooLarge
<1> QED
  BY <1>1, <1>2, <1>3

\* A send is the answer, or a return with a verdict that does not deny it.
LEMMA SendOutcome ==
    ASSUME DeliveryInv, NEW t \in Turns, Sends(t)
    PROVE  /\ answers[t] = 0 /\ turn[t].verdict \in Unsettled /\ mishaps' \in Nat
           /\ answers' \in [Turns -> Nat]
           /\ \A u \in Turns \ {t} : answers'[u] = answers[u]
           /\ \/ /\ answers'[t] = 1
                 /\ Moves(t, "evidence", turn[t].verdict, turn[t].left)
              \/ /\ answers'[t] \in 0..1
                 /\ Moves(t, "idle", "uncertain", <<>>)
              \/ /\ answers'[t] = 0
                 /\ \E pc \in Answering : Moves(t, pc, turn[t].verdict, turn[t].left)
              \/ /\ answers'[t] = 0
                 /\ \E v \in {"too_large", "rejected"} : Moves(t, "idle", v, <<>>)
<1>1. DeliveryTypes /\ AnswerCounted(t)
  BY DEF DeliveryInv
<1>2. answers[t] = 0 /\ turn[t].verdict \in Unsettled
  BY <1>1 DEF Sends, AnswerCounted, Answering
<1>3. Answering \subseteq Pcs /\ "evidence" \in Pcs
  BY DEF Answering, Pcs
<1>4. {"too_large", "rejected", "uncertain"} \subseteq Verdicts
  BY DEF Verdicts
<1>5. Mishap \/ Works
  BY DEF Sends, Accepted, Unknown
<1>6. CASE Accepted(t)
  BY <1>1, <1>2, <1>3, <1>6, ShownOnce, GoesMoves, MishapCounted DEF Accepted
<1>7. CASE Unknown(t)
  <2>1. Moves(t, "idle", "uncertain", <<>>)
    BY <1>1, <1>4, <1>7, ReturnsMoves DEF Unknown
  <2>2. CASE AnswerShown(t)
    BY <1>1, <1>2, <1>5, <2>1, <2>2, ShownOnce, MishapCounted
  <2>3. CASE UNCHANGED answers
    BY <1>1, <1>2, <1>5, <2>1, <2>3, MishapCounted DEF DeliveryTypes
  <2> QED
    BY <1>7, <2>2, <2>3 DEF Unknown
<1>8. CASE \E pc \in Answering : Refused(t, pc) /\ Works
  <2>1. PICK pc \in Answering : Goes(t, pc) /\ UNCHANGED answers
    BY <1>8 DEF Refused
  <2>2. Moves(t, pc, turn[t].verdict, turn[t].left)
    BY <1>1, <1>3, <2>1, GoesMoves
  <2> QED
    BY <1>1, <1>2, <1>5, <2>1, <2>2, MishapCounted DEF DeliveryTypes
<1>9. CASE \E v \in {"too_large", "rejected"} : Returns(t, v) /\ UNCHANGED answers /\ Works
  <2>1. PICK v \in {"too_large", "rejected"} : Returns(t, v) /\ UNCHANGED answers
    BY <1>9
  <2>2. Moves(t, "idle", v, <<>>)
    BY <1>1, <1>4, <2>1, ReturnsMoves
  <2> QED
    BY <1>1, <1>2, <1>5, <2>1, <2>2, MishapCounted DEF DeliveryTypes
<1> QED
  BY <1>6, <1>7, <1>8, <1>9 DEF Sends

LEMMA SendKeeps ==
    ASSUME DeliveryInv, NEW t \in Turns, Sends(t)
    PROVE  DeliveryInv'
<1>1. DeliveryTypes /\ AnswerCounted(t) /\ FilesOrdered(t)
  BY DEF DeliveryInv
<1>2. PICK pc, v, l : /\ pc \in Answering \cup {"evidence", "idle"} /\ v \in Verdicts
                      /\ Moves(t, pc, v, l)
  <2>1. turn[t].verdict \in Verdicts
    BY <1>1 DEF DeliveryTypes, TurnStates
  <2> QED
    BY <2>1, SendOutcome DEF Verdicts
<1>3. UNCHANGED <<collected, evidence, files, notices>>
  BY DEF Sends
<1>4. DeliveryTypes'
  BY <1>1, <1>3, SendOutcome DEF DeliveryTypes, Moves
<1>5. AnswerCounted(t)'
  BY SendOutcome DEF AnswerCounted, Moves, Unsettled, Answering, Following
<1>6. FilesOrdered(t)'
  <2>1. files[t] = <<>> /\ notices[t] = 0
    BY <1>1, SendOutcome DEF FilesOrdered
  <2> QED
    BY <1>1, <1>2, <1>3, <2>1 DEF FilesOrdered, Moves, Answering
<1>7. \A u \in Turns : Stays(u)
  <2>1. Stays(t)
    BY SendOutcome DEF Stays
  <2>2. ASSUME NEW u \in Turns \ {t} PROVE Stays(u)
    BY SendOutcome DEF Stays, Moves, Foreground
  <2> QED
    BY <2>1, <2>2
<1>8. EvidenceTrue'
  BY <1>3, <1>7, EvidenceStays
<1>9. \A u \in Turns \ {t} : StandsStill(u)
  BY <1>3, SendOutcome DEF StandsStill, Moves
<1> QED
  BY <1>2, <1>4, <1>5, <1>6, <1>8, <1>9, AfterMove
     DEF Moves ----------------------------------------------------------------------------
(* After the answer *)

\* The documents begin with none shown.
LEMMA FilesBegin ==
    ASSUME DeliveryInv, NEW t \in Turns, turn[t].pc = "evidence"
    PROVE  files[t] = <<>> /\ notices[t] = 0 /\ answers[t] = 1 /\ turn[t].verdict \in Unsettled
<1>1. AnswerCounted(t) /\ FilesOrdered(t)
  BY DEF DeliveryInv
<1> QED
  BY <1>1 DEF AnswerCounted, FilesOrdered, Following

\* The store as a foreground answer may leave it: the records that are kept
\* of those before, and possibly the turn's own.
LEMMA PersistedEvidence ==
    ASSUME DeliveryInv, NEW t \in Turns, Persist(t)
    PROVE  /\ Rising(evidence')
           /\ \A i \in 1..Len(evidence') :
                \/ \E j \in 1..Len(evidence) : evidence'[i] = evidence[j]
                \/ evidence'[i].turn = t /\ Foreground(t)
<1> DEFINE kept == Retained(evidence)
           done == Append(Evicted(kept), Record(t))
<1>1. Rising(evidence)
  BY DEF DeliveryInv, DeliveryTypes, EvidenceTrue, Rising
<1>2. Rising(kept) /\ From(kept, evidence)
  BY <1>1, RetainedRises
<1> HIDE DEF kept
<1>3. Rising(Evicted(kept)) /\ From(Evicted(kept), kept) /\ Len(Evicted(kept)) < MaxRecords
  BY <1>2, EvictedRises
<1>4. From(Evicted(kept), evidence)
  BY <1>2, <1>3 DEF From
<1>5. Record(t) \in Records /\ Record(t).turn = t
  <2>1. turn[t].session \in Sessions
    BY DEF DeliveryInv, DeliveryTypes, TurnStates
  <2>2. Ordinal(kept, turn[t].session) \in Nat \ {0}
    BY <1>2, OrdinalIsNew DEF Rising
  <2> QED
    BY <2>1, <2>2 DEF Record, Records, kept
<1>6. \A i \in 1..Len(Evicted(kept)) :
        Evicted(kept)[i].session = Record(t).session =>
          Evicted(kept)[i].ordinal < Record(t).ordinal
  <2>1. \A i \in 1..Len(kept) :
          kept[i].session = Record(t).session => kept[i].ordinal < Record(t).ordinal
    BY <1>2, OrdinalIsNew DEF Rising, Record, kept
  <2> QED
    BY <1>3, <2>1 DEF From
<1>7. /\ Rising(done)
      /\ \A i \in 1..Len(done) :
           done[i] = Record(t) \/ \E j \in 1..Len(Evicted(kept)) : done[i] = Evicted(kept)[j]
  BY <1>3, <1>5, <1>6, AppendRises
<1> HIDE DEF done
<1>8. ASSUME NEW i \in 1..Len(done)
      PROVE  done[i].turn = t \/ \E j \in 1..Len(evidence) : done[i] = evidence[j]
  BY <1>4, <1>5, <1>7 DEF From
<1>9. CASE Foreground(t)
  <2>1. evidence' \in {evidence, kept, Evicted(kept), done}
    BY DEF Persist, kept, done
  <2> QED
    BY <1>1, <1>2, <1>3, <1>7, <1>8, <1>9, <2>1 DEF From
<1>10. CASE ~Foreground(t)
  BY <1>1, <1>10 DEF Persist
<1> QED
  BY <1>9, <1>10

LEMMA PersistMoves ==
    ASSUME DeliveryInv, NEW t \in Turns, Persist(t)
    PROVE  \/ /\ Moves(t, "artifacts", turn[t].verdict, collected[t])
              /\ Foreground(t) /\ collected[t] # <<>>
           \/ Moves(t, "idle", "delivered", <<>>)
<1>1. DeliveryTypes
  BY DEF DeliveryInv
<1>2. CASE Foreground(t) /\ collected[t] # <<>>
  <2> DEFINE r == [turn[t] EXCEPT !.pc = "artifacts", !.left = collected[t]]
  <2>1. turn[t] \in TurnStates /\ collected[t] \in Seq(Paths) /\ "artifacts" \in Pcs
    BY <1>1 DEF DeliveryTypes, Pcs
  <2>2. turn' = [turn EXCEPT ![t] = r]
    BY <1>2 DEF Persist
  <2>3. /\ r \in TurnStates /\ r.pc = "artifacts" /\ r.verdict = turn[t].verdict
        /\ r.left = collected[t] /\ r.background = turn[t].background
    BY <2>1 DEF TurnStates
  <2> HIDE DEF r
  <2> QED
    BY <1>1, <1>2, <2>2, <2>3 DEF DeliveryTypes, Moves
<1>3. CASE ~(Foreground(t) /\ collected[t] # <<>>)
  <2>1. Returns(t, "delivered") /\ "delivered" \in Verdicts
    BY <1>3 DEF Persist, Verdicts
  <2> QED
    BY <1>1, <2>1, ReturnsMoves
<1> QED
  BY <1>2, <1>3

LEMMA PersistKeeps ==
    ASSUME DeliveryInv, NEW t \in Turns, Persist(t)
    PROVE  DeliveryInv'
<1>1. DeliveryTypes /\ AnswerCounted(t) /\ FilesOrdered(t) /\ EvidenceTrue
  BY DEF DeliveryInv
<1>2. /\ turn[t].pc = "evidence" /\ UNCHANGED <<collected, answers, files, notices>>
      /\ mishaps' \in Nat
  BY <1>1, MishapCounted DEF Persist, chatVars
<1>3. files[t] = <<>> /\ notices[t] = 0 /\ answers[t] = 1 /\ turn[t].verdict \in Unsettled
  BY <1>2, FilesBegin
<1>4. PICK pc, v, l : Moves(t, pc, v, l)
  BY PersistMoves
<1>5. turn'[t].verdict \in Unsettled \cup {"delivered"}
  BY <1>3, PersistMoves DEF Moves
<1>6. DeliveryTypes'
  BY <1>1, <1>2, <1>4, PersistedEvidence DEF DeliveryTypes, Moves, Rising
<1>7. AnswerCounted(t)'
  BY <1>2, <1>3, PersistMoves DEF AnswerCounted, Moves, Unsettled, Answering
<1>8. FilesOrdered(t)'
  <2>1. collected[t] \in Seq(Paths)
    BY <1>1 DEF DeliveryTypes
  <2>2. IsPrefix(<<>>, collected[t]) /\ <<>> \o collected[t] = collected[t]
    BY <2>1, EmptyPrefix
  <2>3. CASE Moves(t, "idle", "delivered", <<>>)
    BY <1>1, <1>2, <2>3 DEF FilesOrdered, Moves
  <2>4. CASE /\ Moves(t, "artifacts", turn[t].verdict, collected[t])
             /\ Foreground(t) /\ collected[t] # <<>>
    BY <1>1, <1>2, <2>2, <2>4 DEF FilesOrdered, Moves, Foreground
  <2> QED
    BY <2>3, <2>4, PersistMoves
<1>9. \A u \in Turns \ {t} : StandsStill(u)
  BY <1>2, <1>4 DEF StandsStill, Moves
<1>10. EvidenceTrue'
  <2>1. Rising(evidence')
    BY PersistedEvidence
  <2>2. /\ DOMAIN evidence' = 1..Len(evidence') /\ DOMAIN evidence = 1..Len(evidence)
        /\ \A j \in 1..Len(evidence) : evidence[j].turn \in Turns \cup {Earlier}
    <3>1. \A j \in 1..Len(evidence) : evidence[j] \in Records
      BY <1>1 DEF DeliveryTypes
    <3> QED
      BY <3>1 DEF Records
  <2>3. ASSUME NEW i \in 1..Len(evidence'), evidence'[i].turn # Earlier
        PROVE  LET u == evidence'[i].turn IN
               /\ answers'[u] = 1 /\ ~turn'[u].background
               /\ turn'[u].verdict \notin {"uncertain", "rejected"}
    <3>1. CASE evidence'[i].turn = t /\ Foreground(t)
      BY <1>2, <1>3, <1>4, <1>5, <3>1 DEF Foreground, Moves, Unsettled
    <3>2. CASE \E j \in 1..Len(evidence) : evidence'[i] = evidence[j]
      <4>1. PICK j \in 1..Len(evidence) : evidence'[i] = evidence[j]
        BY <3>2
      <4> DEFINE u == evidence[j].turn
      <4>2. /\ u \in Turns /\ answers[u] = 1 /\ ~turn[u].background
            /\ turn[u].verdict \notin {"uncertain", "rejected"}
        BY <1>1, <2>2, <2>3, <4>1 DEF EvidenceTrue, Foreground
      <4> HIDE DEF u
      <4>3. CASE u = t
        BY <1>2, <1>4, <1>5, <4>2, <4>1 DEF Moves, Unsettled, u
      <4>4. CASE u # t
        BY <1>2, <1>4, <4>1, <4>2, <4>4 DEF Moves, u
      <4> QED
        BY <4>3, <4>4
    <3> QED
      BY <3>1, <3>2, PersistedEvidence
  <2> QED
    BY <2>1, <2>3 DEF EvidenceTrue, Rising, Foreground
<1> QED
  BY <1>4, <1>6, <1>7, <1>8, <1>9, <1>10, AfterMove
     DEF Moves ----------------------------------------------------------------------------
(* The documents, and the notice *)

LEMMA AttachMoves ==
    ASSUME DeliveryInv, NEW t \in Turns, Attach(t)
    PROVE  /\ files' \in [Turns -> Seq(Paths)]
           /\ \A u \in Turns \ {t} : files'[u] = files[u]
           /\ \/ /\ Moves(t, "idle", "delivered", <<>>)
                 /\ files'[t] \in {files[t], Append(files[t], Head(turn[t].left))}
              \/ /\ Moves(t, "artifacts", turn[t].verdict, Tail(turn[t].left))
                 /\ Len(turn[t].left) # 1
                 /\ files'[t] = Append(files[t], Head(turn[t].left))
              \/ /\ Moves(t, "notice", turn[t].verdict, turn[t].left)
                 /\ files'[t] = files[t]
<1>1. DeliveryTypes /\ FilesOrdered(t) /\ turn[t].pc = "artifacts"
  BY DEF DeliveryInv, Attach
<1>2. turn[t] \in TurnStates /\ files[t] \in Seq(Paths) /\ turn[t].left \in Seq(Paths)
  BY <1>1 DEF DeliveryTypes, TurnStates
<1>3. turn[t].left # <<>>
  BY <1>1 DEF FilesOrdered
<1>4. Append(files[t], Head(turn[t].left)) \in Seq(Paths) /\ Tail(turn[t].left) \in Seq(Paths)
  BY <1>2, <1>3
<1>5. "delivered" \in Verdicts /\ "notice" \in Pcs
  BY DEF Verdicts, Pcs
<1>6. ASSUME FileShown(t)
      PROVE  /\ files' \in [Turns -> Seq(Paths)]
             /\ \A u \in Turns \ {t} : files'[u] = files[u]
             /\ files'[t] = Append(files[t], Head(turn[t].left))
  BY <1>1, <1>4, <1>6 DEF FileShown, DeliveryTypes
<1>7. CASE Uploaded(t)
  <2>1. CASE Len(turn[t].left) = 1
    BY <1>1, <1>5, <1>6, <1>7, <2>1, ReturnsMoves DEF Uploaded
  <2>2. CASE Len(turn[t].left) # 1
    <3> DEFINE r == [turn[t] EXCEPT !.left = Tail(@)]
    <3>1. turn' = [turn EXCEPT ![t] = r]
      BY <1>7, <2>2 DEF Uploaded
    <3>2. /\ r \in TurnStates /\ r.pc = "artifacts" /\ r.verdict = turn[t].verdict
          /\ r.left = Tail(turn[t].left) /\ r.background = turn[t].background
      BY <1>1, <1>2, <1>4 DEF TurnStates
    <3> HIDE DEF r
    <3>3. Moves(t, "artifacts", turn[t].verdict, Tail(turn[t].left))
      BY <1>1, <3>1, <3>2 DEF DeliveryTypes, Moves
    <3> QED
      BY <1>6, <1>7, <2>2, <3>3 DEF Uploaded
  <2> QED
    BY <2>1, <2>2
<1>8. CASE NotAttached(t)
  BY <1>1, <1>5, <1>8, GoesMoves DEF NotAttached, DeliveryTypes
<1>9. CASE UploadUnknown(t)
  <2>1. Moves(t, "idle", "delivered", <<>>)
    BY <1>1, <1>5, <1>9, ReturnsMoves DEF UploadUnknown
  <2>2. FileShown(t) \/ UNCHANGED files
    BY <1>9 DEF UploadUnknown
  <2> QED
    BY <1>1, <1>6, <2>1, <2>2 DEF DeliveryTypes
<1> QED
  BY <1>7, <1>8, <1>9 DEF Attach

LEMMA AttachKeeps ==
    ASSUME DeliveryInv, NEW t \in Turns, Attach(t)
    PROVE  DeliveryInv'
<1> DEFINE l == turn[t].left
           f == Append(files[t], Head(l))
<1>1. DeliveryTypes /\ AnswerCounted(t) /\ FilesOrdered(t)
  BY DEF DeliveryInv
<1>2. /\ turn[t].pc = "artifacts" /\ UNCHANGED <<collected, evidence, answers, notices>>
      /\ mishaps' \in Nat
  BY <1>1, MishapCounted DEF Attach, Uploaded, NotAttached, UploadUnknown
<1>3. /\ answers[t] = 1 /\ turn[t].verdict \in Unsettled /\ Foreground(t) /\ notices[t] = 0
      /\ l # <<>> /\ collected[t] = files[t] \o l
  BY <1>1, <1>2 DEF AnswerCounted, FilesOrdered, Following
<1>4. l \in Seq(Paths) /\ files[t] \in Seq(Paths)
  BY <1>1 DEF DeliveryTypes, TurnStates
<1>5. /\ f \in Seq(Paths) /\ Tail(l) \in Seq(Paths) /\ collected[t] = f \o Tail(l)
      /\ files[t] # collected[t] /\ (Len(l) # 1 => Tail(l) # <<>>)
  <2> HIDE DEF l
  <2>1. /\ Append(files[t], Head(l)) \in Seq(Paths) /\ Tail(l) \in Seq(Paths)
        /\ files[t] \o l = Append(files[t], Head(l)) \o Tail(l)
        /\ files[t] # files[t] \o l /\ (Len(l) # 1 => Tail(l) # <<>>)
    <3>1. l # <<>>
      BY <1>3
    <3> HIDE DEF f
    <3>2. Append(files[t], Head(l)) \in Seq(Paths) /\ Tail(l) \in Seq(Paths)
      BY <1>4, <3>1
    <3>3. files[t] \o l = Append(files[t], Head(l)) \o Tail(l)
      BY <1>4, <3>1, NextPrefix
    <3>4. files[t] # files[t] \o l
      BY <3>1
    <3>5. Len(l) # 1 => Tail(l) # <<>>
      BY <1>4, <3>1, NextPrefix
    <3> QED
      BY <3>2, <3>3, <3>5
  <2> QED
    BY <1>3, <2>1
<1> HIDE DEF f, l
<1>6. IsPrefix(f, collected[t]) /\ IsPrefix(files[t], collected[t])
  BY <1>3, <1>4, <1>5, PrefixOfConcat
<1>7. PICK pc, v, k : Moves(t, pc, v, k)
  BY AttachMoves
<1>8. DeliveryTypes'
  BY <1>1, <1>2, AttachMoves DEF DeliveryTypes, Moves
<1>9. AnswerCounted(t)'
  BY <1>2, <1>3, AttachMoves DEF AnswerCounted, Moves, Unsettled, Answering
<1>10. FilesOrdered(t)'
  <2>1. IsInjective(collected'[t]) /\ Len(collected'[t]) <= MaxArtifacts
    BY <1>1, <1>2 DEF FilesOrdered
  <2>2. answers'[t] = 1 /\ Foreground(t)' /\ notices'[t] = 0
    BY <1>2, <1>3, <1>7 DEF Moves, Foreground
  <2>3. /\ IsPrefix(files'[t], collected'[t]) /\ turn'[t].pc # "evidence"
        /\ turn'[t].pc \in {"artifacts", "notice"} =>
              turn'[t].left # <<>> /\ collected'[t] = files'[t] \o turn'[t].left
    BY <1>2, <1>3, <1>5, <1>6, AttachMoves DEF Moves, f, l
  <2>4. notices'[t] <= 1 /\ notices'[t] # 1
    BY <2>2
  <2> QED
    BY <2>1, <2>2, <2>3, <2>4, Zenon DEF FilesOrdered
<1>11. \A u \in Turns : Stays(u)
  <2>1. Stays(t)
    BY <1>2, AttachMoves DEF Stays, Moves, Foreground
  <2>2. ASSUME NEW u \in Turns \ {t} PROVE Stays(u)
    BY <1>2, <1>7 DEF Stays, Moves, Foreground
  <2> QED
    BY <2>1, <2>2
<1>12. EvidenceTrue'
  BY <1>2, <1>11, EvidenceStays
<1>13. \A u \in Turns \ {t} : StandsStill(u)
  BY <1>2, AttachMoves DEF StandsStill, Moves
<1> QED
  BY <1>7, <1>8, <1>9, <1>10, <1>12, <1>13, AfterMove DEF Moves

LEMMA NoticeKeeps ==
    ASSUME DeliveryInv, NEW t \in Turns, Notice(t)
    PROVE  DeliveryInv' /\ Moves(t, "idle", "delivered", <<>>)
<1>1. DeliveryTypes /\ AnswerCounted(t) /\ FilesOrdered(t)
  BY DEF DeliveryInv
<1>2. /\ turn[t].pc = "notice" /\ UNCHANGED <<collected, evidence, answers, files>>
      /\ mishaps' \in Nat
  BY <1>1, MishapCounted DEF Notice
<1>3. /\ answers[t] = 1 /\ turn[t].verdict \in Unsettled /\ Foreground(t) /\ notices[t] = 0
      /\ turn[t].left # <<>> /\ collected[t] = files[t] \o turn[t].left
  BY <1>1, <1>2 DEF AnswerCounted, FilesOrdered, Following
<1>4. files[t] # collected[t]
  <2> DEFINE l == turn[t].left
  <2>1. l \in Seq(Paths) /\ files[t] \in Seq(Paths) /\ l # <<>> /\ collected[t] = files[t] \o l
    BY <1>1, <1>3 DEF DeliveryTypes, TurnStates
  <2> HIDE DEF l
  <2> QED
    BY <2>1
<1>5. Moves(t, "idle", "delivered", <<>>)
  BY <1>1, ReturnsMoves DEF Notice, Verdicts
<1>6. /\ notices' \in [Turns -> Nat] /\ notices'[t] \in 0..1
      /\ \A u \in Turns \ {t} : notices'[u] = notices[u]
  <2>1. CASE UNCHANGED notices
    BY <1>1, <1>3, <2>1 DEF DeliveryTypes
  <2>2. CASE notices' = [notices EXCEPT ![t] = @ + 1]
    BY <1>1, <1>3, <2>2 DEF DeliveryTypes
  <2> QED
    BY <2>1, <2>2 DEF Notice
<1>7. DeliveryTypes'
  BY <1>1, <1>2, <1>5, <1>6 DEF DeliveryTypes, Moves
<1>8. AnswerCounted(t)'
  BY <1>2, <1>3, <1>5 DEF AnswerCounted, Moves, Answering, Unsettled
<1>9. FilesOrdered(t)'
  <2>1. answers'[t] = 1 /\ Foreground(t)' /\ turn'[t].pc = "idle" /\ notices'[t] <= 1
    BY <1>2, <1>3, <1>5, <1>6 DEF Moves, Foreground
  <2> QED
    BY <1>1, <1>2, <1>4, <2>1 DEF FilesOrdered
<1>10. \A u \in Turns : Stays(u)
  BY <1>2, <1>5 DEF Stays, Moves, Foreground
<1>11. EvidenceTrue'
  BY <1>2, <1>10, EvidenceStays
<1>12. \A u \in Turns \ {t} : StandsStill(u)
  BY <1>2, <1>5, <1>6 DEF StandsStill, Moves
<1> QED
  BY <1>5, <1>7, <1>8, <1>9, <1>11, <1>12, AfterMove DEF Moves

----------------------------------------------------------------------------
(* Time, and the end of the renderer *)

LEMMA RecordAgesKeeps ==
    ASSUME DeliveryInv, RecordAges
    PROVE  DeliveryInv'
<1>1. DeliveryTypes /\ EvidenceTrue
  BY DEF DeliveryInv
<1>2. UNCHANGED <<turn, collected, answers, files, notices, mishaps>>
  BY DEF RecordAges, chatVars
<1>3. PICK i \in DOMAIN evidence : evidence' = [evidence EXCEPT ![i].old = TRUE]
  BY DEF RecordAges
<1>4. /\ Len(evidence) \in Nat /\ DOMAIN evidence = 1..Len(evidence)
      /\ evidence \in [1..Len(evidence) -> Records]
      /\ \A j \in 1..Len(evidence) : evidence[j] \in Records
  BY <1>1 DEF DeliveryTypes
<1> DEFINE r == [evidence[i] EXCEPT !.old = TRUE]
<1>5. /\ r \in Records /\ r.turn = evidence[i].turn /\ r.session = evidence[i].session
      /\ r.ordinal = evidence[i].ordinal
  BY <1>4 DEF Records
<1>6. evidence' = [evidence EXCEPT ![i] = r]
  BY <1>3
<1> HIDE DEF r
<1>7. evidence' \in [1..Len(evidence) -> Records]
  BY <1>4, <1>5, <1>6
<1>8. evidence' \in Seq(Records) /\ Len(evidence') = Len(evidence)
  BY <1>7
<1>9. \A j \in 1..Len(evidence) :
        /\ evidence'[j].turn = evidence[j].turn /\ evidence'[j].session = evidence[j].session
        /\ evidence'[j].ordinal = evidence[j].ordinal
  BY <1>5, <1>6
<1>10. DOMAIN evidence' = 1..Len(evidence)
  BY <1>7
<1>11. DeliveryTypes'
  BY <1>1, <1>2, <1>8 DEF DeliveryTypes
<1>12. EvidenceTrue'
  <2>1. OrdinalsRise(evidence')
    BY <1>1, <1>9, <1>10 DEF EvidenceTrue, OrdinalsRise
  <2> QED
    BY <1>1, <1>2, <1>9, <1>10, <2>1 DEF EvidenceTrue, Foreground
<1>13. ASSUME NEW u \in Turns PROVE AnswerCounted(u)' /\ FilesOrdered(u)'
  BY <1>2, OthersStandStill DEF StandsStill
<1> QED
  BY <1>11, <1>12, <1>13 DEF DeliveryInv

LEMMA RendererDiesKeeps ==
    ASSUME DeliveryInv, RendererDies
    PROVE  /\ DeliveryInv'
           /\ \A u \in Turns : turn'[u].verdict = turn[u].verdict
<1>1. DeliveryTypes
  BY DEF DeliveryInv
<1>2. UNCHANGED <<collected, evidence, answers, files, notices>> /\ mishaps' \in Nat
  BY <1>1, MishapCounted DEF RendererDies, chatVars
<1>3. ASSUME NEW u \in Turns
      PROVE  /\ turn'[u] \in TurnStates /\ turn'[u].verdict = turn[u].verdict
             /\ turn'[u].background = turn[u].background
             /\ \/ turn'[u] = turn[u]
                \/ turn'[u].pc = "lost" /\ turn[u].verdict \in Unsettled
  <2>1. turn[u] \in TurnStates /\ "lost" \in Pcs
    BY <1>1 DEF DeliveryTypes, Pcs
  <2>2. \/ turn'[u] = turn[u]
        \/ turn'[u] = [turn[u] EXCEPT !.pc = "lost"] /\ turn[u].verdict \in Unsettled
    BY DEF RendererDies, Unsettled
  <2> QED
    BY <2>1, <2>2 DEF TurnStates
<1>4. turn' \in [Turns -> TurnStates]
  BY <1>3 DEF RendererDies
<1>5. DeliveryTypes'
  BY <1>1, <1>2, <1>4 DEF DeliveryTypes
<1>6. \A u \in Turns : Stays(u)
  BY <1>2, <1>3 DEF Stays, Foreground
<1>7. EvidenceTrue'
  BY <1>2, <1>6, EvidenceStays
<1>8. ASSUME NEW u \in Turns PROVE AnswerCounted(u)' /\ FilesOrdered(u)'
  <2>1. AnswerCounted(u) /\ FilesOrdered(u)
    BY DEF DeliveryInv
  <2>2. CASE turn'[u] = turn[u]
    BY <1>2, <2>2, OthersStandStill DEF StandsStill
  <2>3. CASE turn'[u].pc = "lost" /\ turn[u].verdict \in Unsettled
    <3>1. AnswerCounted(u)'
      BY <1>2, <1>3, <2>1 DEF AnswerCounted, Answering, Following
    <3>2. FilesOrdered(u)'
      BY <1>2, <1>3, <2>1 DEF FilesOrdered, Foreground
    <3> QED
      BY <3>1, <3>2
  <2> QED
    BY <1>3, <2>2, <2>3
<1> QED
  BY <1>3, <1>5, <1>7, <1>8 DEF DeliveryInv

----------------------------------------------------------------------------
(* The theorems *)

LEMMA DeliveryStep ==
    ASSUME DeliveryInv, [Next]_vars
    PROVE  DeliveryInv'
<1>1. ASSUME NEW t \in Turns, Stop(t) PROVE DeliveryInv'
  BY <1>1, StopKeeps
<1>2. ASSUME NEW t \in Turns, Step(t) PROVE DeliveryInv'
  BY <1>2, MethodsSend, SendKeeps, PersistKeeps, AttachKeeps, NoticeKeeps DEF Step
<1>3. CASE UNCHANGED vars \/ \E b \in BOOLEAN : RichComesBack(b)
  <2>1. UNCHANGED <<turn, collected, evidence, answers, files, notices, mishaps>>
    BY <1>3 DEF RichComesBack, vars, chatVars
  <2>2. \A u \in Turns : Stays(u) /\ StandsStill(u)
    BY <2>1 DEF Stays, StandsStill, Foreground
  <2>3. EvidenceTrue' /\ \A u \in Turns : AnswerCounted(u)' /\ FilesOrdered(u)'
    BY <2>1, <2>2, EvidenceStays, OthersStandStill
  <2>4. DeliveryTypes'
    BY <2>1 DEF DeliveryInv, DeliveryTypes
  <2> QED
    BY <2>3, <2>4 DEF DeliveryInv
<1>4. CASE RecordAges
  BY <1>4, RecordAgesKeeps
<1>5. CASE RendererDies
  BY <1>5, RendererDiesKeeps
<1> QED
  BY <1>1, <1>2, <1>3, <1>4, <1>5 DEF Next

\* The inductive invariant: what the chat shows at every step of deliverFinal,
\* and that every record on disk speaks of an answer that is there.
THEOREM DeliveryInvariant == Spec => []DeliveryInv
  BY DeliveryInit, DeliveryStep, PTL DEF Spec

\* The documents of a turn follow its text, each once and in order, however
\* many there are and wherever the uploads fail.
THEOREM DocumentsFollowText == Spec => []FilesFollowText
<1>1. ASSUME DeliveryInv PROVE FilesFollowText
  <2> SUFFICES ASSUME NEW t \in Turns
               PROVE  /\ files[t] # <<>> \/ notices[t] # 0 => answers[t] = 1 /\ Foreground(t)
                      /\ IsPrefix(files[t], collected[t]) /\ IsInjective(files[t])
                      /\ notices[t] <= 1 /\ (notices[t] = 1 => files[t] # collected[t])
    BY DEF FilesFollowText
  <2>1. FilesOrdered(t) /\ files[t] \in Seq(Paths) /\ collected[t] \in Seq(Paths)
    BY <1>1 DEF DeliveryInv, DeliveryTypes
  <2>2. IsInjective(files[t])
    BY <2>1, PrefixInjective DEF FilesOrdered
  <2> QED
    BY <2>1, <2>2 DEF FilesOrdered
<1> QED
  BY <1>1, DeliveryInvariant, PTL

\* The evidence speaks only of foreground answers that are there, and gives no
\* two turns of a session the same place, whatever expires or is evicted.
THEOREM EvidenceIsTrue == Spec => []EvidenceOfDelivery
<1>1. ASSUME DeliveryInv PROVE EvidenceOfDelivery
  <2>1. \A i \in DOMAIN evidence : evidence[i] \in Records
    BY <1>1 DEF DeliveryInv, DeliveryTypes
  <2>2. TypeOK
    BY <1>1, <2>1
       DEF DeliveryInv, DeliveryTypes, EvidenceTrue, FilesOrdered, TypeOK, TurnStates,
           Records
  <2>3. ASSUME NEW r \in ToSet(evidence), r.turn # Earlier
        PROVE  /\ answers[r.turn] = 1 /\ Foreground(r.turn)
               /\ turn[r.turn].verdict \notin {"uncertain", "rejected"}
    BY <1>1, <2>3 DEF DeliveryInv, EvidenceTrue, ToSet
  <2> QED
    BY <1>1, <2>2, <2>3 DEF DeliveryInv, EvidenceTrue, EvidenceOfDelivery
<1> QED
  BY <1>1, DeliveryInvariant, PTL

----------------------------------------------------------------------------
(* deliverFinal implements its contract *)

\* The verdict of t is settled as v, or stays if v is what it was.
LEMMA MoveSettles ==
    ASSUME DeliveryTypes, NEW t \in Turns, NEW pc, NEW v, NEW l, Moves(t, pc, v, l)
    PROVE  [u \in Turns |-> turn'[u].verdict]
             = [[u \in Turns |-> turn[u].verdict] EXCEPT ![t] = v]
  BY DEF Moves

LEMMA ContractInitially == Init => Promise!ContractInit
  BY DEF Init, Promise!ContractInit

LEMMA ContractStep ==
    ASSUME DeliveryInv, [Next]_vars
    PROVE  [Promise!ContractNext]_<<answers, [t \in Turns |-> turn[t].verdict]>>
<1> DEFINE verdict == [t \in Turns |-> turn[t].verdict]
<1>1. DeliveryTypes
  BY DEF DeliveryInv
<1>2. ASSUME UNCHANGED answers, \A u \in Turns : turn'[u].verdict = turn[u].verdict
      PROVE  UNCHANGED <<answers, verdict>>
  BY <1>2
<1>3. ASSUME NEW t \in Turns, UNCHANGED answers, Moves(t, "idle", "delivered", <<>>),
             answers[t] = 1, turn[t].verdict \in Unsettled
      PROVE  Promise!ContractNext
  BY <1>1, <1>3, MoveSettles
     DEF Promise!ContractNext, Promise!Settles, Promise!Unsettled, Unsettled
<1>4. ASSUME NEW t \in Turns, Sends(t) PROVE Promise!ContractNext \/ UNCHANGED <<answers, verdict>>
  <2>1. answers[t] = 0 /\ verdict[t] \in Promise!Unsettled
    BY <1>4, SendOutcome DEF Promise!Unsettled, Unsettled
  <2>2. answers'[t] = 1 => Promise!Shows(t)
    <3>1. answers'[t] = 1 => answers' = [answers EXCEPT ![t] = 1]
      BY <1>1, <1>4, SendOutcome DEF DeliveryTypes
    <3> QED
      BY <2>1, <3>1 DEF Promise!Shows
  <2>3. answers'[t] = 0 => UNCHANGED answers
    BY <1>1, <1>4, SendOutcome DEF DeliveryTypes
  <2>4. ASSUME NEW pc, NEW v, NEW l, Moves(t, pc, v, l)
        PROVE  (v = turn[t].verdict => UNCHANGED verdict) /\ Promise!Settles(t, v)
    <3>1. verdict' = [verdict EXCEPT ![t] = v]
      BY <1>1, <2>4, MoveSettles
    <3> QED
      BY <2>1, <3>1 DEF Promise!Settles
  <2> HIDE DEF verdict
  <2>5. CASE answers'[t] = 1 /\ Moves(t, "evidence", turn[t].verdict, turn[t].left)
    BY <2>2, <2>4, <2>5 DEF Promise!ContractNext, verdict
  <2>6. CASE answers'[t] \in 0..1 /\ Moves(t, "idle", "uncertain", <<>>)
    BY <2>2, <2>3, <2>4, <2>6 DEF Promise!ContractNext
  <2>7. CASE /\ answers'[t] = 0
             /\ \E pc \in Answering : Moves(t, pc, turn[t].verdict, turn[t].left)
    BY <2>3, <2>4, <2>7
  <2>8. CASE /\ answers'[t] = 0
             /\ \E v \in {"too_large", "rejected"} : Moves(t, "idle", v, <<>>)
    BY <2>3, <2>4, <2>8 DEF Promise!ContractNext
  <2> QED
    BY <1>4, <2>5, <2>6, <2>7, <2>8, SendOutcome
<1>5. ASSUME NEW t \in Turns, Persist(t) \/ Attach(t) \/ Notice(t)
      PROVE  Promise!ContractNext \/ UNCHANGED <<answers, verdict>>
  <2>1. answers[t] = 1 /\ turn[t].verdict \in Unsettled /\ UNCHANGED answers
    BY <1>5 DEF DeliveryInv, AnswerCounted, Following, Persist, Attach, Notice, chatVars
  <2>2. \/ Moves(t, "idle", "delivered", <<>>)
        \/ \E pc, l : Moves(t, pc, turn[t].verdict, l)
    BY <1>5, PersistMoves, AttachMoves, NoticeKeeps
  <2>3. CASE \E pc, l : Moves(t, pc, turn[t].verdict, l)
    BY <2>1, <2>3 DEF Moves
  <2> QED
    BY <1>3, <2>1, <2>2, <2>3
<1>6. ASSUME NEW t \in Turns, Stop(t) PROVE UNCHANGED <<answers, verdict>>
  <2>1. Moves(t, turn'[t].pc, turn[t].verdict, turn[t].left) /\ UNCHANGED answers
    BY <1>6, StopKeeps DEF Stop, chatVars
  <2> QED
    BY <2>1 DEF Moves
<1>7. CASE \/ UNCHANGED vars \/ RecordAges \/ \E b \in BOOLEAN : RichComesBack(b)
  BY <1>7 DEF vars, chatVars, RecordAges, RichComesBack
<1>8. CASE RendererDies
  BY <1>8 DEF RendererDies, chatVars
<1> HIDE DEF verdict
<1> QED
  BY <1>4, <1>5, <1>6, <1>7, <1>8, MethodsSend DEF Next, Step, verdict

\* Over all methods, fallbacks, Stops and deaths, deliverFinal keeps what
\* progress-disclosure.ts:785-815 counts on: one answer at most, and a verdict
\* that says what the chat shows.
THEOREM DeliveryKeepsContract == Spec => KeepsContract
  BY ContractInitially, ContractStep, DeliveryInvariant, PTL
     DEF Spec, KeepsContract, Promise!Contract
=============================================================================
