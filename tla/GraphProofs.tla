----------------------------- MODULE GraphProofs -----------------------------
(***************************************************************************)
(* Theorems about GraphSearch by itself, for every set of notes and links, *)
(* every depth and limit and any changes while a search is under way.      *)
(***************************************************************************)
EXTENDS GraphSearch, FiniteSetTheorems, FunctionTheorems, SequenceTheorems,
        WellFoundedInduction, TLAPS

GraphSpec == GraphInit /\ [][GraphNext]_graphVars

(***************************************************************************)
(* Induction over the numbers, for sets of numbers: the least one that is  *)
(* missing is 0 or the successor of one that is there.                     *)
(***************************************************************************)
LEMMA SetInduction ==
    ASSUME NEW T, 0 \in T, \A k \in Nat : k \in T => k + 1 \in T
    PROVE  Nat \subseteq T
<1> DEFINE M == Nat \ T
<1> SUFFICES ASSUME M # {}
             PROVE  FALSE
  OBVIOUS
<1>1. PICK k \in M : \A j \in M : <<j, k>> \notin OpToRel(<, Nat)
  <2>1. M \subseteq Nat
    OBVIOUS
  <2>2. QED
    BY <2>1, WFMin, NatLessThanWellFounded
<1>2. k \in Nat /\ k # 0
  OBVIOUS
<1>3. k - 1 \in Nat /\ k - 1 < k /\ (k - 1) + 1 = k
  BY <1>2
<1>4. k - 1 \notin M
  BY <1>1, <1>2, <1>3 DEF OpToRel
<1>5. QED
  BY <1>1, <1>3, <1>4

(***************************************************************************)
(* The notes within d links.                                               *)
(***************************************************************************)
Farthest == Depth + Cardinality(Notes)

LEMMA Numbers ==
    /\ Depth \in Nat /\ Depth >= 1 /\ Limit \in Nat /\ Limit >= 1 /\ MinSize \in Nat /\ MinSize >= 1
    /\ MaxChanges \in Nat /\ Cardinality(Notes) \in Nat
    /\ Farthest \in Nat /\ Depth <= Farthest /\ Cardinality(Notes) <= Farthest
BY GraphAssumption, FS_CardinalityType DEF Farthest

Wider(S, B) == B \cup UNION {Adjacent(S, m) : m \in B}

LEMMA BallIs ==
    ASSUME NEW S, NEW n
    PROVE  Ball(S, n) = [d \in 0..Farthest |->
                           IF d = 0 THEN {n} ELSE Wider(S, Ball(S, n)[d - 1])]
<1> DEFINE Grown(f, k) == f = [d \in 0..k |-> IF d = 0 THEN {n} ELSE Wider(S, f[d - 1])]
           T == {k \in Nat : \E f : Grown(f, k)}
<1>1. 0 \in T
  <2>1. Grown([d \in 0..0 |-> {n}], 0)
    OBVIOUS
  <2>2. QED
    BY <2>1
<1>2. ASSUME NEW k \in Nat, k \in T
      PROVE  k + 1 \in T
  <2>1. PICK f : Grown(f, k)
    BY <1>2
  <2> DEFINE g == [d \in 0..(k + 1) |-> IF d \in 0..k THEN f[d] ELSE Wider(S, f[k])]
             h == [d \in 0..(k + 1) |-> IF d = 0 THEN {n} ELSE Wider(S, g[d - 1])]
  <2>2. ASSUME NEW d \in 0..(k + 1)
        PROVE  g[d] = h[d]
    <3>1. CASE d = 0
      BY <2>1, <3>1
    <3>2. CASE d \in 1..k
      <4>1. d \in 0..k /\ d # 0 /\ d - 1 \in 0..k /\ d - 1 \in 0..(k + 1)
        BY <3>2
      <4>2. f[d] = Wider(S, f[d - 1])
        BY <2>1, <4>1
      <4>3. g[d] = f[d] /\ g[d - 1] = f[d - 1]
        BY <4>1
      <4>4. h[d] = Wider(S, g[d - 1])
        BY <2>2, <4>1
      <4>5. QED
        BY <4>2, <4>3, <4>4
    <3>3. CASE d = k + 1
      <4>1. d \notin 0..k /\ d # 0 /\ d - 1 = k /\ k \in 0..k /\ k \in 0..(k + 1)
        BY <3>3
      <4>2. g[d] = Wider(S, f[k]) /\ g[k] = f[k]
        BY <2>2, <4>1
      <4>3. h[d] = Wider(S, g[k])
        BY <2>2, <4>1
      <4>4. QED
        BY <4>2, <4>3
    <3>4. QED
      BY <3>1, <3>2, <3>3
  <2>3. g = h
    BY <2>2
  <2>4. Grown(g, k + 1)
    BY <2>3
  <2> HIDE DEF g
  <2>5. k + 1 \in Nat /\ \E e : Grown(e, k + 1)
    BY <2>4
  <2>6. QED
    BY <2>5
<1>3. Farthest \in T
  <2> HIDE DEF T
  <2>1. QED
    BY <1>1, <1>2, SetInduction, Numbers
<1>4. \E f : Grown(f, Farthest)
  BY <1>3
<1>5. Ball(S, n) = CHOOSE f : Grown(f, Farthest)
  BY DEF Ball, Wider, Farthest
<1>6. QED
  BY <1>4, <1>5

LEMMA BallSteps ==
    ASSUME NEW S, NEW n
    PROVE  /\ Ball(S, n)[0] = {n}
           /\ \A d \in 0..Farthest : d + 1 <= Farthest => Ball(S, n)[d + 1] = Wider(S, Ball(S, n)[d])
<1> DEFINE b == Ball(S, n)
<1>1. b = [d \in 0..Farthest |-> IF d = 0 THEN {n} ELSE Wider(S, b[d - 1])]
  BY BallIs
<1> HIDE DEF b
<1>2. b[0] = {n}
  BY <1>1, Numbers
<1>3. ASSUME NEW d \in 0..Farthest, d + 1 <= Farthest
      PROVE  b[d + 1] = Wider(S, b[d])
  <2>1. d + 1 \in 0..Farthest /\ d + 1 # 0 /\ (d + 1) - 1 = d
    BY <1>3, Numbers
  <2>2. b[d + 1] = Wider(S, b[(d + 1) - 1])
    BY <1>1, <2>1
  <2>3. QED
    BY <2>1, <2>2
<1>4. QED
  BY <1>2, <1>3 DEF b

LEMMA BallGrows ==
    ASSUME NEW S, NEW n, NEW e \in 0..Farthest, NEW d \in 0..e
    PROVE  Ball(S, n)[d] \subseteq Ball(S, n)[e]
<1> DEFINE b == Ball(S, n)
           T == {k \in Nat : k <= Farthest => \A i \in 0..k : b[i] \subseteq b[k]}
<1>1. 0 \in T
  OBVIOUS
<1>2. ASSUME NEW k \in Nat, k \in T
      PROVE  k + 1 \in T
  <2> SUFFICES ASSUME k + 1 <= Farthest, NEW i \in 0..(k + 1)
               PROVE  b[i] \subseteq b[k + 1]
    BY <1>2
  <2>1. k <= Farthest /\ k \in 0..Farthest
    BY Numbers
  <2>2. b[k] \subseteq b[k + 1]
    BY <2>1, BallSteps DEF Wider
  <2>3. CASE i = k + 1
    BY <2>3
  <2>4. CASE i \in 0..k
    BY <1>2, <2>1, <2>2, <2>4
  <2>5. QED
    BY <2>3, <2>4
<1>3. e \in T
  <2> HIDE DEF T
  <2>1. QED
    BY <1>1, <1>2, SetInduction, Numbers
<1>4. QED
  BY <1>3, Numbers

Closed(S, C) == \A m \in C : Adjacent(S, m) \subseteq C

\* What a set of notes that is left by no link holds.
LEMMA BallStays ==
    ASSUME NEW S, NEW C, NEW n \in C, Closed(S, C), NEW d \in 0..Farthest
    PROVE  Ball(S, n)[d] \subseteq C
<1> DEFINE b == Ball(S, n)
           T == {k \in Nat : k <= Farthest => b[k] \subseteq C}
<1>1. 0 \in T
  BY BallSteps
<1>2. ASSUME NEW k \in Nat, k \in T
      PROVE  k + 1 \in T
  <2> SUFFICES ASSUME k + 1 <= Farthest
               PROVE  b[k + 1] \subseteq C
    BY <1>2
  <2>1. k <= Farthest /\ k \in 0..Farthest
    BY Numbers
  <2>2. b[k] \subseteq C
    BY <1>2, <2>1
  <2>3. Wider(S, b[k]) \subseteq C
    BY <2>2 DEF Closed, Wider
  <2>4. QED
    BY <2>1, <2>3, BallSteps
<1>3. d \in T
  <2> HIDE DEF T
  <2>1. QED
    BY <1>1, <1>2, SetInduction, Numbers
<1>4. QED
  BY <1>3, Numbers

LEMMA BallOfNotes ==
    ASSUME NEW S, NEW n \in Notes, NEW d \in 0..Farthest
    PROVE  Ball(S, n)[d] \subseteq Notes
BY BallStays DEF Closed, Adjacent

\* As far as there are notes, nothing is left out: what is not closed yet has grown
\* with every link.
LEMMA BallCloses ==
    ASSUME NEW S, NEW n \in Notes
    PROVE  Closed(S, Ball(S, n)[Cardinality(Notes)])
<1> DEFINE b == Ball(S, n)
           T == {k \in Nat : k <= Farthest => Closed(S, b[k]) \/ k + 1 <= Cardinality(b[k])}
<1>1. \A k \in 0..Farthest : b[k] \subseteq Notes /\ IsFiniteSet(b[k]) /\ Cardinality(b[k]) \in Nat
                             /\ Cardinality(b[k]) <= Cardinality(Notes)
  BY BallOfNotes, GraphAssumption, FS_Subset, FS_CardinalityType
<1>2. 0 \in T
  <2>1. Cardinality(b[0]) = 1
    BY BallSteps, FS_Singleton
  <2>2. QED
    BY <2>1
<1>3. ASSUME NEW k \in Nat, k \in T
      PROVE  k + 1 \in T
  <2> SUFFICES ASSUME k + 1 <= Farthest
               PROVE  Closed(S, b[k + 1]) \/ (k + 1) + 1 <= Cardinality(b[k + 1])
    BY <1>3
  <2>1. k <= Farthest /\ k \in 0..Farthest /\ k + 1 \in 0..Farthest
    BY Numbers
  <2>2. b[k + 1] = Wider(S, b[k])
    BY <2>1, BallSteps
  <2>3. CASE Closed(S, b[k])
    <3>1. Wider(S, b[k]) = b[k]
      BY <2>3 DEF Closed, Wider
    <3>2. QED
      BY <2>2, <2>3, <3>1
  <2>4. CASE ~Closed(S, b[k])
    <3>1. b[k] \subseteq b[k + 1] /\ b[k] # b[k + 1]
      BY <2>2, <2>4 DEF Closed, Wider
    <3>2. k + 1 <= Cardinality(b[k])
      BY <1>3, <2>1, <2>4
    <3>3. Cardinality(b[k]) <= Cardinality(b[k + 1]) /\ Cardinality(b[k]) # Cardinality(b[k + 1])
      BY <1>1, <2>1, <3>1, FS_Subset
    <3>4. Cardinality(b[k]) \in Nat /\ Cardinality(b[k + 1]) \in Nat
      BY <1>1, <2>1
    <3>5. QED
      BY <3>2, <3>3, <3>4
  <2>5. QED
    BY <2>3, <2>4
<1>4. Cardinality(Notes) \in T
  <2> HIDE DEF T
  <2>1. QED
    BY <1>2, <1>3, SetInduction, Numbers
<1>5. QED
  BY <1>1, <1>4, Numbers

(***************************************************************************)
(* Components: the closed balls.                                           *)
(***************************************************************************)
Comp(S, n) == Ball(S, n)[Cardinality(Notes)]

LEMMA CompIs ==
    ASSUME NEW S, NEW n \in Notes
    PROVE  n \in Comp(S, n) /\ Comp(S, n) \subseteq Notes /\ Closed(S, Comp(S, n))
<1>1. Cardinality(Notes) \in 0..Farthest /\ 0 \in 0..Cardinality(Notes)
  BY Numbers
<1>2. {n} \subseteq Comp(S, n)
  BY <1>1, BallGrows, BallSteps DEF Comp
<1>3. QED
  BY <1>1, <1>2, BallOfNotes, BallCloses DEF Comp

LEMMA CompIsLeast ==
    ASSUME NEW S, NEW C, NEW n \in C, Closed(S, C)
    PROVE  Comp(S, n) \subseteq C
BY BallStays, Numbers DEF Comp

\* Links are followed both ways, so a component is that of each of its notes.
LEMMA SameComp ==
    ASSUME NEW S, NEW n \in Notes, NEW m \in Comp(S, n)
    PROVE  Comp(S, m) = Comp(S, n)
<1>1. m \in Notes
  BY CompIs
<1>2. Comp(S, m) \subseteq Comp(S, n)
  BY CompIs, CompIsLeast
<1>3. n \in Comp(S, m)
  <2> SUFFICES ASSUME n \notin Comp(S, m)
               PROVE  FALSE
    OBVIOUS
  <2> DEFINE C == Notes \ Comp(S, m)
  <2>1. Closed(S, C)
    <3>1. \A a, b \in Notes : b \in Adjacent(S, a) => a \in Adjacent(S, b)
      BY DEF Adjacent
    <3>2. Closed(S, Comp(S, m)) /\ Comp(S, m) \subseteq Notes
      BY <1>1, CompIs
    <3>3. \A a \in C : Adjacent(S, a) \subseteq Notes
      BY DEF Adjacent
    <3>4. QED
      BY <3>1, <3>2, <3>3 DEF Closed
  <2>2. Comp(S, n) \subseteq C
    BY <2>1, CompIsLeast
  <2>3. m \in Comp(S, m)
    BY <1>1, CompIs
  <2>4. QED
    BY <2>2, <2>3
<1>4. Comp(S, n) \subseteq Comp(S, m)
  BY <1>1, <1>3, CompIs, CompIsLeast
<1>5. QED
  BY <1>2, <1>4

(***************************************************************************)
(* The frontier: what Follow makes of it.                                  *)
(***************************************************************************)
LEMMA OrderIs ==
    ASSUME NEW X, IsFiniteSet(X), NEW s \in SetToSeqs(X)
    PROVE  /\ s \in Seq(X) /\ Len(s) \in Nat /\ DOMAIN s = 1..Len(s)
           /\ \A i, j \in 1..Len(s) : s[i] = s[j] => i = j
           /\ \A x \in X : \E i \in 1..Len(s) : s[i] = x
<1> DEFINE N == Cardinality(X)
<1>1. N \in Nat
  BY FS_CardinalityType
<1> HIDE DEF N
<1>2. s \in [1..N -> X] /\ \A i, j \in 1..N : i # j => s[i] # s[j]
  BY DEF SetToSeqs, N
<1>3. s \in Seq(X) /\ Len(s) = N /\ DOMAIN s = 1..N
  BY <1>1, <1>2
<1>4. s \in Injection(1..N, X)
  BY <1>2 DEF Injection, IsInjective
<1>5. IsFiniteSet(1..N) /\ Cardinality(1..N) = N
  <2>1. 1 \in Int /\ N \in Int
    BY <1>1
  <2>2. IsFiniteSet(1..N) /\ Cardinality(1..N) = IF 1 > N THEN 0 ELSE N - 1 + 1
    BY <2>1, FS_Interval
  <2>3. QED
    BY <1>1, <2>2
<1>6. s \in Surjection(1..N, X)
  BY <1>4, <1>5, FS_Injection DEF N
<1>7. QED
  BY <1>1, <1>2, <1>3, <1>6 DEF Surjection

Lasts(fr) == {Last(fr[i]) : i \in DOMAIN fr}
Longer(fr, order) == Enqueue(Tail(fr), [i \in DOMAIN order |-> Append(Head(fr), order[i])])

LEMMA LongerIs ==
    ASSUME NEW fr \in Seq(Seq(Notes)), fr # <<>>,
           NEW new \in SUBSET Notes, NEW order \in SetToSeqs(new)
    PROVE  /\ Longer(fr, order) \in Seq(Seq(Notes))
           /\ Len(Longer(fr, order)) = Len(fr) - 1 + Len(order)
           /\ \A i \in 1..Len(Longer(fr, order)) :
                \/ i <= Len(fr) - 1 /\ Longer(fr, order)[i] = fr[i + 1]
                \/ /\ i > Len(fr) - 1 /\ i - (Len(fr) - 1) \in 1..Len(order)
                   /\ Longer(fr, order)[i] = Append(Head(fr), order[i - (Len(fr) - 1)])
           /\ \A i \in 1..(Len(fr) - 1) : Longer(fr, order)[i] = fr[i + 1]
           /\ \A i \in 1..Len(order) :
                Longer(fr, order)[Len(fr) - 1 + i] = Append(Head(fr), order[i])
<1>1. order \in Seq(new) /\ Len(order) \in Nat /\ DOMAIN order = 1..Len(order)
  BY OrderIs, GraphAssumption, FS_Subset
<1>2. /\ Head(fr) \in Seq(Notes) /\ Tail(fr) \in Seq(Seq(Notes)) /\ Len(Tail(fr)) = Len(fr) - 1
      /\ Len(fr) \in Nat /\ Len(fr) >= 1
      /\ \A i \in 1..(Len(fr) - 1) : Tail(fr)[i] = fr[i + 1]
  OBVIOUS
<1> DEFINE t == Tail(fr)
           more == [i \in 1..Len(order) |-> Append(Head(fr), order[i])]
<1>3. \A i \in 1..Len(order) : order[i] \in Notes /\ Append(Head(fr), order[i]) \in Seq(Notes)
  BY <1>1, <1>2
<1>4. more \in Seq(Seq(Notes)) /\ Len(more) = Len(order)
      /\ \A i \in 1..Len(order) : more[i] = Append(Head(fr), order[i])
  BY <1>1, <1>3
<1>5. Longer(fr, order) = t \o more
  BY <1>1 DEF Longer, Enqueue
<1> HIDE DEF t, more
<1>6. t \in Seq(Seq(Notes)) /\ Len(t) = Len(fr) - 1
      /\ \A i \in 1..(Len(fr) - 1) : t[i] = fr[i + 1]
  BY <1>2 DEF t
<1>7. /\ t \o more \in Seq(Seq(Notes)) /\ Len(t \o more) = Len(t) + Len(more)
      /\ \A i \in 1..(Len(t) + Len(more)) :
           (t \o more)[i] = IF i <= Len(t) THEN t[i] ELSE more[i - Len(t)]
  <2>1. t \in Seq(Seq(Notes)) /\ more \in Seq(Seq(Notes))
    BY <1>4, <1>6
  <2>2. QED
    BY <2>1, ConcatProperties
<1>8. \A i \in 1..(Len(t) + Len(more)) :
        \/ i <= Len(fr) - 1 /\ (t \o more)[i] = fr[i + 1]
        \/ /\ i > Len(fr) - 1 /\ i - (Len(fr) - 1) \in 1..Len(order)
           /\ (t \o more)[i] = Append(Head(fr), order[i - (Len(fr) - 1)])
  <2> TAKE i \in 1..(Len(t) + Len(more))
  <2>1. CASE i <= Len(t)
    BY <1>1, <1>2, <1>6, <1>7, <2>1
  <2>2. CASE ~(i <= Len(t))
    <3>1. i - (Len(fr) - 1) \in 1..Len(order) /\ i > Len(fr) - 1
      BY <1>1, <1>2, <1>4, <1>6, <2>2
    <3>2. QED
      BY <1>4, <1>6, <1>7, <2>2, <3>1
  <2>3. QED
    BY <2>1, <2>2
<1>9. \A i \in 1..(Len(fr) - 1) : (t \o more)[i] = fr[i + 1]
  BY <1>1, <1>2, <1>4, <1>6, <1>7
<1>10. \A i \in 1..Len(order) : (t \o more)[Len(fr) - 1 + i] = Append(Head(fr), order[i])
  <2> TAKE i \in 1..Len(order)
  <2>1. Len(fr) - 1 + i \in 1..(Len(t) + Len(more)) /\ ~(Len(fr) - 1 + i <= Len(t))
        /\ (Len(fr) - 1 + i) - Len(t) = i
    BY <1>1, <1>2, <1>4, <1>6
  <2>2. QED
    BY <1>4, <1>7, <2>1
<1>11. QED
  BY <1>4, <1>5, <1>6, <1>7, <1>8, <1>9, <1>10

LEMMA LastIs ==
    ASSUME NEW p \in Seq(Notes), NEW x \in Notes
    PROVE  Last(Append(p, x)) = x /\ (p # <<>> => Last(p) = p[Len(p)])
BY AppendProperties DEF Last

LEMMA LongerLasts ==
    ASSUME NEW fr \in Seq(Seq(Notes)), fr # <<>>,
           NEW new \in SUBSET Notes, NEW order \in SetToSeqs(new)
    PROVE  /\ new \subseteq Lasts(Longer(fr, order))
           /\ Lasts(fr) \subseteq Lasts(Longer(fr, order)) \cup {Last(Head(fr))}
           /\ Lasts(Longer(fr, order)) \subseteq Lasts(fr) \cup new
<1> DEFINE longer == Longer(fr, order)
<1>1. /\ longer \in Seq(Seq(Notes)) /\ Len(longer) = Len(fr) - 1 + Len(order)
      /\ \A i \in 1..Len(longer) :
                \/ i <= Len(fr) - 1 /\ longer[i] = fr[i + 1]
                \/ /\ i > Len(fr) - 1 /\ i - (Len(fr) - 1) \in 1..Len(order)
                   /\ longer[i] = Append(Head(fr), order[i - (Len(fr) - 1)])
      /\ \A i \in 1..(Len(fr) - 1) : longer[i] = fr[i + 1]
      /\ \A i \in 1..Len(order) : longer[Len(fr) - 1 + i] = Append(Head(fr), order[i])
  BY LongerIs
<1> HIDE DEF longer
<1>2. /\ order \in Seq(new) /\ Len(order) \in Nat
      /\ \A x \in new : \E i \in 1..Len(order) : order[i] = x
  BY OrderIs, GraphAssumption, FS_Subset
<1>3. Head(fr) \in Seq(Notes) /\ Head(fr) = fr[1] /\ Len(fr) \in Nat /\ Len(fr) >= 1
      /\ DOMAIN fr = 1..Len(fr) /\ DOMAIN longer = 1..Len(longer)
  BY <1>1
<1>4. \A x \in new : Last(Append(Head(fr), x)) = x
  BY <1>3, LastIs
<1>5. new \subseteq Lasts(longer)
  <2> SUFFICES ASSUME NEW x \in new
               PROVE  x \in Lasts(longer)
    OBVIOUS
  <2>1. PICK i \in 1..Len(order) : order[i] = x
    BY <1>2
  <2>2. Len(fr) - 1 + i \in DOMAIN longer
    <3>1. Len(longer) = Len(fr) - 1 + Len(order) /\ DOMAIN longer = 1..Len(longer)
      BY <1>1, <1>3
    <3>2. Len(fr) \in Nat /\ Len(fr) >= 1 /\ Len(order) \in Nat
      BY <1>2, <1>3
    <3>3. QED
      BY <3>1, <3>2
  <2>3. Last(longer[Len(fr) - 1 + i]) = x
    <3>1. longer[Len(fr) - 1 + i] = Append(Head(fr), x)
      BY <1>1, <2>1
    <3>2. QED
      BY <1>4, <3>1
  <2>4. QED
    BY <2>2, <2>3 DEF Lasts
<1>6. Lasts(fr) \subseteq Lasts(longer) \cup {Last(Head(fr))}
  <2> SUFFICES ASSUME NEW i \in DOMAIN fr, i # 1
               PROVE  Last(fr[i]) \in Lasts(longer)
    BY <1>3 DEF Lasts
  <2>1. i - 1 \in 1..(Len(fr) - 1) /\ (i - 1) + 1 = i /\ i - 1 \in DOMAIN longer
    <3>1. Len(longer) = Len(fr) - 1 + Len(order) /\ DOMAIN longer = 1..Len(longer)
      BY <1>1, <1>3
    <3>2. Len(fr) \in Nat /\ Len(order) \in Nat /\ i \in 1..Len(fr)
      BY <1>2, <1>3
    <3>3. QED
      BY <3>1, <3>2
  <2>2. longer[i - 1] = fr[i]
    BY <1>1, <2>1
  <2>3. QED
    BY <2>1, <2>2 DEF Lasts
<1>7. Lasts(longer) \subseteq Lasts(fr) \cup new
  <2> SUFFICES ASSUME NEW i \in 1..Len(longer)
               PROVE  Last(longer[i]) \in Lasts(fr) \cup new
    BY <1>3 DEF Lasts
  <2>1. CASE i <= Len(fr) - 1 /\ longer[i] = fr[i + 1]
    <3>1. i + 1 \in DOMAIN fr
      BY <1>3, <2>1
    <3>2. QED
      BY <2>1, <3>1 DEF Lasts
  <2>2. CASE i - (Len(fr) - 1) \in 1..Len(order)
             /\ longer[i] = Append(Head(fr), order[i - (Len(fr) - 1)])
    <3>1. order[i - (Len(fr) - 1)] \in new
      BY <1>2, <2>2
    <3>2. QED
      BY <1>4, <2>2, <3>1
  <2>3. QED
    BY <1>1, <2>1, <2>2
<1>8. QED
  BY <1>5, <1>6, <1>7 DEF longer

(***************************************************************************)
(* The graph and the search: types, and which steps a search of a kind may *)
(* take at its stage.                                                      *)
(***************************************************************************)
GraphOk ==
    /\ links \subseteq Notes \X Notes /\ ever \subseteq Notes \X Notes
    /\ \A l \in links : l[1] # l[2]
    /\ kept \subseteq Notes /\ spare \subseteq Notes /\ changes \in Nat
    /\ Ends(links) \subseteq kept
    /\ search # NoSearch => links \subseteq ever /\ (changes = 0 => ever = links)

Fields == {"kind", "root", "to", "rows", "edges", "result", "depth", "frontier", "seen",
           "groups", "stage"}

Stages(k) ==
    {"done"} \cup
    (IF k = "path" THEN {"follow", "hops"} ELSE {}) \cup
    (IF k = "subgraph" THEN {"follow"} ELSE {}) \cup
    (IF k = "clusters" THEN {"rows", "follow"} ELSE {}) \cup
    (IF k = "related" THEN {"rows", "names", "similar", "fetch"} ELSE {}) \cup
    (IF k = "full" THEN {"rows", "links"} ELSE {})

SearchOk ==
    search = NoSearch \/
      /\ DOMAIN search = Fields
      /\ search.kind \in Kinds /\ search.root \in Notes /\ search.to \in Notes
      /\ search.stage \in Stages(search.kind)

\* A step of the search that changes the fields F of its state.
Only(F) ==
    /\ search # NoSearch /\ DOMAIN search' = Fields
    /\ \A f \in Fields \ F : search'[f] = search[f]
    /\ Searching

\* A change of the graph while a search is under way.
Disturbed ==
    /\ search # NoSearch /\ ~AtStage("done") /\ UNCHANGED search /\ changes' # 0
    /\ ever \subseteq ever'

LEMMA Underway ==
    ASSUME SearchOk, search.stage # "none"
    PROVE  /\ search # NoSearch /\ DOMAIN search = Fields
           /\ search.kind \in Kinds /\ search.root \in Notes /\ search.to \in Notes
           /\ search.stage \in Stages(search.kind)
<1>1. NoSearch.stage = "none"
  BY DEF NoSearch
<1>2. search # NoSearch
  BY <1>1
<1>3. QED
  BY <1>2 DEF SearchOk

LEMMA StagesAre ==
    ASSUME NEW k \in Kinds
    PROVE  "none" \notin Stages(k) /\ Stages(k) \subseteq
             {"follow", "hops", "rows", "names", "similar", "fetch", "links", "done"}
BY DEF Stages, Kinds

LEMMA BeginDoes ==
    ASSUME NEW k \in Kinds, NEW n \in Notes, NEW to \in Notes, Begin(k, n, to)
    PROVE  /\ DOMAIN search' = Fields
           /\ search'.kind = k /\ search'.root = n /\ search'.to = to
           /\ search'.rows = {} /\ search'.edges = {} /\ search'.result = <<>>
           /\ search'.depth = [m \in {n} |-> 0] /\ search'.frontier = <<<<n>>>>
           /\ search'.seen = {} /\ search'.groups = {}
           /\ search'.stage = IF k \in {"subgraph", "path"} THEN "follow" ELSE "rows"
           /\ k = "subgraph" => n \in kept
           /\ ever' = links /\ changes' = 0 /\ UNCHANGED <<kept, archived, spare, links>>
           /\ SearchOk'
<1>1. /\ DOMAIN search' = Fields
      /\ search'.kind = k /\ search'.root = n /\ search'.to = to
      /\ search'.rows = {} /\ search'.edges = {} /\ search'.result = <<>>
      /\ search'.depth = [m \in {n} |-> 0] /\ search'.frontier = <<<<n>>>>
      /\ search'.seen = {} /\ search'.groups = {}
      /\ search'.stage = IF k \in {"subgraph", "path"} THEN "follow" ELSE "rows"
      /\ k = "subgraph" => n \in kept
      /\ ever' = links /\ changes' = 0 /\ UNCHANGED <<kept, archived, spare, links>>
  BY DEF Begin, Fields
<1>2. search'.stage \in Stages(k)
  BY <1>1 DEF Stages, Kinds
<1>3. QED
  BY <1>1, <1>2 DEF SearchOk

LEMMA DisturbedDoes ==
    ASSUME GraphOk, \/ \E n \in Notes : NewNote(n) \/ DropNote(n) \/ SetStatus(n)
                    \/ \E a, b \in Notes : NewLink(a, b)
    PROVE  Disturbed /\ GraphOk'
<1>1. Meanwhile /\ changes \in Nat
  BY DEF NewNote, DropNote, NewLink, SetStatus, GraphOk
<1>2. changes' \in Nat /\ changes' # 0 /\ UNCHANGED search
  BY <1>1 DEF Meanwhile
<1>3. search # NoSearch /\ ~AtStage("done")
  BY <1>1 DEF Meanwhile
<1>4. ASSUME NEW n \in Notes, NewNote(n)
      PROVE  Disturbed /\ GraphOk'
  <2>1. kept' = kept \cup {n} /\ spare' = spare \ {n} /\ UNCHANGED <<archived, links, ever>>
    BY <1>4 DEF NewNote
  <2>2. QED
    BY <1>2, <1>3, <2>1 DEF Disturbed, GraphOk, Ends
<1>5. ASSUME NEW n \in Notes, DropNote(n)
      PROVE  Disturbed /\ GraphOk'
  <2>1. kept' = kept \ {n} /\ links' = {l \in links : n \notin {l[1], l[2]}}
        /\ UNCHANGED <<archived, spare, ever>>
    BY <1>5 DEF DropNote
  <2>2. Ends(links') \subseteq kept'
    BY <2>1 DEF GraphOk, Ends
  <2>3. QED
    BY <1>2, <1>3, <2>1, <2>2 DEF Disturbed, GraphOk
<1>6. ASSUME NEW a \in Notes, NEW b \in Notes, NewLink(a, b)
      PROVE  Disturbed /\ GraphOk'
  <2>1. a # b /\ {a, b} \subseteq kept /\ links' = links \cup {<<a, b>>} /\ ever' = ever \cup {<<a, b>>}
        /\ UNCHANGED <<kept, archived, spare>>
    BY <1>6 DEF NewLink
  <2>2. Ends(links') \subseteq kept'
    BY <2>1 DEF GraphOk, Ends
  <2>3. QED
    BY <1>2, <1>3, <2>1, <2>2 DEF Disturbed, GraphOk
<1>7. ASSUME NEW n \in Notes, SetStatus(n)
      PROVE  Disturbed /\ GraphOk'
  <2>1. UNCHANGED <<kept, spare, links, ever>>
    BY <1>7 DEF SetStatus
  <2>2. QED
    BY <1>2, <1>3, <2>1 DEF Disturbed, GraphOk, Ends
<1>8. QED
  BY <1>4, <1>5, <1>6, <1>7

New == Adjacent(IF Kind("clusters") THEN search.rows ELSE links, Last(Head(search.frontier)))
         \ DOMAIN search.depth
Deepened(d, new, l) == [m \in new \cup DOMAIN d |-> IF m \in new THEN l ELSE d[m]]

\* What each step of a search does to its state.
LEMMA PassDoes ==
    ASSUME SearchOk, Pass
    PROVE  Only({"frontier"}) /\ search'.frontier = Tail(search.frontier)
<1>1. DOMAIN search = Fields /\ search # NoSearch
  BY Underway DEF Pass, Following, AtStage
<1>2. QED
  BY <1>1 DEF Pass, Only, Fields

LEMMA FollowDoes ==
    ASSUME SearchOk, Follow
    PROVE  /\ Only({"frontier", "depth", "edges"})
           /\ \E order \in SetToSeqs(New) : search'.frontier = Longer(search.frontier, order)
           /\ search'.depth = Deepened(search.depth, New, Len(Head(search.frontier)))
           /\ search'.edges =
                IF Kind("subgraph")
                  THEN search.edges \cup {l \in links : Last(Head(search.frontier)) \in {l[1], l[2]}}
                  ELSE search.edges
<1>1. DOMAIN search = Fields /\ search # NoSearch
  BY Underway DEF Follow, Following, AtStage
<1>2. PICK order \in SetToSeqs(New) :
         search' = [search EXCEPT
           !.frontier = Longer(search.frontier, order),
           !.depth = Deepened(search.depth, New, Len(Head(search.frontier))),
           !.edges =
                IF Kind("subgraph")
                  THEN search.edges \cup {l \in links : Last(Head(search.frontier)) \in {l[1], l[2]}}
                  ELSE search.edges]
  BY DEF Follow, New, Longer, Deepened
<1>3. Searching
  BY DEF Follow
<1>4. QED
  BY <1>1, <1>2, <1>3 DEF Only, Fields

LEMMA SearchingKeeps ==
    ASSUME GraphOk, SearchOk, search.stage # "none", Searching
    PROVE  GraphOk'
<1>1. search # NoSearch
  BY Underway
<1>2. QED
  BY <1>1 DEF GraphOk, Searching

(***************************************************************************)
(* Clusters.  The notes of the cluster in the making belong to one         *)
(* component, and their links are followed or yet to be; the clusters made *)
(* are the large components of the notes seen.                             *)
(***************************************************************************)
Large(S, E) == {c \in {Comp(S, n) : n \in E} : Cardinality(c) >= MinSize}

\* The last notes of the paths were visited.
Visited(fr, d) ==
    fr \in Seq(Seq(Notes)) /\ \A i \in 1..Len(fr) : fr[i] # <<>> /\ Last(fr[i]) \in DOMAIN d

\* All links of a visited note were followed, but for those on the frontier.
Open(m, S, d, fr) == m \in Lasts(fr) \/ Adjacent(S, m) \subseteq DOMAIN d

OnePart(S, d, fr) ==
    \/ DOMAIN d = {} /\ fr = <<>>
    \/ \E n \in Ends(S) : /\ n \in DOMAIN d /\ DOMAIN d \subseteq Comp(S, n)
                          /\ \A m \in DOMAIN d : Open(m, S, d, fr)

ClustersInv ==
    Kind("clusters") =>
      /\ search.rows \subseteq Notes \X Notes
      /\ AtStage("rows") => search.groups = {} /\ search.seen = {}
      /\ AtStage("follow") =>
           /\ search.groups = Large(search.rows, Ends(search.rows) \cap search.seen)
           /\ Visited(search.frontier, search.depth)
           /\ OnePart(search.rows, search.depth, search.frontier)
      /\ AtStage("done") => search.groups = Large(search.rows, Ends(search.rows))

LEMMA ClusterSteps ==
    ASSUME GraphOk, SearchOk, GraphNext, Kind("clusters")
    PROVE  ReadLinks \/ Follow \/ ClustersDone \/ (\E n \in Notes : NextCluster(n)) \/ Disturbed
<1>1. search # NoSearch /\ search.stage \in {"rows", "follow", "done"}
      /\ search.kind = "clusters" /\ Kind("clusters")
  BY Underway DEF Kind, Stages, Kinds
<1>2. \A k \in Kinds : \A n, to \in Notes : ~Begin(k, n, to)
  BY <1>1 DEF Begin
<1>3. ~Pass /\ ~Arrived /\ ~HopsDone /\ ~Exhausted
  BY <1>1 DEF Pass, Deep, Arrived, HopsDone, Exhausted, AtStage, Kind
<1>4. \A h \in Notes \X Notes : ~Hop(h)
  BY <1>1 DEF Hop, AtStage
<1>5. ~ReadLinked /\ ~ReadNames /\ ~NoneClose /\ ~FetchClose /\ ~RelatedDone /\ ~FullNotes /\ ~FullLinks
  BY <1>1 DEF ReadLinked, ReadNames, NoneClose, FetchClose, RelatedDone, FullNotes, FullLinks,
       AtStage, Kind
<1>6. \A order : ~FindClose(order)
  BY <1>1 DEF FindClose, AtStage
<1>7. QED
  BY <1>2, <1>3, <1>4, <1>5, <1>6, DisturbedDoes DEF GraphNext

\* When there is nothing left on the frontier the cluster is a component, or there
\* was none yet.
LEMMA WholePart ==
    ASSUME NEW S \in SUBSET (Notes \X Notes), NEW d, OnePart(S, d, <<>>)
    PROVE  \/ DOMAIN d = {}
           \/ \A n \in DOMAIN d : n \in Notes /\ Comp(S, n) = DOMAIN d
<1> SUFFICES ASSUME DOMAIN d # {}
             PROVE  \A n \in DOMAIN d : n \in Notes /\ Comp(S, n) = DOMAIN d
  OBVIOUS
<1>1. PICK n \in Ends(S) : /\ n \in DOMAIN d /\ DOMAIN d \subseteq Comp(S, n)
                           /\ \A m \in DOMAIN d : Open(m, S, d, <<>>)
  BY DEF OnePart
<1>2. n \in Notes
  BY DEF Ends
<1>3. Lasts(<<>>) = {}
  BY DEF Lasts
<1>4. Closed(S, DOMAIN d)
  BY <1>1, <1>3 DEF Closed, Open
<1>5. Comp(S, n) = DOMAIN d
  BY <1>1, <1>4, CompIsLeast
<1>6. QED
  BY <1>2, <1>5, SameComp, CompIs

\* Grouped adds the cluster if it is large.
WithPart(groups, C) == IF Cardinality(C) >= MinSize THEN groups \cup {C} ELSE groups

LEMMA GroupedIs ==
    ASSUME NEW S \in SUBSET (Notes \X Notes), NEW d, NEW E, NEW groups,
           OnePart(S, d, <<>>), groups = Large(S, Ends(S) \cap E)
    PROVE  Large(S, Ends(S) \cap (E \cup DOMAIN d)) = WithPart(groups, DOMAIN d)
<1> USE DEF WithPart
<1>1. CASE DOMAIN d = {}
  <2>1. ~(Cardinality(DOMAIN d) >= MinSize)
    BY <1>1, FS_EmptySet, Numbers
  <2>2. QED
    BY <1>1, <2>1
<1>2. CASE DOMAIN d # {}
  <2>1. \A n \in DOMAIN d : Comp(S, n) = DOMAIN d
    BY <1>2, WholePart
  <2>2. PICK n \in Ends(S) : n \in DOMAIN d
    BY <1>2 DEF OnePart
  <2>3. {Comp(S, m) : m \in Ends(S) \cap (E \cup DOMAIN d)}
          = {Comp(S, m) : m \in Ends(S) \cap E} \cup {DOMAIN d}
    <3> DEFINE L == {Comp(S, m) : m \in Ends(S) \cap (E \cup DOMAIN d)}
               R == {Comp(S, m) : m \in Ends(S) \cap E} \cup {DOMAIN d}
    <3>1. L \subseteq R
      BY <2>1
    <3>2. DOMAIN d \in L
      BY <2>1, <2>2
    <3>3. R \subseteq L
      BY <3>2
    <3>4. QED
      BY <3>1, <3>3
  <2>4. QED
    BY <2>3 DEF Large
<1>3. QED
  BY <1>1, <1>2

\* A followed note adds its neighbours, which are of its component.
LEMMA PartGrows ==
    ASSUME NEW S \in SUBSET (Notes \X Notes), NEW d, DOMAIN d \subseteq Notes, NEW fr, fr # <<>>,
           Visited(fr, d), OnePart(S, d, fr),
           NEW new, new = Adjacent(S, Last(Head(fr))) \ DOMAIN d,
           NEW order \in SetToSeqs(new), NEW l
    PROVE  /\ Visited(Longer(fr, order), Deepened(d, new, l))
           /\ OnePart(S, Deepened(d, new, l), Longer(fr, order))
<1> DEFINE e == Deepened(d, new, l)
           longer == Longer(fr, order)
           last == Last(Head(fr))
<1>1. DOMAIN e = new \cup DOMAIN d
  BY DEF Deepened
<1>2. fr \in Seq(Seq(Notes)) /\ new \subseteq Notes
  BY DEF Visited, Adjacent
<1>3. /\ new \subseteq Lasts(longer) /\ Lasts(fr) \subseteq Lasts(longer) \cup {last}
      /\ Lasts(longer) \subseteq Lasts(fr) \cup new
  BY <1>2, LongerLasts
<1>4. /\ longer \in Seq(Seq(Notes))
      /\ \A i \in 1..Len(longer) :
           \/ i <= Len(fr) - 1 /\ longer[i] = fr[i + 1]
           \/ i - (Len(fr) - 1) \in 1..Len(order)
              /\ longer[i] = Append(Head(fr), order[i - (Len(fr) - 1)])
  BY <1>2, LongerIs
<1>5. last \in DOMAIN d
  <2>1. 1 \in 1..Len(fr) /\ Head(fr) = fr[1]
    BY <1>2
  <2>2. QED
    BY <2>1 DEF Visited
<1>6. Lasts(fr) \subseteq DOMAIN d
  BY <1>2 DEF Lasts, Visited
<1> HIDE DEF e, longer
<1>7. Visited(longer, e)
  <2>1. ASSUME NEW i \in 1..Len(longer)
        PROVE  longer[i] # <<>> /\ Last(longer[i]) \in DOMAIN e
    <3>1. Last(longer[i]) \in Lasts(longer)
      BY <1>4 DEF Lasts
    <3>2. Last(longer[i]) \in DOMAIN e
      BY <1>1, <1>3, <1>6, <3>1
    <3>3. CASE i <= Len(fr) - 1 /\ longer[i] = fr[i + 1]
      <4>1. i + 1 \in 1..Len(fr)
        BY <1>2, <3>3
      <4>2. QED
        BY <3>2, <3>3, <4>1 DEF Visited
    <3>4. CASE i - (Len(fr) - 1) \in 1..Len(order)
               /\ longer[i] = Append(Head(fr), order[i - (Len(fr) - 1)])
      <4>1. Head(fr) \in Seq(Notes)
        BY <1>2
      <4>2. Len(longer[i]) = Len(Head(fr)) + 1 /\ Len(Head(fr)) \in Nat
        BY <3>4, <4>1
      <4>3. longer[i] # <<>>
        BY <4>2
      <4>4. QED
        BY <3>2, <4>3
    <3>5. QED
      BY <1>4, <3>3, <3>4
  <2>2. QED
    BY <1>4, <2>1 DEF Visited
<1>8. OnePart(S, e, longer)
  <2>1. PICK n \in Ends(S) : /\ n \in DOMAIN d /\ DOMAIN d \subseteq Comp(S, n)
                             /\ \A m \in DOMAIN d : Open(m, S, d, fr)
    BY <1>5 DEF OnePart
  <2>2. n \in Notes
    BY DEF Ends
  <2>3. new \subseteq Comp(S, n)
    BY <1>5, <2>1, <2>2, CompIs DEF Closed
  <2>4. \A m \in DOMAIN d : Open(m, S, e, longer)
    <3> SUFFICES ASSUME NEW m \in DOMAIN d, m \notin Lasts(longer)
                 PROVE  Adjacent(S, m) \subseteq DOMAIN e
      BY DEF Open
    <3>1. m = last \/ Adjacent(S, m) \subseteq DOMAIN d
      BY <1>3, <2>1 DEF Open
    <3>2. QED
      BY <1>1, <3>1
  <2>5. \A m \in new : Open(m, S, e, longer)
    BY <1>3 DEF Open
  <2>6. QED
    BY <1>1, <2>1, <2>3, <2>4, <2>5 DEF OnePart
<1>9. QED
  BY <1>7, <1>8 DEF e, longer

LEMMA ClustersStep ==
    ASSUME GraphOk, SearchOk, ClustersInv, GraphNext, Kind("clusters")
    PROVE  ClustersInv'
<1>1. /\ search # NoSearch /\ DOMAIN search = Fields /\ search.kind = "clusters"
      /\ search.rows \subseteq Notes \X Notes /\ links \subseteq Notes \X Notes
  BY Underway DEF Kind, ClustersInv, GraphOk
<1>2. CASE ReadLinks
  <2>1. /\ search'.kind = "clusters" /\ search'.stage = "follow" /\ search'.rows = links
        /\ search'.depth = <<>> /\ search'.frontier = <<>>
        /\ search'.groups = {} /\ search'.seen = {}
    BY <1>1, <1>2 DEF ReadLinks, Fields, ClustersInv
  <2>2. Large(links, Ends(links) \cap {}) = {}
    BY DEF Large
  <2>3. Visited(<<>>, <<>>)
    BY DEF Visited
  <2>4. OnePart(links, <<>>, <<>>)
    BY DEF OnePart
  <2>5. QED
    BY <1>1, <2>1, <2>2, <2>3, <2>4 DEF ClustersInv, AtStage
<1>3. CASE Follow
  <2> DEFINE S == search.rows
             d == search.depth
             fr == search.frontier
             new == Adjacent(S, Last(Head(fr))) \ DOMAIN d
  <2>1. /\ search'.kind = "clusters" /\ search'.stage = "follow" /\ search'.rows = S
        /\ search'.groups = search.groups /\ search'.seen = search.seen
        /\ search.stage = "follow" /\ fr # <<>>
    BY <1>1, <1>3, FollowDoes DEF Only, Fields, Follow, Following, AtStage
  <2>2. New = new
    BY <1>1 DEF New
  <2>3. PICK order \in SetToSeqs(new) : search'.frontier = Longer(fr, order)
    BY <1>3, <2>2, FollowDoes
  <2>4. search'.depth = Deepened(d, new, Len(Head(fr)))
    BY <1>3, <2>2, FollowDoes
  <2>5. Visited(fr, d) /\ OnePart(S, d, fr) /\ search.groups = Large(S, Ends(S) \cap search.seen)
    BY <2>1 DEF ClustersInv, AtStage
  <2>6. DOMAIN d \subseteq Notes
    BY <1>1, <2>5, CompIs DEF OnePart, Ends
  <2>7. Visited(search'.frontier, search'.depth) /\ OnePart(S, search'.depth, search'.frontier)
    <3> HIDE DEF S, d, fr, new
    <3>1. S \in SUBSET (Notes \X Notes)
      BY <1>1 DEF S
    <3>2. /\ Visited(Longer(fr, order), Deepened(d, new, Len(Head(fr))))
          /\ OnePart(S, Deepened(d, new, Len(Head(fr))), Longer(fr, order))
      <4>1. fr # <<>>
        BY <2>1 DEF fr
      <4>2. new = Adjacent(S, Last(Head(fr))) \ DOMAIN d
        BY DEF new
      <4>3. QED
        BY <2>5, <2>6, <3>1, <4>1, <4>2, PartGrows
    <3>3. QED
      BY <2>3, <2>4, <3>2
  <2>8. QED
    BY <1>1, <2>1, <2>5, <2>7 DEF ClustersInv, AtStage
<1>4. ASSUME ClustersDone \/ \E n \in Notes : NextCluster(n)
      PROVE  /\ search.frontier = <<>> /\ search.stage = "follow"
             /\ OnePart(search.rows, search.depth, <<>>)
             /\ Grouped = Large(search.rows, Ends(search.rows) \cap (search.seen \cup Component))
  <2>1. search.frontier = <<>> /\ search.stage = "follow"
    BY <1>4 DEF ClustersDone, NextCluster, AtStage
  <2>2. /\ OnePart(search.rows, search.depth, <<>>)
        /\ search.groups = Large(search.rows, Ends(search.rows) \cap search.seen)
    BY <2>1 DEF ClustersInv, AtStage
  <2>3. search.rows \in SUBSET (Notes \X Notes)
    BY <1>1
  <2>4. PICK S, d, groups, E : S = search.rows /\ d = search.depth /\ groups = search.groups
                               /\ E = search.seen
    OBVIOUS
  <2>5. Large(S, Ends(S) \cap (E \cup DOMAIN d)) = WithPart(groups, DOMAIN d)
    <3>1. S \in SUBSET (Notes \X Notes) /\ OnePart(S, d, <<>>) /\ groups = Large(S, Ends(S) \cap E)
      BY <2>2, <2>3, <2>4
    <3>2. QED
      BY <3>1, GroupedIs
  <2>6. QED
    BY <2>1, <2>2, <2>4, <2>5 DEF Grouped, Component, WithPart
<1>5. ASSUME NEW n \in Notes, NextCluster(n)
      PROVE  ClustersInv'
  <2>1. /\ search'.kind = "clusters" /\ search'.stage = "follow" /\ search'.rows = search.rows
        /\ search'.depth = [m \in {n} |-> 0] /\ search'.frontier = <<<<n>>>>
        /\ search'.groups = Grouped /\ search'.seen = search.seen \cup Component
    BY <1>1, <1>4, <1>5 DEF NextCluster, Fields
  <2>2. n \in Ends(search.rows)
    BY <1>5 DEF NextCluster
  <2>3. <<<<n>>>> \in Seq(Seq(Notes)) /\ Len(<<<<n>>>>) = 1 /\ <<<<n>>>>[1] = <<n>>
        /\ Len(<<n>>) = 1 /\ <<n>>[1] = n /\ DOMAIN <<<<n>>>> = 1..1
    OBVIOUS
  <2>4. Last(<<n>>) = n
    BY <2>3 DEF Last
  <2>5. Visited(<<<<n>>>>, [m \in {n} |-> 0])
    BY <2>3, <2>4 DEF Visited
  <2>6. n \in Lasts(<<<<n>>>>)
    BY <2>3, <2>4 DEF Lasts
  <2>7. OnePart(search.rows, [m \in {n} |-> 0], <<<<n>>>>)
    BY <2>2, <2>6, CompIs DEF OnePart, Open
  <2>8. QED
    BY <1>1, <1>4, <1>5, <2>1, <2>5, <2>7 DEF ClustersInv, AtStage
<1>6. CASE ClustersDone
  <2>1. /\ search'.kind = "clusters" /\ search'.stage = "done" /\ search'.rows = search.rows
        /\ search'.groups = Grouped
    BY <1>1, <1>6 DEF ClustersDone, Fields
  <2>2. Ends(search.rows) \cap (search.seen \cup Component) = Ends(search.rows)
    BY <1>6 DEF ClustersDone
  <2>3. Grouped = Large(search.rows, Ends(search.rows))
    BY <1>4, <1>6, <2>2
  <2>4. QED
    BY <1>1, <2>1, <2>3 DEF ClustersInv, AtStage
<1>7. CASE Disturbed
  BY <1>7 DEF Disturbed, ClustersInv, Kind, AtStage
<1>8. QED
  BY <1>2, <1>3, <1>5, <1>6, <1>7, ClusterSteps

LEMMA ClustersHold ==
    ASSUME ClustersInv
    PROVE  ClustersTrue
BY DEF ClustersInv, ClustersTrue, Large, Comp, Done, Kind

(***************************************************************************)
(* Related notes.  The list grows by notes that were not seen; as long as  *)
(* nothing changes, the linked notes were all listed before the list was   *)
(* filled up, because none of them can be gone.                            *)
(***************************************************************************)
IdsOf(r) == {r[i].id : i \in DOMAIN r}
Item == [id : Notes, how : {"linked", "semantic"}]

ListOk(r, root, S) ==
    /\ r \in Seq(Item) /\ root \notin IdsOf(r) /\ Len(r) <= Limit
    /\ \A i, j \in 1..Len(r) : r[i].id = r[j].id => i = j
    /\ \A i, j \in 1..Len(r) : i < j /\ r[j].how = "linked" => r[i].how = "linked"
    /\ \A i \in 1..Len(r) : r[i].how = "linked" => r[i].id \in Adjacent(S, root)

AllLinked(r, root, S) == Adjacent(S, root) \subseteq IdsOf(r)
SomeClose(r) == \E i \in 1..Len(r) : r[i].how = "semantic"

RelatedInv ==
    Kind("related") =>
      /\ AtStage("names") =>
           /\ search.seen \subseteq Adjacent(ever, search.root) \cup {search.root}
           /\ search.root \in search.seen
           /\ changes = 0 => Adjacent(links, search.root) \subseteq search.seen
      /\ search.stage \in {"similar", "fetch", "done"} =>
           /\ ListOk(search.result, search.root, ever)
           /\ changes = 0 /\ SomeClose(search.result) => AllLinked(search.result, search.root, links)
      /\ search.stage \in {"similar", "fetch"} =>
           /\ search.root \in search.seen /\ IdsOf(search.result) \subseteq search.seen
           /\ changes = 0 => AllLinked(search.result, search.root, links)

LEMMA RelatedSteps ==
    ASSUME GraphOk, SearchOk, GraphNext, Kind("related")
    PROVE  \/ ReadLinked \/ ReadNames \/ (\E order \in Seq(Notes) : FindClose(order)) \/ NoneClose
           \/ FetchClose \/ RelatedDone \/ Disturbed
<1>1. search # NoSearch /\ search.stage \in {"rows", "names", "similar", "fetch", "done"}
      /\ search.kind = "related" /\ Kind("related")
  BY Underway DEF Kind, Stages, Kinds
<1>2. \A k \in Kinds : \A n, to \in Notes : ~Begin(k, n, to)
  BY <1>1 DEF Begin
<1>3. ~Pass /\ ~Follow /\ ~Arrived /\ ~HopsDone /\ ~Exhausted
  BY <1>1 DEF Pass, Follow, Following, Arrived, HopsDone, Exhausted, AtStage, Kind
<1>4. (\A h \in Notes \X Notes : ~Hop(h)) /\ (\A n \in Notes : ~NextCluster(n))
  BY <1>1 DEF Hop, NextCluster, AtStage
<1>5. ~ReadLinks /\ ~ClustersDone /\ ~FullNotes /\ ~FullLinks
  BY <1>1 DEF ReadLinks, ClustersDone, FullNotes, FullLinks, AtStage, Kind
<1>6. \A s \in SUBSET Notes : \A order \in SetToSeqs(s) : order \in Seq(Notes)
  BY OrderIs, GraphAssumption, FS_Subset
<1>7. (\E s \in {t \in SUBSET Notes : Cardinality(t) <= Limit} : \E order \in SetToSeqs(s) : FindClose(order))
        => \E order \in Seq(Notes) : FindClose(order)
  BY <1>6
<1>8. QED
  BY <1>2, <1>3, <1>4, <1>5, <1>7, DisturbedDoes DEF GraphNext

\* The list of the linked notes that are still there.
LEMMA NamesAre ==
    ASSUME NEW T \in SUBSET Notes, NEW order \in SetToSeqs(T),
           NEW list, list = FirstOf([i \in DOMAIN order |-> Listed(order[i], "linked")])
    PROVE  /\ list \in Seq(Item) /\ Len(list) <= Limit
           /\ \A i \in 1..Len(list) : list[i].how = "linked" /\ list[i].id \in T
           /\ \A i, j \in 1..Len(list) : list[i].id = list[j].id => i = j
           /\ Len(list) < Limit => IdsOf(list) = T
<1>1. /\ order \in Seq(T) /\ Len(order) \in Nat /\ DOMAIN order = 1..Len(order)
      /\ \A i, j \in 1..Len(order) : order[i] = order[j] => i = j
      /\ \A x \in T : \E i \in 1..Len(order) : order[i] = x
  BY OrderIs, GraphAssumption, FS_Subset
<1> DEFINE all == [i \in DOMAIN order |-> Listed(order[i], "linked")]
           m == IF Len(order) < Limit THEN Len(order) ELSE Limit
<1>2. \A i \in 1..Len(order) : order[i] \in T
  BY <1>1
<1>3. all \in Seq(Item) /\ Len(all) = Len(order)
      /\ \A i \in 1..Len(order) : all[i].id = order[i] /\ all[i].how = "linked" /\ all[i] \in Item
  BY <1>1, <1>2 DEF Listed, Item
<1>4. m \in Nat /\ m <= Limit /\ m <= Len(order) /\ (m < Limit => m = Len(order))
  <2>1. Len(order) \in Nat /\ Limit \in Nat
    BY <1>1, Numbers
  <2>2. QED
    BY <2>1
<1> HIDE DEF all
<1>5. list = SubSeq(all, 1, m)
  BY <1>3 DEF FirstOf, all
<1> HIDE DEF m
<1>6. list \in Seq(Item) /\ Len(list) = m /\ \A i \in 1..m : list[i] = all[i]
  <2> \A i \in 1..m : i \in 1..Len(order)
    <3>1. Len(order) \in Nat
      BY <1>1
    <3>2. QED
      BY <1>4, <3>1
  <2>1. \A i \in 1..m : all[i] \in Item
    BY <1>3
  <2>2. 1 \in Int /\ m \in Int /\ m - 1 + 1 = m /\ \A i \in 1..m : 1 + i - 1 = i
    BY <1>4
  <2>3. CASE 1 <= m
    <3>1. /\ list \in Seq(Item) /\ Len(list) = m - 1 + 1
          /\ \A i \in 1..(m - 1 + 1) : list[i] = all[1 + i - 1]
      BY <1>5, <2>1, <2>2, <2>3, SubSeqProperties
    <3>2. QED
      BY <2>2, <3>1
  <2>4. CASE ~(1 <= m)
    <3>1. m = 0
      BY <1>4, <2>4
    <3>2. list = <<>>
      BY <1>3, <1>5, <3>1
    <3>3. QED
      BY <3>1, <3>2
  <2>5. QED
    BY <2>3, <2>4
<1>7. \A i \in 1..m : /\ i \in 1..Len(order)
                     /\ list[i].how = "linked" /\ list[i].id = order[i] /\ list[i].id \in T
  <2>1. Len(order) \in Nat
    BY <1>1
  <2>2. \A i \in 1..m : i \in 1..Len(order)
    BY <1>4, <2>1
  <2>3. QED
    BY <1>2, <1>3, <1>6, <2>2
<1>8. Len(list) < Limit => IdsOf(list) = T
  <2> SUFFICES ASSUME m < Limit
               PROVE  IdsOf(list) = T
    BY <1>6
  <2>1. m = Len(order) /\ DOMAIN list = 1..m
    BY <1>4, <1>6
  <2>2. IdsOf(list) \subseteq T
    BY <1>7, <2>1 DEF IdsOf
  <2>3. \A x \in T : \E i \in 1..m : list[i].id = x
    BY <1>1, <1>7, <2>1
  <2>4. T \subseteq IdsOf(list)
    BY <2>1, <2>3 DEF IdsOf
  <2>5. QED
    BY <2>2, <2>4
<1>9. \A i, j \in 1..m : list[i].id = list[j].id => i = j
  BY <1>1, <1>7
<1>10. QED
  BY <1>4, <1>6, <1>7, <1>8, <1>9

LEMMA AdjacentGrows ==
    ASSUME NEW S, NEW T, S \subseteq T, NEW n
    PROVE  Adjacent(S, n) \subseteq Adjacent(T, n)
BY DEF Adjacent

\* A list stays in order when links are added.
LEMMA ListStays ==
    ASSUME NEW r, NEW root, NEW S, NEW T, ListOk(r, root, S), S \subseteq T
    PROVE  ListOk(r, root, T)
<1>1. Adjacent(S, root) \subseteq Adjacent(T, root)
  BY AdjacentGrows
<1>2. \A i \in 1..Len(r) : r[i].how = "linked" => r[i].id \in Adjacent(T, root)
  BY <1>1 DEF ListOk
<1>3. /\ r \in Seq(Item) /\ root \notin IdsOf(r) /\ Len(r) <= Limit
      /\ \A i, j \in 1..Len(r) : r[i].id = r[j].id => i = j
      /\ \A i, j \in 1..Len(r) : i < j /\ r[j].how = "linked" => r[i].how = "linked"
  BY DEF ListOk
<1>4. QED
  BY <1>2, <1>3 DEF ListOk

\* A note with a close vector is listed after the others.
LEMMA ListGrows ==
    ASSUME NEW r, NEW root, NEW S, ListOk(r, root, S),
           NEW n \in Notes, n # root, n \notin IdsOf(r), Len(r) < Limit
    PROVE  /\ ListOk(Append(r, Listed(n, "semantic")), root, S)
           /\ IdsOf(Append(r, Listed(n, "semantic"))) = IdsOf(r) \cup {n}
<1> DEFINE x == Listed(n, "semantic")
           s == Append(r, x)
<1>1. x \in Item /\ x.id = n /\ x.how = "semantic"
  BY DEF Listed, Item
<1>2. r \in Seq(Item) /\ Len(r) \in Nat /\ DOMAIN r = 1..Len(r)
  BY DEF ListOk
<1> HIDE DEF x
<1>3. /\ s \in Seq(Item) /\ Len(s) = Len(r) + 1 /\ s[Len(r) + 1] = x
      /\ (\A i \in 1..Len(r) : s[i] = r[i]) /\ DOMAIN s = 1..(Len(r) + 1)
  BY <1>1, <1>2, AppendProperties
<1> HIDE DEF s
<1>4. /\ \A i \in 1..(Len(r) + 1) : i \in 1..Len(r) \/ i = Len(r) + 1
      /\ \A i \in 1..Len(r) : i \in 1..(Len(r) + 1) /\ i < Len(r) + 1 /\ ~(Len(r) + 1 < i)
      /\ Len(r) + 1 \in 1..(Len(r) + 1)
  BY <1>2
<1>5. IdsOf(s) = IdsOf(r) \cup {n}
  BY <1>1, <1>2, <1>3, <1>4 DEF IdsOf
<1>6. \A i \in 1..Len(r) : r[i].id # n
  BY <1>2 DEF IdsOf
<1>7. \A i, j \in 1..(Len(r) + 1) : s[i].id = s[j].id => i = j
  <2>1. \A i, j \in 1..Len(r) : s[i].id = s[j].id => i = j
    BY <1>3 DEF ListOk
  <2>2. \A i \in 1..Len(r) : s[i].id # s[Len(r) + 1].id
    BY <1>1, <1>3, <1>6
  <2>3. QED
    BY <1>4, <2>1, <2>2
<1>8. \A i, j \in 1..(Len(r) + 1) : i < j /\ s[j].how = "linked" => s[i].how = "linked"
  <2> SUFFICES ASSUME NEW i \in 1..(Len(r) + 1), NEW j \in 1..(Len(r) + 1),
                      i < j, s[j].how = "linked"
               PROVE  s[i].how = "linked"
    OBVIOUS
  <2>1. j \in 1..Len(r)
    BY <1>1, <1>3, <1>4
  <2>2. i \in 1..Len(r)
    BY <1>2, <2>1
  <2>3. QED
    BY <1>3, <2>1, <2>2 DEF ListOk
<1>9. \A i \in 1..(Len(r) + 1) : s[i].how = "linked" => s[i].id \in Adjacent(S, root)
  <2>1. \A i \in 1..Len(r) : s[i].how = "linked" => s[i].id \in Adjacent(S, root)
    BY <1>3 DEF ListOk
  <2>2. s[Len(r) + 1].how # "linked"
    BY <1>1, <1>3
  <2>3. QED
    BY <1>4, <2>1, <2>2
<1>10. Len(s) <= Limit
  BY <1>2, <1>3, Numbers
<1>11. root \notin IdsOf(s)
  BY <1>5 DEF ListOk
<1>12. ListOk(s, root, S)
  BY <1>3, <1>7, <1>8, <1>9, <1>10, <1>11 DEF ListOk
<1>13. QED
  BY <1>5, <1>12 DEF s, x

\* A search for related notes after a step that lists r and has seen E.
LEMMA RelatedAfter ==
    ASSUME NEW r, NEW root, NEW E, search'.kind = "related", search'.result = r, search'.root = root,
           search'.seen = E, search'.stage \in {"similar", "fetch", "done"},
           ListOk(r, root, ever'),
           changes' = 0 /\ SomeClose(r) => AllLinked(r, root, links'),
           search'.stage \in {"similar", "fetch"} =>
             root \in E /\ IdsOf(r) \subseteq E /\ (changes' = 0 => AllLinked(r, root, links'))
    PROVE  RelatedInv'
BY DEF RelatedInv, AtStage

LEMMA RelatedStep ==
    ASSUME GraphOk, SearchOk, RelatedInv, GraphNext, Kind("related")
    PROVE  RelatedInv'
<1>1. /\ search # NoSearch /\ DOMAIN search = Fields /\ search.kind = "related"
      /\ search.root \in Notes /\ changes \in Nat /\ Kind("related")
  BY Underway DEF Kind, GraphOk
<1>2. CASE ReadLinked
  <2>1. /\ search'.kind = "related" /\ search'.stage = "names" /\ search'.root = search.root
        /\ search'.seen = Adjacent(links, search.root) \cup {search.root}
        /\ UNCHANGED <<links, ever, changes>>
    BY <1>1, <1>2 DEF ReadLinked, Fields, Searching
  <2>2. Adjacent(links, search.root) \subseteq Adjacent(ever, search.root)
    BY <1>1, AdjacentGrows DEF GraphOk
  <2>3. QED
    BY <1>1, <2>1, <2>2 DEF RelatedInv, AtStage
<1>3. CASE ReadNames
  <2>1. PICK order \in SetToSeqs((search.seen \ {search.root}) \cap kept) :
          search' = [search EXCEPT
            !.result = FirstOf([i \in DOMAIN order |-> Listed(order[i], "linked")]),
            !.stage = IF Len(FirstOf([i \in DOMAIN order |-> Listed(order[i], "linked")])) < Limit
                        THEN "similar" ELSE "done"]
    BY <1>3 DEF ReadNames
  <2>2. PICK list : list = FirstOf([i \in DOMAIN order |-> Listed(order[i], "linked")])
    OBVIOUS
  <2>3. PICK T : T = (search.seen \ {search.root}) \cap kept
    OBVIOUS
  <2>4. /\ search.stage = "names" /\ UNCHANGED <<links, ever, changes>>
    BY <1>3 DEF ReadNames, AtStage, Searching
  <2>5. /\ search.seen \subseteq Adjacent(ever, search.root) \cup {search.root}
        /\ search.root \in search.seen
        /\ changes = 0 => Adjacent(links, search.root) \subseteq search.seen
    BY <1>1, <2>4 DEF RelatedInv, AtStage
  <2>6. T \in SUBSET Notes /\ T \subseteq Adjacent(ever, search.root) /\ search.root \notin T
        /\ T \subseteq search.seen
    BY <2>3, <2>5 DEF GraphOk
  <2>7. /\ list \in Seq(Item) /\ Len(list) <= Limit
        /\ \A i \in 1..Len(list) : list[i].how = "linked" /\ list[i].id \in T
        /\ \A i, j \in 1..Len(list) : list[i].id = list[j].id => i = j
        /\ Len(list) < Limit => IdsOf(list) = T
    BY <2>2, <2>3, <2>6, NamesAre
  <2>8. IdsOf(list) \subseteq T
    BY <2>7 DEF IdsOf
  <2>9. ListOk(list, search.root, ever')
    BY <2>4, <2>6, <2>7, <2>8 DEF ListOk
  <2>10. changes = 0 => Adjacent(links, search.root) \subseteq T
    <3> SUFFICES ASSUME changes = 0, NEW m \in Adjacent(links, search.root)
                 PROVE  m \in T
      OBVIOUS
    <3>1. m \in search.seen
      BY <2>5
    <3>2. m \in kept /\ m # search.root
      BY DEF GraphOk, Adjacent, Ends
    <3>3. QED
      BY <2>3, <3>1, <3>2
  <2>11. /\ search'.kind = "related" /\ search'.root = search.root /\ search'.seen = search.seen
         /\ search'.result = list
         /\ search'.stage = IF Len(list) < Limit THEN "similar" ELSE "done"
    BY <1>1, <2>1, <2>2 DEF Fields
  <2>12. ~SomeClose(list)
    BY <2>7 DEF SomeClose
  <2>13. Len(list) < Limit /\ changes' = 0 => AllLinked(list, search.root, links')
    BY <2>4, <2>7, <2>10 DEF AllLinked
  <2>14. search'.stage \in {"similar", "fetch"} => Len(list) < Limit
    BY <2>11
  <2>15. search.root \in search.seen /\ IdsOf(list) \subseteq search.seen
    BY <2>5, <2>6, <2>8
  <2>16. search'.stage \in {"similar", "fetch", "done"}
    BY <2>11
  <2>17. PICK root, E : root = search.root /\ E = search.seen
    OBVIOUS
  <2>18. QED
    BY <2>9, <2>11, <2>12, <2>13, <2>14, <2>15, <2>16, <2>17, RelatedAfter
<1>4. ASSUME \/ \E order \in Seq(Notes) : FindClose(order)
             \/ NoneClose \/ RelatedDone
      PROVE  RelatedInv'
  <2>1. PICK r, root, E : r = search.result /\ root = search.root /\ E = search.seen
    OBVIOUS
  <2>2. /\ search.stage \in {"similar", "fetch"} /\ search'.kind = "related"
        /\ search'.root = root /\ search'.seen = E
        /\ search'.result = r /\ search'.stage \in {"fetch", "done"}
        /\ UNCHANGED <<links, ever, changes>>
    BY <1>1, <1>4, <2>1 DEF FindClose, NoneClose, RelatedDone, Fields, AtStage, Searching
  <2>3. /\ ListOk(r, root, ever) /\ root \in E /\ IdsOf(r) \subseteq E
        /\ changes = 0 => AllLinked(r, root, links)
    BY <1>1, <2>1, <2>2 DEF RelatedInv
  <2>4. ListOk(r, root, ever') /\ (changes' = 0 => AllLinked(r, root, links'))
    BY <2>2, <2>3
  <2>5. QED
    BY <2>2, <2>3, <2>4, RelatedAfter
<1>5. CASE FetchClose
  <2>1. PICK n : n = Head(search.frontier)
    OBVIOUS
  <2>2. PICK r, root, E : r = search.result /\ root = search.root /\ E = search.seen
    OBVIOUS
  <2>3. /\ search.stage = "fetch" /\ search'.kind = "related" /\ search'.stage = "fetch"
        /\ search'.root = root
        /\ search'.seen = IF Fits(n) /\ n \in kept THEN E \cup {n} ELSE E
        /\ search'.result = IF Fits(n) /\ n \in kept THEN Append(r, Listed(n, "semantic")) ELSE r
        /\ UNCHANGED <<links, ever, changes>>
    BY <1>1, <1>5, <2>1, <2>2 DEF FetchClose, Fields, AtStage, Searching
  <2>4. /\ ListOk(r, root, ever) /\ root \in E /\ IdsOf(r) \subseteq E
        /\ changes = 0 => AllLinked(r, root, links)
    BY <1>1, <2>2, <2>3 DEF RelatedInv
  <2>5. ListOk(r, root, ever') /\ (changes' = 0 => AllLinked(r, root, links'))
    BY <2>3, <2>4
  <2>6. CASE Fits(n) /\ n \in kept
    <3>1. n \in Notes /\ n # root /\ n \notin IdsOf(r) /\ Len(r) < Limit
      BY <2>2, <2>4, <2>6 DEF Fits, GraphOk
    <3>2. PICK s, F : s = Append(r, Listed(n, "semantic")) /\ F = E \cup {n}
      OBVIOUS
    <3>3. PICK after, now : after = ever' /\ now = links'
      OBVIOUS
    <3>4. ListOk(s, root, after) /\ IdsOf(s) = IdsOf(r) \cup {n}
      BY <2>5, <3>1, <3>2, <3>3, ListGrows
    <3>5. search'.result = s /\ search'.seen = F
      BY <2>3, <2>6, <3>2
    <3>6. /\ root \in F /\ IdsOf(s) \subseteq F
          /\ changes' = 0 => AllLinked(s, root, links')
      BY <2>4, <2>5, <3>2, <3>4 DEF AllLinked
    <3>7. ListOk(s, root, ever')
      BY <3>3, <3>4
    <3>8. QED
      BY <2>3, <3>5, <3>6, <3>7, RelatedAfter
  <2>7. CASE ~(Fits(n) /\ n \in kept)
    <3>1. search'.result = r /\ search'.seen = E
      BY <2>3, <2>7
    <3>2. QED
      BY <2>3, <2>4, <2>5, <3>1, RelatedAfter
  <2>8. QED
    BY <2>6, <2>7
<1>6. CASE Disturbed
  <2>1. UNCHANGED search /\ changes' # 0 /\ ever \subseteq ever'
    BY <1>6 DEF Disturbed
  <2>2. PICK root, r, S, T : root = search.root /\ r = search.result /\ S = ever /\ T = ever'
    OBVIOUS
  <2>3. Adjacent(S, root) \subseteq Adjacent(T, root)
    BY <2>1, <2>2, AdjacentGrows
  <2>4. ListOk(r, root, S) => ListOk(r, root, T)
    BY <2>1, <2>2, ListStays
  <2>5. QED
    BY <1>1, <2>1, <2>2, <2>3, <2>4 DEF RelatedInv, AtStage, Kind
<1>7. QED
  BY <1>2, <1>3, <1>4, <1>5, <1>6, RelatedSteps

LEMMA RelatedHolds ==
    ASSUME SearchOk, RelatedInv
    PROVE  RelatedTrue
<1> SUFFICES ASSUME Done("related")
             PROVE  LET r == search.result  ids == {r[i].id : i \in DOMAIN r} IN
                    /\ search.root \notin ids /\ Cardinality(ids) = Len(r) /\ Len(r) <= Limit
                    /\ \A i, j \in DOMAIN r : i < j /\ r[j].how = "linked" => r[i].how = "linked"
                    /\ \A i \in DOMAIN r : r[i].how = "linked" => r[i].id \in Adjacent(ever, search.root)
                    /\ changes = 0 /\ (\E i \in DOMAIN r : r[i].how = "semantic") =>
                         Adjacent(links, search.root) \subseteq ids
  BY DEF RelatedTrue
<1>1. PICK r : r = search.result
  OBVIOUS
<1>2. /\ ListOk(r, search.root, ever)
      /\ changes = 0 /\ SomeClose(r) => Adjacent(links, search.root) \subseteq IdsOf(r)
  BY <1>1 DEF RelatedInv, Done, AtStage, AllLinked
<1>3. r \in Seq(Item) /\ Len(r) \in Nat /\ DOMAIN r = 1..Len(r)
  BY <1>2 DEF ListOk
<1>4. Cardinality(IdsOf(r)) = Len(r)
  <2> DEFINE g == [i \in 1..Len(r) |-> r[i].id]
  <2>1. g \in Bijection(1..Len(r), IdsOf(r))
    <3>1. g \in [1..Len(r) -> IdsOf(r)]
      BY <1>3 DEF IdsOf
    <3>2. \A i, j \in 1..Len(r) : g[i] = g[j] => i = j
      BY <1>2 DEF ListOk
    <3>3. \A x \in IdsOf(r) : \E i \in 1..Len(r) : g[i] = x
      BY <1>3 DEF IdsOf
    <3>4. QED
      BY <3>1, <3>2, <3>3 DEF Bijection, Injection, Surjection, IsInjective
  <2>2. QED
    BY <1>3, <2>1, FS_CountingElements DEF ExistsBijection
<1>5. QED
  BY <1>1, <1>2, <1>3, <1>4 DEF ListOk, IdsOf, SomeClose

(***************************************************************************)
(* The full graph.                                                         *)
(***************************************************************************)
FullInv ==
    Kind("full") =>
      /\ AtStage("links") /\ changes = 0 => search.seen = kept \ archived
      /\ AtStage("done") =>
           /\ Ends(search.edges) \subseteq search.seen /\ search.edges \subseteq ever
           /\ changes = 0 =>
                /\ search.seen = kept \ archived
                /\ search.edges = {l \in links : {l[1], l[2]} \subseteq kept \ archived}

LEMMA FullSteps ==
    ASSUME GraphOk, SearchOk, GraphNext, Kind("full")
    PROVE  FullNotes \/ FullLinks \/ Disturbed
<1>1. search # NoSearch /\ search.stage \in {"rows", "links", "done"}
      /\ search.kind = "full" /\ Kind("full")
  BY Underway DEF Kind, Stages, Kinds
<1>2. \A k \in Kinds : \A n, to \in Notes : ~Begin(k, n, to)
  BY <1>1 DEF Begin
<1>3. ~Pass /\ ~Follow /\ ~Arrived /\ ~HopsDone /\ ~Exhausted
  BY <1>1 DEF Pass, Follow, Following, Arrived, HopsDone, Exhausted, AtStage, Kind
<1>4. (\A h \in Notes \X Notes : ~Hop(h)) /\ (\A n \in Notes : ~NextCluster(n))
  BY <1>1 DEF Hop, NextCluster, AtStage
<1>5. ~ReadLinks /\ ~ClustersDone /\ ~ReadLinked /\ ~ReadNames /\ ~NoneClose /\ ~FetchClose /\ ~RelatedDone
  BY <1>1 DEF ReadLinks, ClustersDone, ReadLinked, ReadNames, NoneClose, FetchClose, RelatedDone,
       AtStage, Kind
<1>6. \A order : ~FindClose(order)
  BY <1>1 DEF FindClose, AtStage
<1>7. QED
  BY <1>2, <1>3, <1>4, <1>5, <1>6, DisturbedDoes DEF GraphNext

LEMMA FullStep ==
    ASSUME GraphOk, SearchOk, FullInv, GraphNext, Kind("full")
    PROVE  FullInv'
<1>1. /\ search # NoSearch /\ DOMAIN search = Fields /\ search.kind = "full" /\ changes \in Nat
      /\ Ends(links) \subseteq kept
  BY Underway DEF Kind, GraphOk
<1>2. CASE FullNotes
  <2>1. /\ search'.kind = "full" /\ search'.stage = "links" /\ search'.seen = kept \ archived
        /\ UNCHANGED <<kept, archived>>
    BY <1>1, <1>2 DEF FullNotes, Fields, Searching
  <2>2. QED
    BY <2>1 DEF FullInv, AtStage
<1>3. CASE FullLinks
  <2>1. /\ search.stage = "links" /\ search'.kind = "full" /\ search'.stage = "done"
        /\ search'.edges = {l \in links : {l[1], l[2]} \subseteq search.seen}
        /\ search'.seen = search.seen /\ UNCHANGED <<kept, archived, links, ever, changes>>
    BY <1>1, <1>3 DEF FullLinks, Fields, Searching, AtStage
  <2>2. Ends(search'.edges) \subseteq search'.seen /\ search'.edges \subseteq ever'
    BY <1>1, <2>1 DEF Ends, GraphOk
  <2>3. changes = 0 => search.seen = kept \ archived
    BY <1>1, <2>1 DEF FullInv, AtStage, Kind
  <2>4. QED
    BY <2>1, <2>2, <2>3 DEF FullInv, AtStage
<1>4. CASE Disturbed
  BY <1>4 DEF Disturbed, FullInv, AtStage, Kind
<1>5. QED
  BY <1>2, <1>3, <1>4, FullSteps

LEMMA FullHolds ==
    ASSUME FullInv
    PROVE  FullTrue
BY DEF FullInv, FullTrue, Done

(***************************************************************************)
(* Breadth first: the paths on the frontier.  A path starts at the root,   *)
(* follows links, visits no note twice, and is as long as its last note is *)
(* deep; the paths end at different notes and are in the order of their    *)
(* lengths, which differ by one at most.                                   *)
(***************************************************************************)
Joined(V, a, b) == <<a, b>> \in V \/ <<b, a>> \in V

PathOk(p, root, d, V) ==
    /\ p \in Seq(Notes) /\ Len(p) >= 1 /\ p[1] = root
    /\ \A i, j \in 1..Len(p) : p[i] = p[j] => i = j
    /\ \A i \in 1..Len(p) : p[i] \in DOMAIN d
    /\ \A i \in 1..(Len(p) - 1) : Joined(V, p[i], p[i + 1])
    /\ d[Last(p)] = Len(p) - 1

Frontier(fr, root, d, V) ==
    /\ fr \in Seq(Seq(Notes))
    /\ \A i \in 1..Len(fr) : PathOk(fr[i], root, d, V)
    /\ \A i, j \in 1..Len(fr) : Last(fr[i]) = Last(fr[j]) => i = j
    /\ \A i, j \in 1..Len(fr) : i < j => Len(fr[i]) <= Len(fr[j]) /\ Len(fr[j]) <= Len(fr[i]) + 1

Depths(d, root) ==
    d \in [DOMAIN d -> 0..Depth] /\ DOMAIN d \subseteq Notes /\ root \in DOMAIN d /\ d[root] = 0

LEMMA PathStays ==
    ASSUME NEW p, NEW root, NEW d, NEW e, NEW V, NEW W, PathOk(p, root, d, V), V \subseteq W,
           DOMAIN d \subseteq DOMAIN e, \A m \in DOMAIN d : e[m] = d[m]
    PROVE  PathOk(p, root, e, W)
<1>1. Last(p) \in DOMAIN d
  <2>1. p \in Seq(Notes) /\ Len(p) \in 1..Len(p) /\ p # <<>>
    BY DEF PathOk
  <2>2. QED
    BY <2>1, LastIs DEF PathOk
<1>2. QED
  BY <1>1 DEF PathOk, Joined

LEMMA PathGrows ==
    ASSUME NEW p, NEW root, NEW d, NEW e, NEW V, PathOk(p, root, d, V),
           DOMAIN d \subseteq DOMAIN e,
           NEW x \in Notes, x \notin DOMAIN d, x \in DOMAIN e, e[x] = Len(p),
           Joined(V, Last(p), x)
    PROVE  PathOk(Append(p, x), root, e, V)
<1> DEFINE q == Append(p, x)
<1>1. p \in Seq(Notes) /\ Len(p) \in Nat /\ Len(p) >= 1 /\ p # <<>> /\ Last(p) = p[Len(p)]
  BY LastIs DEF PathOk
<1>2. /\ q \in Seq(Notes) /\ Len(q) = Len(p) + 1 /\ q[Len(p) + 1] = x
      /\ \A i \in 1..Len(p) : q[i] = p[i]
  BY <1>1, AppendProperties
<1>3. Last(q) = x
  BY <1>1, LastIs
<1> HIDE DEF q
<1>4. /\ \A i \in 1..(Len(p) + 1) : i \in 1..Len(p) \/ i = Len(p) + 1
      /\ 1 \in 1..Len(p) /\ Len(p) \in 1..Len(p) /\ Len(q) - 1 = Len(p)
      /\ \A i \in 1..Len(p) : i = Len(p) \/ i \in 1..(Len(p) - 1)
      /\ \A i \in 1..(Len(p) - 1) : i \in 1..Len(p) /\ i + 1 \in 1..Len(p)
  BY <1>1, <1>2
<1>5. q[1] = root
  BY <1>2, <1>4 DEF PathOk
<1>6. \A i, j \in 1..(Len(p) + 1) : q[i] = q[j] => i = j
  <2>1. \A i \in 1..Len(p) : p[i] # x
    BY DEF PathOk
  <2>2. \A i, j \in 1..Len(p) : p[i] = p[j] => i = j
    BY DEF PathOk
  <2>3. QED
    BY <1>2, <1>4, <2>1, <2>2
<1>7. \A i \in 1..(Len(p) + 1) : q[i] \in DOMAIN e
  BY <1>2, <1>4 DEF PathOk
<1>8. \A i \in 1..Len(p) : Joined(V, q[i], q[i + 1])
  <2> TAKE i \in 1..Len(p)
  <2>1. CASE i = Len(p)
    BY <1>1, <1>2, <1>4, <2>1
  <2>2. CASE i \in 1..(Len(p) - 1)
    <3>1. Joined(V, p[i], p[i + 1])
      BY <2>2 DEF PathOk
    <3>2. q[i] = p[i] /\ q[i + 1] = p[i + 1]
      BY <1>2, <1>4, <2>2
    <3>3. QED
      BY <3>1, <3>2
  <2>3. QED
    BY <1>4, <2>1, <2>2
<1>9. Len(q) >= 1 /\ e[Last(q)] = Len(q) - 1 /\ Len(q) - 1 = Len(p)
  BY <1>1, <1>2, <1>3
<1>10. PathOk(q, root, e, V)
  BY <1>2, <1>5, <1>6, <1>7, <1>8, <1>9 DEF PathOk
<1>11. QED
  BY <1>10 DEF q

\* The first path of the frontier is a shortest one.
LEMMA FirstIs ==
    ASSUME NEW fr, NEW root, NEW d, NEW V, Frontier(fr, root, d, V), fr # <<>>
    PROVE  /\ fr \in Seq(Seq(Notes)) /\ Len(fr) \in Nat /\ Len(fr) >= 1 /\ DOMAIN fr = 1..Len(fr)
           /\ Head(fr) = fr[1] /\ 1 \in 1..Len(fr) /\ PathOk(Head(fr), root, d, V)
           /\ Len(Head(fr)) \in Nat /\ Len(Head(fr)) >= 1
           /\ Last(Head(fr)) \in DOMAIN d /\ d[Last(Head(fr))] = Len(Head(fr)) - 1
           /\ Last(Head(fr)) \in Notes
           /\ Lasts(fr) \subseteq DOMAIN d
           /\ \A m \in Lasts(fr) : d[m] >= Len(Head(fr)) - 1
<1>1. /\ fr \in Seq(Seq(Notes)) /\ Len(fr) \in Nat /\ Len(fr) >= 1 /\ DOMAIN fr = 1..Len(fr)
      /\ Head(fr) = fr[1] /\ 1 \in 1..Len(fr)
  BY DEF Frontier
<1>2. \A i \in 1..Len(fr) : /\ fr[i] \in Seq(Notes) /\ Len(fr[i]) \in Nat /\ Len(fr[i]) >= 1
                            /\ Last(fr[i]) \in DOMAIN d /\ Last(fr[i]) \in Notes
                            /\ d[Last(fr[i])] = Len(fr[i]) - 1
  <2> TAKE i \in 1..Len(fr)
  <2>1. PathOk(fr[i], root, d, V)
    BY DEF Frontier
  <2>2. /\ fr[i] \in Seq(Notes) /\ Len(fr[i]) \in Nat /\ Len(fr[i]) >= 1 /\ fr[i] # <<>>
        /\ Len(fr[i]) \in 1..Len(fr[i])
    BY <2>1 DEF PathOk
  <2>3. Last(fr[i]) = fr[i][Len(fr[i])]
    BY <2>2, LastIs
  <2>4. QED
    BY <2>1, <2>2, <2>3 DEF PathOk
<1>3. \A i \in 1..Len(fr) : Len(fr[1]) <= Len(fr[i])
  <2> TAKE i \in 1..Len(fr)
  <2>1. i = 1 \/ 1 < i
    BY <1>1
  <2>2. QED
    BY <1>1, <1>2, <2>1 DEF Frontier
<1>4. \A m \in Lasts(fr) : m \in DOMAIN d /\ d[m] >= Len(fr[1]) - 1
  <2> SUFFICES ASSUME NEW i \in 1..Len(fr)
               PROVE  Last(fr[i]) \in DOMAIN d /\ d[Last(fr[i])] >= Len(fr[1]) - 1
    BY <1>1 DEF Lasts
  <2>1. QED
    BY <1>1, <1>2, <1>3
<1>5. QED
  BY <1>1, <1>2, <1>4 DEF Frontier

LEMMA FrontierStays ==
    ASSUME NEW fr, NEW root, NEW d, NEW V, NEW W, Frontier(fr, root, d, V), V \subseteq W
    PROVE  Frontier(fr, root, d, W)
<1>1. \A i \in 1..Len(fr) : PathOk(fr[i], root, d, W)
  BY PathStays DEF Frontier
<1>2. QED
  BY <1>1 DEF Frontier

\* Without its first path.
LEMMA FrontierShorter ==
    ASSUME NEW fr, NEW root, NEW d, NEW V, Frontier(fr, root, d, V), fr # <<>>
    PROVE  /\ Frontier(Tail(fr), root, d, V)
           /\ Lasts(fr) = Lasts(Tail(fr)) \cup {Last(Head(fr))}
<1>1. /\ fr \in Seq(Seq(Notes)) /\ Len(fr) \in Nat /\ Len(fr) >= 1 /\ DOMAIN fr = 1..Len(fr)
      /\ Head(fr) = fr[1] /\ 1 \in 1..Len(fr)
  BY FirstIs
<1> DEFINE t == Tail(fr)
<1>2. /\ t \in Seq(Seq(Notes)) /\ Len(t) = Len(fr) - 1 /\ DOMAIN t = 1..(Len(fr) - 1)
      /\ \A i \in 1..(Len(fr) - 1) : t[i] = fr[i + 1]
  BY <1>1
<1> HIDE DEF t
<1>3. \A i \in 1..(Len(fr) - 1) : i + 1 \in 1..Len(fr)
  BY <1>1
<1>4. \A i, j \in 1..(Len(fr) - 1) : (i < j => i + 1 < j + 1) /\ (i + 1 = j + 1 => i = j)
  BY <1>1
<1>5. \A i \in 1..(Len(fr) - 1) : PathOk(t[i], root, d, V)
  BY <1>2, <1>3 DEF Frontier
<1>6. \A i, j \in 1..(Len(fr) - 1) : Last(t[i]) = Last(t[j]) => i = j
  <2>1. \A i, j \in 1..(Len(fr) - 1) : Last(fr[i + 1]) = Last(fr[j + 1]) => i + 1 = j + 1
    BY <1>3 DEF Frontier
  <2>2. QED
    BY <1>2, <1>4, <2>1
<1>7. \A i, j \in 1..(Len(fr) - 1) : i < j => Len(t[i]) <= Len(t[j]) /\ Len(t[j]) <= Len(t[i]) + 1
  <2>1. \A i, j \in 1..(Len(fr) - 1) :
          i + 1 < j + 1 => Len(fr[i + 1]) <= Len(fr[j + 1]) /\ Len(fr[j + 1]) <= Len(fr[i + 1]) + 1
    BY <1>3 DEF Frontier
  <2>2. QED
    BY <1>2, <1>4, <2>1
<1>8. Frontier(t, root, d, V)
  BY <1>2, <1>5, <1>6, <1>7 DEF Frontier
<1>9. Lasts(fr) = Lasts(t) \cup {Last(fr[1])}
  <2>1. Lasts(t) \subseteq Lasts(fr)
    BY <1>1, <1>2, <1>3 DEF Lasts
  <2>2. Last(fr[1]) \in Lasts(fr)
    BY <1>1 DEF Lasts
  <2>3. ASSUME NEW i \in 1..Len(fr), i # 1
        PROVE  Last(fr[i]) \in Lasts(t)
    <3>1. i - 1 \in 1..(Len(fr) - 1) /\ (i - 1) + 1 = i
      BY <1>1, <2>3
    <3>2. QED
      BY <1>2, <3>1 DEF Lasts
  <2>4. Lasts(fr) \subseteq Lasts(t) \cup {Last(fr[1])}
    BY <1>1, <2>3 DEF Lasts
  <2>5. QED
    BY <2>1, <2>2, <2>4
<1>10. QED
  BY <1>1, <1>8, <1>9 DEF t

\* Its first path made longer by each of the notes that were not visited.
LEMMA FrontierLonger ==
    ASSUME NEW fr, NEW root, NEW d, NEW V, Frontier(fr, root, d, V), fr # <<>>,
           NEW new \in SUBSET Notes, NEW order \in SetToSeqs(new),
           \A x \in new : x \notin DOMAIN d /\ Joined(V, Last(Head(fr)), x)
    PROVE  /\ Frontier(Longer(fr, order), root, Deepened(d, new, Len(Head(fr))), V)
           /\ Lasts(Longer(fr, order)) = (Lasts(fr) \ {Last(Head(fr))}) \cup new
<1> DEFINE longer == Longer(fr, order)
           e == Deepened(d, new, Len(Head(fr)))
           N == Len(fr) - 1
<1>1. /\ fr \in Seq(Seq(Notes)) /\ Len(fr) \in Nat /\ Len(fr) >= 1 /\ DOMAIN fr = 1..Len(fr)
      /\ Head(fr) = fr[1] /\ 1 \in 1..Len(fr) /\ PathOk(Head(fr), root, d, V)
      /\ Len(Head(fr)) \in Nat /\ Last(Head(fr)) \in DOMAIN d /\ Lasts(fr) \subseteq DOMAIN d
      /\ Head(fr) \in Seq(Notes)
  BY FirstIs DEF PathOk
<1>2. /\ longer \in Seq(Seq(Notes)) /\ Len(longer) = Len(fr) - 1 + Len(order)
      /\ \A i \in 1..Len(longer) :
                \/ i <= Len(fr) - 1 /\ longer[i] = fr[i + 1]
                \/ /\ i > Len(fr) - 1 /\ i - (Len(fr) - 1) \in 1..Len(order)
                   /\ longer[i] = Append(Head(fr), order[i - (Len(fr) - 1)])
  BY <1>1, LongerIs
<1>3. /\ order \in Seq(new) /\ Len(order) \in Nat
      /\ \A i, j \in 1..Len(order) : order[i] = order[j] => i = j
  BY OrderIs, GraphAssumption, FS_Subset
<1>4. DOMAIN e = new \cup DOMAIN d /\ (\A x \in new : e[x] = Len(Head(fr)))
      /\ \A m \in DOMAIN d : e[m] = d[m]
  BY DEF Deepened
<1>5. new \subseteq Lasts(longer) /\ Lasts(fr) \subseteq Lasts(longer) \cup {Last(Head(fr))}
      /\ Lasts(longer) \subseteq Lasts(fr) \cup new
  BY <1>1, LongerLasts
<1> HIDE DEF longer, e
<1>6. N \in Nat /\ N + 1 = Len(fr) /\ Len(longer) = N + Len(order)
  BY <1>1, <1>2
<1> HIDE DEF N
<1> DEFINE Old(i) == i <= N /\ i + 1 \in 1..Len(fr) /\ i + 1 # 1 /\ longer[i] = fr[i + 1]
           Made(i) == i > N /\ i - N \in 1..Len(order)
                      /\ longer[i] = Append(Head(fr), order[i - N])
<1>7. \A i \in 1..Len(longer) : Old(i) \/ Made(i)
  <2> TAKE i \in 1..Len(longer)
  <2>1. i \in Nat /\ i >= 1
    BY <1>3, <1>6
  <2>2. i <= N => i + 1 \in 1..Len(fr) /\ i + 1 # 1
    BY <1>1, <1>6, <2>1
  <2>3. QED
    BY <1>2, <2>2 DEF N
<1>8. \A i \in 1..Len(longer) : Made(i) =>
        /\ order[i - N] \in new /\ Last(longer[i]) = order[i - N]
        /\ Len(longer[i]) = Len(Head(fr)) + 1
  <2> SUFFICES ASSUME NEW i \in 1..Len(longer), Made(i)
               PROVE  /\ order[i - N] \in new /\ Last(longer[i]) = order[i - N]
                      /\ Len(longer[i]) = Len(Head(fr)) + 1
    OBVIOUS
  <2>1. order[i - N] \in new
    BY <1>3
  <2>2. order[i - N] \in Notes
    BY <2>1
  <2>3. QED
    BY <1>1, <2>1, <2>2, LastIs, AppendProperties
<1>9. \A i \in 1..Len(longer) : Old(i) =>
        /\ Last(longer[i]) \in DOMAIN d /\ Last(longer[i]) # Last(Head(fr))
        /\ Len(longer[i]) \in Nat /\ Len(Head(fr)) <= Len(longer[i])
        /\ Len(longer[i]) <= Len(Head(fr)) + 1
  <2> SUFFICES ASSUME NEW j \in 1..Len(fr), j # 1
               PROVE  /\ Last(fr[j]) \in DOMAIN d /\ Last(fr[j]) # Last(fr[1])
                      /\ Len(fr[j]) \in Nat /\ Len(fr[1]) <= Len(fr[j])
                      /\ Len(fr[j]) <= Len(fr[1]) + 1
    BY <1>1
  <2>1. Last(fr[j]) \in DOMAIN d
    BY <1>1 DEF Lasts
  <2>2. Last(fr[j]) # Last(fr[1])
    BY <1>1 DEF Frontier
  <2>3. 1 < j
    BY <1>1
  <2>4. QED
    BY <1>1, <2>1, <2>2, <2>3 DEF Frontier
<1>10. \A i \in 1..Len(longer) : PathOk(longer[i], root, e, V)
  <2> TAKE i \in 1..Len(longer)
  <2>1. CASE Old(i)
    <3>1. PathOk(fr[i + 1], root, d, V)
      BY <2>1 DEF Frontier
    <3>2. QED
      BY <1>4, <2>1, <3>1, PathStays
  <2>2. CASE Made(i)
    <3>1. order[i - N] \in new /\ order[i - N] \in Notes
      BY <1>8, <2>2
    <3>2. PathOk(Append(Head(fr), order[i - N]), root, e, V)
      BY <1>1, <1>4, <3>1, PathGrows
    <3>3. QED
      BY <2>2, <3>2
  <2>3. QED
    BY <1>7, <2>1, <2>2
<1>11. \A i, j \in 1..Len(longer) : Last(longer[i]) = Last(longer[j]) => i = j
  <2> SUFFICES ASSUME NEW i \in 1..Len(longer), NEW j \in 1..Len(longer),
                      Last(longer[i]) = Last(longer[j])
               PROVE  i = j
    OBVIOUS
  <2>1. i \in Int /\ j \in Int
    BY <1>3, <1>6
  <2>2. CASE Old(i) /\ Old(j)
    <3>1. i + 1 = j + 1
      BY <2>2 DEF Frontier
    <3>2. QED
      BY <2>1, <3>1
  <2>3. CASE Made(i) /\ Made(j)
    <3>1. i - N = j - N
      BY <1>3, <1>8, <2>3
    <3>2. QED
      BY <1>6, <2>1, <3>1
  <2>4. CASE Old(i) /\ Made(j)
    BY <1>8, <1>9, <2>4
  <2>5. CASE Made(i) /\ Old(j)
    BY <1>8, <1>9, <2>5
  <2>6. QED
    BY <1>7, <2>2, <2>3, <2>4, <2>5
<1>12. \A i, j \in 1..Len(longer) : i < j =>
         Len(longer[i]) <= Len(longer[j]) /\ Len(longer[j]) <= Len(longer[i]) + 1
  <2> SUFFICES ASSUME NEW i \in 1..Len(longer), NEW j \in 1..Len(longer), i < j
               PROVE  Len(longer[i]) <= Len(longer[j]) /\ Len(longer[j]) <= Len(longer[i]) + 1
    OBVIOUS
  <2>1. i \in Int /\ j \in Int
    BY <1>3, <1>6
  <2>2. CASE Old(i) /\ Old(j)
    <3>1. i + 1 < j + 1
      BY <2>1
    <3>2. QED
      BY <2>2, <3>1 DEF Frontier
  <2>3. CASE Made(i) /\ Made(j)
    <3>1. Len(longer[i]) = Len(Head(fr)) + 1 /\ Len(longer[j]) = Len(Head(fr)) + 1
      BY <1>8, <2>3
    <3>2. QED
      BY <1>1, <3>1
  <2>4. CASE Old(i) /\ Made(j)
    <3>1. Len(longer[j]) = Len(Head(fr)) + 1
      BY <1>8, <2>4
    <3>2. /\ Len(longer[i]) \in Nat /\ Len(Head(fr)) <= Len(longer[i])
          /\ Len(longer[i]) <= Len(Head(fr)) + 1
      BY <1>9, <2>4
    <3>3. QED
      BY <1>1, <3>1, <3>2
  <2>5. CASE Made(i) /\ Old(j)
    BY <1>6, <2>1, <2>5
  <2>6. QED
    BY <1>7, <2>2, <2>3, <2>4, <2>5
<1>13. Frontier(longer, root, e, V)
  BY <1>2, <1>10, <1>11, <1>12 DEF Frontier
<1>14. Last(Head(fr)) \notin Lasts(longer)
  <2> SUFFICES ASSUME NEW i \in 1..Len(longer)
               PROVE  Last(longer[i]) # Last(Head(fr))
    <3>1. DOMAIN longer = 1..Len(longer)
      BY <1>2
    <3>2. QED
      BY <3>1 DEF Lasts
  <2>1. QED
    BY <1>1, <1>7, <1>8, <1>9
<1>15. Lasts(longer) = (Lasts(fr) \ {Last(Head(fr))}) \cup new
  BY <1>5, <1>14
<1>16. QED
  BY <1>13, <1>15 DEF longer, e

(***************************************************************************)
(* Breadth first: the depths.  As long as nothing changes the depth of a   *)
(* note is its distance, because whatever is nearer than the frontier was  *)
(* visited before.                                                         *)
(***************************************************************************)
Exact(d, root, S) ==
    \A m \in DOMAIN d : /\ m \in Ball(S, root)[d[m]]
                        /\ \A k \in 0..Depth : m \in Ball(S, root)[k] => d[m] <= k

Opened(fr, d, S) ==
    \A m \in DOMAIN d : m \in Lasts(fr) \/ Adjacent(S, m) \subseteq DOMAIN d \/ d[m] >= Depth

LEMMA Reached ==
    ASSUME NEW fr, NEW d, NEW root, NEW S, Depths(d, root), Exact(d, root, S), Opened(fr, d, S),
           NEW k \in 0..Depth, \A m \in Lasts(fr) : m \in DOMAIN d => d[m] >= k
    PROVE  Ball(S, root)[k] \subseteq DOMAIN d
<1> DEFINE b == Ball(S, root)
           T == {j \in Nat : j <= k => b[j] \subseteq DOMAIN d}
<1>1. \A m \in DOMAIN d : d[m] \in Nat
  BY DEF Depths
<1>2. 0 \in T
  BY BallSteps DEF Depths
<1>3. ASSUME NEW j \in Nat, j \in T
      PROVE  j + 1 \in T
  <2> SUFFICES ASSUME j + 1 <= k
               PROVE  b[j + 1] \subseteq DOMAIN d
    BY <1>3
  <2>1. j <= k /\ j < k /\ j \in 0..Depth /\ j \in 0..Farthest /\ j + 1 <= Farthest /\ k <= Depth
    BY Numbers
  <2>2. b[j + 1] = Wider(S, b[j])
    BY <2>1, BallSteps
  <2>3. b[j] \subseteq DOMAIN d
    BY <1>3, <2>1
  <2>4. ASSUME NEW m \in b[j]
        PROVE  Adjacent(S, m) \subseteq DOMAIN d
    <3>1. m \in DOMAIN d /\ d[m] \in Nat
      BY <1>1, <2>3
    <3>2. d[m] <= j
      BY <2>1, <3>1 DEF Exact
    <3>3. ~(d[m] >= k) /\ ~(d[m] >= Depth)
      BY <2>1, <3>1, <3>2, Numbers
    <3>4. m \notin Lasts(fr)
      BY <3>1, <3>3
    <3>5. QED
      BY <3>1, <3>3, <3>4 DEF Opened
  <2>5. QED
    BY <2>2, <2>3, <2>4 DEF Wider
<1>4. k \in T
  <2> HIDE DEF T
  <2>1. QED
    BY <1>2, <1>3, SetInduction, Numbers
<1>5. QED
  BY <1>4, Numbers

\* What a step to the neighbours of the first path's end does to the depths.
LEMMA DepthsGrow ==
    ASSUME NEW fr, NEW root, NEW d, NEW V, Frontier(fr, root, d, V), fr # <<>>, Depths(d, root),
           NEW new \in SUBSET Notes, \A x \in new : x \notin DOMAIN d, ~TooDeep(Head(fr))
    PROVE  Depths(Deepened(d, new, Len(Head(fr))), root)
<1> DEFINE l == Len(Head(fr))
           e == Deepened(d, new, l)
<1>1. l \in 0..Depth
  <2>1. Len(Head(fr)) \in Nat /\ ~(Len(Head(fr)) - 1 >= Depth)
    BY FirstIs DEF TooDeep
  <2>2. QED
    BY <2>1, Numbers
<1> HIDE DEF l
<1>2. d \in [DOMAIN d -> 0..Depth] /\ DOMAIN d \subseteq Notes /\ root \in DOMAIN d /\ d[root] = 0
  BY DEF Depths
<1>3. DOMAIN e = new \cup DOMAIN d /\ e \in [DOMAIN e -> 0..Depth]
  BY <1>1, <1>2 DEF Deepened
<1>4. root \in DOMAIN e /\ e[root] = 0
  BY <1>2, <1>3 DEF Deepened
<1>5. QED
  BY <1>2, <1>3, <1>4 DEF Depths, l

LEMMA ExactGrows ==
    ASSUME NEW fr, NEW root, NEW d, NEW V, Frontier(fr, root, d, V), fr # <<>>, Depths(d, root),
           ~TooDeep(Head(fr)), NEW S, Exact(d, root, S), Opened(fr, d, S),
           NEW new, new = Adjacent(S, Last(Head(fr))) \ DOMAIN d,
           NEW order \in SetToSeqs(new),
           Lasts(Longer(fr, order)) = (Lasts(fr) \ {Last(Head(fr))}) \cup new
    PROVE  /\ Exact(Deepened(d, new, Len(Head(fr))), root, S)
           /\ Opened(Longer(fr, order), Deepened(d, new, Len(Head(fr))), S)
<1> DEFINE l == Len(Head(fr))
           e == Deepened(d, new, l)
           last == Last(Head(fr))
           b == Ball(S, root)
<1>1. /\ l \in Nat /\ l >= 1 /\ last \in DOMAIN d /\ d[last] = l - 1
      /\ \A m \in Lasts(fr) : d[m] >= l - 1
  BY FirstIs
<1>2. l <= Depth /\ l \in 0..Depth /\ l - 1 \in 0..Depth /\ l \in 0..Farthest /\ l - 1 \in 0..Farthest
      /\ (l - 1) + 1 = l /\ l <= Farthest
  BY <1>1, Numbers DEF TooDeep
<1>3. /\ DOMAIN e = new \cup DOMAIN d /\ (\A x \in new : e[x] = l /\ x \notin DOMAIN d)
      /\ \A m \in DOMAIN d : e[m] = d[m]
  BY DEF Deepened
<1> HIDE DEF l, e
<1>4. b[l - 1] \subseteq DOMAIN d
  BY <1>1, <1>2, Reached
<1>5. \A x \in new : x \in b[l]
  <2>1. last \in b[l - 1]
    BY <1>1 DEF Exact
  <2>2. b[l] = Wider(S, b[l - 1])
    BY <1>2, BallSteps
  <2>3. QED
    BY <2>1, <2>2 DEF Wider
<1>6. \A x \in new : \A k \in 0..Depth : x \in b[k] => l <= k
  <2> SUFFICES ASSUME NEW x \in new, NEW k \in 0..Depth, x \in b[k], ~(l <= k)
               PROVE  FALSE
    OBVIOUS
  <2>1. k \in 0..(l - 1)
    BY <1>1
  <2>2. b[k] \subseteq b[l - 1]
    BY <1>2, <2>1, BallGrows
  <2>3. QED
    BY <1>3, <1>4, <2>2
<1>7. Exact(e, root, S)
  <2>1. \A m \in DOMAIN d : e[m] = d[m] /\ m \in b[e[m]] /\ \A k \in 0..Depth : m \in b[k] => e[m] <= k
    BY <1>3 DEF Exact
  <2>2. \A m \in new : m \in b[e[m]] /\ \A k \in 0..Depth : m \in b[k] => e[m] <= k
    BY <1>3, <1>5, <1>6
  <2>3. QED
    BY <1>3, <2>1, <2>2 DEF Exact
<1>8. Opened(Longer(fr, order), e, S)
  <2>1. ASSUME NEW m \in DOMAIN d, m \notin Lasts(Longer(fr, order))
        PROVE  Adjacent(S, m) \subseteq DOMAIN e \/ e[m] >= Depth
    <3>1. m \notin Lasts(fr) \/ m = last
      BY <2>1
    <3>2. CASE m = last
      BY <1>3, <3>2
    <3>3. CASE m \notin Lasts(fr)
      BY <1>3, <3>3 DEF Opened
    <3>4. QED
      BY <3>1, <3>2, <3>3
  <2>2. \A m \in new : m \in Lasts(Longer(fr, order))
    OBVIOUS
  <2>3. QED
    BY <1>3, <2>1, <2>2 DEF Opened
<1>9. QED
  BY <1>7, <1>8 DEF e, l

(***************************************************************************)
(* A search for a subgraph or a path while links are followed.             *)
(***************************************************************************)
Walking == Kind("subgraph") \/ Kind("path")

FollowInv ==
    Walking /\ AtStage("follow") =>
      /\ Depths(search.depth, search.root)
      /\ Frontier(search.frontier, search.root, search.depth, ever)
      /\ changes = 0 => /\ Exact(search.depth, search.root, links)
                        /\ Opened(search.frontier, search.depth, links)

\* The state after a step that goes on following.
LEMMA FollowAfter ==
    ASSUME NEW fr, NEW d, NEW root, search'.frontier = fr, search'.depth = d, search'.root = root,
           Depths(d, root), Frontier(fr, root, d, ever'),
           changes' = 0 => Exact(d, root, links') /\ Opened(fr, d, links')
    PROVE  FollowInv'
BY DEF FollowInv

LEMMA FollowDisturbed ==
    ASSUME FollowInv, Disturbed
    PROVE  FollowInv'
<1>1. UNCHANGED search /\ changes' # 0 /\ ever \subseteq ever'
  BY DEF Disturbed
<1> SUFFICES ASSUME Walking, AtStage("follow")
             PROVE  FollowInv'
  BY <1>1 DEF FollowInv, Walking, Kind, AtStage
<1>2. PICK fr, d, root, V, W : /\ fr = search.frontier /\ d = search.depth /\ root = search.root
                               /\ V = ever /\ W = ever'
  OBVIOUS
<1>3. Depths(d, root) /\ Frontier(fr, root, d, V) /\ V \subseteq W
  BY <1>1, <1>2 DEF FollowInv
<1>4. Frontier(fr, root, d, W)
  BY <1>3, FrontierStays
<1>5. QED
  BY <1>1, <1>2, <1>3, <1>4, FollowAfter

\* A path at the limit leaves its end open.
LEMMA PassWalks ==
    ASSUME SearchOk, FollowInv, Pass, Walking
    PROVE  /\ FollowInv'
           /\ Last(Head(search.frontier)) \in DOMAIN search.depth
           /\ search.depth[Last(Head(search.frontier))] >= Depth
           /\ Lasts(search.frontier) = Lasts(search'.frontier) \cup {Last(Head(search.frontier))}
<1>1. PICK fr, d, root : fr = search.frontier /\ d = search.depth /\ root = search.root
  OBVIOUS
<1>2. /\ search.stage = "follow" /\ fr # <<>> /\ TooDeep(Head(fr))
      /\ search'.frontier = Tail(fr) /\ search'.depth = d /\ search'.root = root
      /\ UNCHANGED <<ever, links, changes>>
  BY <1>1, PassDoes DEF Pass, Deep, Following, AtStage, Only, Fields, Searching
<1>3. /\ Depths(d, root) /\ Frontier(fr, root, d, ever)
      /\ changes = 0 => Exact(d, root, links) /\ Opened(fr, d, links)
  BY <1>1, <1>2 DEF FollowInv, AtStage
<1>4. PICK V : V = ever
  OBVIOUS
<1>5. Frontier(Tail(fr), root, d, V) /\ Lasts(fr) = Lasts(Tail(fr)) \cup {Last(Head(fr))}
  BY <1>2, <1>3, <1>4, FrontierShorter
<1>6. /\ Last(Head(fr)) \in DOMAIN d /\ d[Last(Head(fr))] = Len(Head(fr)) - 1
  BY <1>2, <1>3, <1>4, FirstIs
<1>7. d[Last(Head(fr))] >= Depth
  BY <1>2, <1>6 DEF TooDeep
<1>8. ASSUME NEW S, Opened(fr, d, S)
      PROVE  Opened(Tail(fr), d, S)
  BY <1>5, <1>7, <1>8 DEF Opened
<1>9. PICK t : t = Tail(fr)
  OBVIOUS
<1>10. FollowInv'
  BY <1>2, <1>3, <1>4, <1>5, <1>8, <1>9, FollowAfter
<1>11. QED
  BY <1>1, <1>2, <1>5, <1>6, <1>7, <1>10

\* The links of a note.
LinksOf(S, n) == {k \in S : n \in {k[1], k[2]}}

\* The note whose links are followed next, and what is new about them.
Heading(fr, d, root, last, new, l) ==
    /\ fr = search.frontier /\ d = search.depth /\ root = search.root
    /\ last = Last(Head(fr)) /\ new = Adjacent(links, last) \ DOMAIN d /\ l = Len(Head(fr))

LEMMA FollowWalks ==
    ASSUME GraphOk, SearchOk, FollowInv, Follow, Walking,
           NEW fr, NEW d, NEW root, NEW last, NEW new, NEW l, Heading(fr, d, root, last, new, l)
    PROVE  /\ FollowInv'
           /\ search.stage = "follow" /\ Only({"frontier", "depth", "edges"})
           /\ last \in DOMAIN d /\ d[last] = l - 1 /\ l - 1 < Depth /\ l \in Nat /\ Depths(d, root)
           /\ last \in Lasts(fr) /\ Lasts(fr) \subseteq DOMAIN d
           /\ search'.depth = Deepened(d, new, l)
           /\ Lasts(search'.frontier) = (Lasts(fr) \ {last}) \cup new
           /\ search'.edges =
                IF Kind("subgraph") THEN search.edges \cup LinksOf(links, last)
                ELSE search.edges
<1> /\ fr = search.frontier /\ d = search.depth /\ root = search.root
    /\ last = Last(Head(fr)) /\ new = Adjacent(links, last) \ DOMAIN d /\ l = Len(Head(fr))
  BY DEF Heading
<1>1. ~Kind("clusters")
  BY DEF Walking, Kind
<1>2. New = new
  BY <1>1 DEF New
<1>3. /\ Only({"frontier", "depth", "edges"})
      /\ search'.depth = Deepened(d, new, l)
      /\ search'.edges =
                IF Kind("subgraph") THEN search.edges \cup LinksOf(links, last)
                ELSE search.edges
  BY <1>2, FollowDoes DEF LinksOf
<1>4. PICK order \in SetToSeqs(new) : search'.frontier = Longer(fr, order)
  BY <1>2, FollowDoes
<1>5. /\ search.stage = "follow" /\ fr # <<>> /\ ~TooDeep(Head(fr)) /\ search'.root = root
      /\ UNCHANGED <<ever, links, changes>>
  BY <1>1, <1>3 DEF Follow, Deep, Following, AtStage, Only, Fields, Searching
<1>6. /\ Depths(d, root) /\ Frontier(fr, root, d, ever)
      /\ changes = 0 => Exact(d, root, links) /\ Opened(fr, d, links)
  BY <1>5 DEF FollowInv, AtStage
<1>7. PICK V, S : V = ever /\ S = links
  OBVIOUS
<1>8. S \subseteq V
  BY <1>7, Underway, <1>5 DEF GraphOk
<1>9. /\ new \in SUBSET Notes /\ new = Adjacent(S, Last(Head(fr))) \ DOMAIN d
      /\ \A x \in new : x \notin DOMAIN d /\ Joined(V, Last(Head(fr)), x)
  BY <1>7, <1>8 DEF Adjacent, Joined
<1>10. PICK longer : longer = Longer(fr, order)
  OBVIOUS
<1>11. /\ Frontier(longer, root, Deepened(d, new, l), V)
       /\ Lasts(longer) = (Lasts(fr) \ {last}) \cup new
  BY <1>5, <1>6, <1>7, <1>9, <1>10, FrontierLonger
<1>12. Depths(Deepened(d, new, l), root)
  BY <1>5, <1>6, <1>7, <1>9, DepthsGrow
<1>13. changes = 0 => Exact(Deepened(d, new, l), root, S) /\ Opened(longer, Deepened(d, new, l), S)
  BY <1>5, <1>6, <1>7, <1>9, <1>10, <1>11, ExactGrows
<1>14. PICK e : e = Deepened(d, new, l)
  OBVIOUS
<1>15. FollowInv'
  BY <1>3, <1>4, <1>5, <1>7, <1>10, <1>11, <1>12, <1>13, <1>14, FollowAfter
<1>16. last \in DOMAIN d /\ d[last] = l - 1 /\ l \in Nat /\ Lasts(fr) \subseteq DOMAIN d
       /\ DOMAIN fr = 1..Len(fr) /\ Head(fr) = fr[1] /\ 1 \in 1..Len(fr)
  BY <1>5, <1>6, <1>7, FirstIs
<1>17. last \in Lasts(fr)
  BY <1>16 DEF Lasts
<1>18. l - 1 < Depth
  BY <1>5, <1>16, Numbers DEF TooDeep
<1>19. QED
  BY <1>3, <1>4, <1>5, <1>6, <1>10, <1>11, <1>15, <1>16, <1>17, <1>18

(***************************************************************************)
(* The subgraph.  Its links are those of the notes that were followed.     *)
(***************************************************************************)
Near(d, root, E) ==
    /\ \A n \in DOMAIN d : n # root => \E m \in Adjacent(E, n) \cap DOMAIN d : d[n] = d[m] + 1
    /\ Ends(E) \subseteq DOMAIN d

\* F: the notes yet to be followed.
Touched(S, d, F) == {k \in S : \E m \in {k[1], k[2]} : m \in DOMAIN d /\ m \notin F /\ d[m] < Depth}

Whole(d, root, E, S) ==
    /\ DOMAIN d = Ball(S, root)[Depth]
    /\ \A n \in DOMAIN d : n \in Ball(S, root)[d[n]] /\ (d[n] > 0 => n \notin Ball(S, root)[d[n] - 1])
    /\ E = {k \in S : {k[1], k[2]} \cap Ball(S, root)[Depth - 1] # {}}

SubgraphInv ==
    Kind("subgraph") =>
      /\ Near(search.depth, search.root, search.edges)
      /\ AtStage("follow") /\ changes = 0 =>
           /\ DOMAIN search.depth \subseteq kept
           /\ search.edges = Touched(links, search.depth, Lasts(search.frontier))
      /\ AtStage("done") /\ changes = 0 =>
           /\ Whole(search.depth, search.root, search.edges, links)
           /\ search.seen = DOMAIN search.depth

LEMMA SubgraphSteps ==
    ASSUME GraphOk, SearchOk, GraphNext, Kind("subgraph")
    PROVE  Pass \/ Follow \/ Exhausted \/ Disturbed
<1>1. search # NoSearch /\ search.stage \in {"follow", "done"}
      /\ search.kind = "subgraph" /\ Kind("subgraph")
  BY Underway DEF Kind, Stages, Kinds
<1>2. \A k \in Kinds : \A n, to \in Notes : ~Begin(k, n, to)
  BY <1>1 DEF Begin
<1>3. ~Arrived /\ ~HopsDone
  BY <1>1 DEF Arrived, HopsDone, AtStage, Kind
<1>4. (\A h \in Notes \X Notes : ~Hop(h)) /\ (\A n \in Notes : ~NextCluster(n))
  BY <1>1 DEF Hop, NextCluster, AtStage, Kind
<1>5. /\ ~ReadLinks /\ ~ClustersDone /\ ~ReadLinked /\ ~ReadNames /\ ~NoneClose /\ ~FetchClose
      /\ ~RelatedDone /\ ~FullNotes /\ ~FullLinks
  BY <1>1 DEF ReadLinks, ClustersDone, ReadLinked, ReadNames, NoneClose, FetchClose, RelatedDone,
       FullNotes, FullLinks, AtStage, Kind
<1>6. \A order : ~FindClose(order)
  BY <1>1 DEF FindClose, AtStage
<1>7. QED
  BY <1>2, <1>3, <1>4, <1>5, <1>6, DisturbedDoes DEF GraphNext

LEMMA TouchedGrows ==
    ASSUME NEW S, NEW d, NEW F, NEW last, NEW new, NEW l,
           last \in DOMAIN d, d[last] < Depth, \A x \in new : x \notin DOMAIN d
    PROVE  Touched(S, Deepened(d, new, l), (F \ {last}) \cup new)
             = Touched(S, d, F) \cup LinksOf(S, last)
<1> DEFINE e == Deepened(d, new, l)
           G == (F \ {last}) \cup new
<1>1. DOMAIN e = new \cup DOMAIN d /\ \A m \in DOMAIN d : e[m] = d[m]
  BY DEF Deepened
<1> HIDE DEF e
<1>2. \A m : (m \in DOMAIN e /\ m \notin G /\ e[m] < Depth)
               <=> (m \in DOMAIN d /\ (m \notin F \/ m = last) /\ d[m] < Depth)
  <2> TAKE m
  <2>1. CASE m \in DOMAIN d
    BY <1>1, <2>1
  <2>2. CASE m \notin DOMAIN d
    BY <1>1, <2>2
  <2>3. QED
    BY <2>1, <2>2
<1>3. \A k : (\E m \in {k[1], k[2]} : m \in DOMAIN e /\ m \notin G /\ e[m] < Depth)
               <=> ((\E m \in {k[1], k[2]} : m \in DOMAIN d /\ m \notin F /\ d[m] < Depth)
                    \/ last \in {k[1], k[2]})
  BY <1>2
<1> HIDE DEF G
<1>4. QED
  BY <1>3 DEF Touched, LinksOf, e, G

LEMMA NearGrows ==
    ASSUME NEW S \in SUBSET (Notes \X Notes), NEW d, NEW root, NEW E, Near(d, root, E),
           NEW last, last \in DOMAIN d, last \in Notes,
           NEW new, new = Adjacent(S, last) \ DOMAIN d, NEW l \in Nat, d[last] = l - 1
    PROVE  Near(Deepened(d, new, l), root, E \cup LinksOf(S, last))
<1> DEFINE e == Deepened(d, new, l)
           H == E \cup LinksOf(S, last)
<1>1. /\ DOMAIN e = new \cup DOMAIN d /\ (\A m \in DOMAIN d : e[m] = d[m])
      /\ \A x \in new : e[x] = l
  BY DEF Deepened
<1> HIDE DEF e
<1>2. Ends(H) \subseteq DOMAIN e
  <2>1. \A k \in S : last \in {k[1], k[2]} => {k[1], k[2]} \subseteq Adjacent(S, last) \cup {last}
    BY DEF Adjacent
  <2>2. Adjacent(S, last) \cup {last} \subseteq DOMAIN e
    BY <1>1
  <2>3. Ends(E) \subseteq DOMAIN e
    BY <1>1 DEF Near
  <2>4. QED
    BY <2>1, <2>2, <2>3 DEF Ends, LinksOf
<1>3. ASSUME NEW n \in new
      PROVE  last \in Adjacent(H, n) \cap DOMAIN e /\ e[n] = e[last] + 1
  <2>1. n \in Notes /\ (<<last, n>> \in S \/ <<n, last>> \in S)
    BY <1>3 DEF Adjacent
  <2>2. <<last, n>> \in H \/ <<n, last>> \in H
    BY <2>1 DEF LinksOf
  <2>3. last \in Adjacent(H, n)
    BY <2>2 DEF Adjacent
  <2>4. e[n] = l /\ e[last] = l - 1 /\ last \in DOMAIN e
    BY <1>1, <1>3
  <2>5. QED
    BY <2>3, <2>4
<1>4. ASSUME NEW n \in DOMAIN d, n # root
      PROVE  \E m \in Adjacent(H, n) \cap DOMAIN e : e[n] = e[m] + 1
  <2>1. PICK m \in Adjacent(E, n) \cap DOMAIN d : d[n] = d[m] + 1
    BY <1>4 DEF Near
  <2>2. Adjacent(E, n) \subseteq Adjacent(H, n)
    BY AdjacentGrows
  <2>3. QED
    BY <1>1, <2>1, <2>2
<1>5. Near(e, root, H)
  <2> HIDE DEF H
  <2>1. QED
    BY <1>1, <1>2, <1>3, <1>4 DEF Near
<1>6. QED
  BY <1>5 DEF e

\* When nothing is left to follow the subgraph is what lies within the depth.
LEMMA WholeIs ==
    ASSUME NEW d, NEW root, NEW S, Depths(d, root), Exact(d, root, S), Opened(<<>>, d, S)
    PROVE  Whole(d, root, Touched(S, d, {}), S)
<1> DEFINE b == Ball(S, root)
<1>1. \A m \in DOMAIN d : d[m] \in 0..Depth /\ d[m] \in Nat
  BY DEF Depths
<1>2. Lasts(<<>>) = {}
  BY DEF Lasts
<1>3. Depth \in 0..Depth /\ Depth - 1 \in 0..Depth /\ Depth \in 0..Farthest /\ Depth - 1 \in 0..Farthest
      /\ Depth \in Nat
  BY Numbers
<1>4. b[Depth] \subseteq DOMAIN d
  <2>1. \A m \in Lasts(<<>>) : m \in DOMAIN d => d[m] >= Depth
    BY <1>2
  <2>2. QED
    BY <1>3, <2>1, Reached
<1>5. ASSUME NEW m \in DOMAIN d
      PROVE  m \in b[Depth] /\ (d[m] < Depth => m \in b[Depth - 1])
  <2>1. m \in b[d[m]] /\ d[m] \in 0..Depth
    BY <1>1 DEF Exact
  <2>2. m \in b[Depth]
    BY <1>3, <2>1, BallGrows
  <2>3. d[m] < Depth => d[m] \in 0..(Depth - 1)
    BY <1>1, <1>3
  <2>4. QED
    BY <1>3, <2>1, <2>2, <2>3, BallGrows
<1>6. \A m \in b[Depth - 1] : m \in DOMAIN d /\ d[m] < Depth
  <2> TAKE m \in b[Depth - 1]
  <2>1. Depth - 1 \in 0..Depth
    BY <1>3
  <2>2. m \in DOMAIN d
    BY <1>3, <1>4, <2>1, BallGrows
  <2>3. d[m] <= Depth - 1
    BY <1>3, <2>2 DEF Exact
  <2>4. QED
    BY <1>1, <1>3, <2>2, <2>3
<1>7. ASSUME NEW n \in DOMAIN d
      PROVE  n \in b[d[n]] /\ (d[n] > 0 => n \notin b[d[n] - 1])
  <2>1. n \in b[d[n]] /\ \A k \in 0..Depth : n \in b[k] => d[n] <= k
    BY DEF Exact
  <2>2. d[n] \in 0..Depth
    BY <1>1
  <2>3. d[n] > 0 => d[n] - 1 \in 0..Depth /\ ~(d[n] <= d[n] - 1)
    BY <1>3, <2>2
  <2>4. QED
    BY <2>1, <2>3
<1>8. \A m : (m \in DOMAIN d /\ m \notin {} /\ d[m] < Depth) <=> m \in b[Depth - 1]
  BY <1>5, <1>6
<1>9. Touched(S, d, {}) = {k \in S : {k[1], k[2]} \cap b[Depth - 1] # {}}
  BY <1>8 DEF Touched
<1>10. QED
  BY <1>4, <1>5, <1>7, <1>9 DEF Whole

LEMMA SubgraphStep ==
    ASSUME GraphOk, SearchOk, FollowInv, SubgraphInv, GraphNext, Kind("subgraph")
    PROVE  FollowInv' /\ SubgraphInv'
<1>1. /\ search # NoSearch /\ DOMAIN search = Fields /\ search.kind = "subgraph" /\ changes \in Nat
      /\ links \in SUBSET (Notes \X Notes) /\ Ends(links) \subseteq kept /\ Walking
  BY Underway DEF Kind, GraphOk, Walking
<1>2. PICK fr, d, root, E, S : /\ fr = search.frontier /\ d = search.depth /\ root = search.root
                               /\ E = search.edges /\ S = links
  OBVIOUS
<1>3. Near(d, root, E)
  BY <1>2 DEF SubgraphInv
<1>4. CASE Pass
  <2>1. PICK last : last = Last(Head(fr))
    OBVIOUS
  <2>2. /\ search.stage = "follow" /\ search'.stage = "follow" /\ search'.kind = "subgraph"
        /\ search'.depth = d /\ search'.root = root /\ search'.edges = E
        /\ UNCHANGED <<kept, links, changes>>
    BY <1>1, <1>2, <1>4, PassDoes DEF Pass, Following, AtStage, Only, Fields, Searching
  <2>3. FollowInv' /\ last \in DOMAIN d /\ d[last] >= Depth
        /\ Lasts(fr) = Lasts(search'.frontier) \cup {last}
    BY <1>1, <1>2, <1>4, <2>1, PassWalks
  <2>4. Depths(d, root)
    BY <1>1, <1>2, <2>2 DEF FollowInv, AtStage
  <2>5. ~(d[last] < Depth)
    <3>1. d[last] \in Nat /\ Depth \in Nat
      BY <2>3, <2>4, Numbers DEF Depths
    <3>2. QED
      BY <2>3, <3>1
  <2>6. Touched(S, d, Lasts(fr)) = Touched(S, d, Lasts(search'.frontier))
    BY <2>3, <2>5 DEF Touched
  <2>7. QED
    BY <1>2, <1>3, <2>2, <2>3, <2>6 DEF SubgraphInv, AtStage
<1>5. CASE Follow
  <2>1. PICK last, l : last = Last(Head(fr)) /\ l = Len(Head(fr))
    OBVIOUS
  <2>2. PICK new : new = Adjacent(S, last) \ DOMAIN d
    OBVIOUS
  <2>3. PICK D : D = Deepened(d, new, l)
    OBVIOUS
  <2>4. /\ FollowInv'
        /\ search.stage = "follow" /\ Only({"frontier", "depth", "edges"})
        /\ last \in DOMAIN d /\ d[last] = l - 1 /\ l - 1 < Depth /\ l \in Nat /\ Depths(d, root)
        /\ last \in Lasts(fr) /\ Lasts(fr) \subseteq DOMAIN d
        /\ search'.depth = D
        /\ Lasts(search'.frontier) = (Lasts(fr) \ {last}) \cup new
        /\ search'.edges = E \cup LinksOf(S, last)
    <3>1. Heading(fr, d, root, last, new, l)
      BY <1>2, <2>1, <2>2 DEF Heading
    <3>2. /\ FollowInv'
          /\ search.stage = "follow" /\ Only({"frontier", "depth", "edges"})
          /\ last \in DOMAIN d /\ d[last] = l - 1 /\ l - 1 < Depth /\ l \in Nat /\ Depths(d, root)
          /\ last \in Lasts(fr) /\ Lasts(fr) \subseteq DOMAIN d
          /\ search'.depth = Deepened(d, new, l)
          /\ Lasts(search'.frontier) = (Lasts(fr) \ {last}) \cup new
          /\ search'.edges =
                IF Kind("subgraph") THEN search.edges \cup LinksOf(links, last)
                ELSE search.edges
      BY <1>1, <1>5, <3>1, FollowWalks
    <3>3. QED
      BY <1>2, <2>3, <3>2
  <2>5. /\ search'.stage = "follow" /\ search'.kind = "subgraph" /\ search'.root = root
        /\ UNCHANGED <<kept, links, changes>>
    BY <1>1, <1>2, <2>4 DEF Only, Fields, Searching
  <2>6. last \in Notes
    BY <2>4 DEF Depths
  <2>7. S \in SUBSET (Notes \X Notes)
    BY <1>1, <1>2
  <2>8. Near(D, root, search'.edges)
    BY <1>3, <2>2, <2>3, <2>4, <2>6, <2>7, NearGrows
  <2>9. DOMAIN d \subseteq kept => DOMAIN D \subseteq kept
    <3>1. Adjacent(S, last) \subseteq kept
      BY <1>1, <1>2 DEF Adjacent, Ends
    <3>2. DOMAIN D = new \cup DOMAIN d
      BY <2>3 DEF Deepened
    <3>3. QED
      BY <2>2, <3>1, <3>2
  <2>10. E = Touched(S, d, Lasts(fr)) => search'.edges = Touched(S, D, Lasts(search'.frontier))
    <3>1. PICK F : F = Lasts(fr)
      OBVIOUS
    <3>2. last \in DOMAIN d /\ d[last] < Depth /\ \A x \in new : x \notin DOMAIN d
      BY <2>2, <2>4
    <3>3. Touched(S, D, (F \ {last}) \cup new) = Touched(S, d, F) \cup LinksOf(S, last)
      BY <2>3, <3>2, TouchedGrows
    <3>4. QED
      BY <2>4, <3>1, <3>3
  <2>11. QED
    BY <1>1, <1>2, <2>4, <2>5, <2>8, <2>9, <2>10 DEF SubgraphInv, AtStage
<1>6. CASE Exhausted
  <2>1. /\ search.stage = "follow" /\ fr = <<>> /\ search'.stage = "done" /\ search'.kind = "subgraph"
        /\ search'.depth = d /\ search'.root = root /\ search'.edges = E
        /\ search'.seen = DOMAIN d \cap kept /\ UNCHANGED <<links, changes>>
    BY <1>1, <1>2, <1>6 DEF Exhausted, Fields, AtStage, Searching, Kind
  <2>2. /\ Depths(d, root)
        /\ changes = 0 => /\ Exact(d, root, S) /\ Opened(<<>>, d, S) /\ DOMAIN d \subseteq kept
                          /\ E = Touched(S, d, Lasts(<<>>))
    BY <1>1, <1>2, <2>1 DEF FollowInv, SubgraphInv, AtStage
  <2>3. Lasts(<<>>) = {}
    BY DEF Lasts
  <2>4. ASSUME changes = 0
        PROVE  Whole(d, root, E, S) /\ search'.seen = DOMAIN d
    <3>1. Whole(d, root, Touched(S, d, {}), S)
      BY <2>2, <2>4, WholeIs
    <3>2. E = Touched(S, d, {})
      BY <2>2, <2>3, <2>4
    <3>3. search'.seen = DOMAIN d
      BY <2>1, <2>2, <2>4
    <3>4. QED
      BY <3>1, <3>2, <3>3
  <2>5. FollowInv'
    BY <2>1 DEF FollowInv, AtStage
  <2>6. QED
    BY <1>2, <1>3, <2>1, <2>4, <2>5 DEF SubgraphInv, AtStage
<1>7. CASE Disturbed
  <2>1. UNCHANGED search /\ changes' # 0
    BY <1>7 DEF Disturbed
  <2>2. SubgraphInv'
    BY <1>2, <1>3, <2>1 DEF SubgraphInv
  <2>3. QED
    BY <1>7, <2>2, FollowDisturbed
<1>8. QED
  BY <1>4, <1>5, <1>6, <1>7, SubgraphSteps

LEMMA SubgraphHolds ==
    ASSUME SubgraphInv
    PROVE  SubgraphTrue
<1> SUFFICES ASSUME Done("subgraph")
             PROVE  SubgraphTrue
  BY DEF SubgraphTrue
<1>1. /\ Near(search.depth, search.root, search.edges)
      /\ changes = 0 => /\ Whole(search.depth, search.root, search.edges, links)
                        /\ search.seen = DOMAIN search.depth
  BY DEF SubgraphInv, Done
<1>2. QED
  BY <1>1 DEF SubgraphTrue, Near, Whole

(***************************************************************************)
(* A path that is found, and the links found for its hops.                 *)
(***************************************************************************)
Route(p, root, to, V) ==
    /\ p \in Seq(Notes) /\ Len(p) >= 2 /\ Len(p) - 1 <= Depth
    /\ p[1] = root /\ Last(p) = to
    /\ \A i, j \in 1..Len(p) : p[i] = p[j] => i = j
    /\ \A i \in 1..(Len(p) - 1) : Joined(V, p[i], p[i + 1])

Turned(h) == <<h[2], h[1]>>

\* H: the hops asked for, E: the links found, one for each.
Asked(p, H, E) ==
    /\ H \subseteq Hops(p) /\ IsFiniteSet(H) /\ IsFiniteSet(E) /\ Cardinality(E) = Cardinality(H)
    /\ \A k \in E : k \in H \/ Turned(k) \in H

LEMMA RouteStays ==
    ASSUME NEW p, NEW root, NEW to, NEW V, NEW W, Route(p, root, to, V), V \subseteq W
    PROVE  Route(p, root, to, W)
BY DEF Route, Joined

LEMMA RouteIs ==
    ASSUME NEW p, NEW root, NEW d, NEW V, PathOk(p, root, d, V), NEW to \in Notes, to \notin DOMAIN d,
           Joined(V, Last(p), to), ~TooDeep(p)
    PROVE  Route(Append(p, to), root, to, V) /\ Len(Append(p, to)) - 2 = Len(p) - 1
<1>1. PICK e : e = Deepened(d, {to}, Len(p))
  OBVIOUS
<1>2. DOMAIN d \subseteq DOMAIN e /\ to \in DOMAIN e /\ e[to] = Len(p)
  BY <1>1 DEF Deepened
<1>3. PICK q : q = Append(p, to)
  OBVIOUS
<1>4. PathOk(q, root, e, V)
  BY <1>2, <1>3, PathGrows
<1>5. p \in Seq(Notes) /\ Len(p) \in Nat /\ Len(p) >= 1
  BY DEF PathOk
<1>6. Len(q) = Len(p) + 1 /\ Last(q) = to
  BY <1>3, <1>5, LastIs, AppendProperties
<1>7. Len(q) >= 2 /\ Len(q) - 1 <= Depth /\ Len(q) - 2 = Len(p) - 1
  BY <1>5, <1>6, Numbers DEF TooDeep
<1>8. Route(q, root, to, V)
  BY <1>4, <1>6, <1>7 DEF Route, PathOk
<1>9. QED
  BY <1>3, <1>7, <1>8

LEMMA RouteHops ==
    ASSUME NEW p, NEW root, NEW to, NEW V, Route(p, root, to, V)
    PROVE  /\ IsFiniteSet(Hops(p)) /\ Cardinality(Hops(p)) = Len(p) - 1
           /\ \A h \in Hops(p) : /\ h = <<h[1], h[2]>> /\ Turned(h) \notin Hops(p)
                                 /\ Turned(Turned(h)) = h
                                 /\ h \in V \/ Turned(h) \in V
<1> DEFINE N == Len(p) - 1
           g == [i \in 1..N |-> <<p[i], p[i + 1]>>]
<1>1. p \in Seq(Notes) /\ Len(p) \in Nat /\ N \in Nat /\ N >= 1 /\ Len(p) = N + 1
  BY DEF Route
<1>2. Hops(p) = {<<p[i], p[i + 1]>> : i \in 1..N}
  BY DEF Hops
<1> HIDE DEF N
<1>3. \A i \in 1..N : i \in 1..Len(p) /\ i + 1 \in 1..Len(p) /\ i \in Int
  BY <1>1
<1>4. \A i, j \in 1..Len(p) : p[i] = p[j] => i = j
  BY DEF Route
<1>5. g \in Bijection(1..N, Hops(p))
  <2>1. g \in [1..N -> Hops(p)]
    BY <1>2
  <2>2. \A i, j \in 1..N : g[i] = g[j] => i = j
    BY <1>3, <1>4
  <2>3. \A h \in Hops(p) : \E i \in 1..N : g[i] = h
    BY <1>2
  <2>4. QED
    BY <2>1, <2>2, <2>3 DEF Bijection, Injection, Surjection, IsInjective
<1>6. IsFiniteSet(Hops(p)) /\ Cardinality(Hops(p)) = N
  <2>1. N \in Nat /\ ExistsBijection(1..N, Hops(p))
    BY <1>1, <1>5 DEF ExistsBijection, N
  <2>2. QED
    BY <2>1, FS_CountingElements, FS_NatBijection
<1>7. ASSUME NEW h \in Hops(p)
      PROVE  /\ h = <<h[1], h[2]>> /\ Turned(h) \notin Hops(p) /\ Turned(Turned(h)) = h
             /\ h \in V \/ Turned(h) \in V
  <2>1. PICK i \in 1..N : h = <<p[i], p[i + 1]>>
    BY <1>2
  <2>2. Turned(h) = <<p[i + 1], p[i]>> /\ Turned(Turned(h)) = h /\ h = <<h[1], h[2]>>
    BY <2>1 DEF Turned
  <2>3. ASSUME NEW j \in 1..N, <<p[i + 1], p[i]>> = <<p[j], p[j + 1]>>
        PROVE  FALSE
    <3>1. p[i + 1] = p[j] /\ p[i] = p[j + 1]
      BY <2>3
    <3>2. i + 1 = j /\ i = j + 1
      BY <1>3, <1>4, <3>1
    <3>3. QED
      BY <1>3, <3>2
  <2>4. Turned(h) \notin Hops(p)
    BY <1>2, <2>2, <2>3
  <2>5. Joined(V, p[i], p[i + 1])
    BY DEF Route, N
  <2>6. QED
    BY <2>1, <2>2, <2>4, <2>5 DEF Joined
<1>8. QED
  BY <1>6, <1>7 DEF N

LEMMA AskedGrows ==
    ASSUME NEW p, NEW root, NEW to, NEW V, Route(p, root, to, V), NEW H, NEW E, Asked(p, H, E),
           NEW h \in Hops(p), h \notin H, NEW k \in {h, Turned(h)}
    PROVE  Asked(p, H \cup {h}, E \cup {k})
<1>1. \A x \in Hops(p) : Turned(x) \notin Hops(p) /\ Turned(Turned(x)) = x
  BY RouteHops
<1>2. k \notin E
  <2> SUFFICES ASSUME k \in E
               PROVE  FALSE
    OBVIOUS
  <2>1. k \in H \/ Turned(k) \in H
    BY DEF Asked
  <2>2. k \in Hops(p) \/ Turned(k) \in Hops(p)
    BY <2>1 DEF Asked
  <2>3. CASE k = h
    <3>1. Turned(h) \in H /\ Turned(h) \in Hops(p)
      BY <2>1, <2>3 DEF Asked
    <3>2. QED
      BY <1>1, <3>1
  <2>4. CASE k = Turned(h)
    <3>1. Turned(k) = h /\ k \notin Hops(p)
      BY <1>1, <2>4
    <3>2. k \in H
      BY <2>1, <3>1
    <3>3. QED
      BY <3>1, <3>2 DEF Asked
  <2>5. QED
    BY <2>3, <2>4
<1>3. /\ IsFiniteSet(H \cup {h}) /\ Cardinality(H \cup {h}) = Cardinality(H) + 1
      /\ IsFiniteSet(E \cup {k}) /\ Cardinality(E \cup {k}) = Cardinality(E) + 1
  BY <1>2, FS_AddElement DEF Asked
<1>4. k \in H \cup {h} \/ Turned(k) \in H \cup {h}
  BY <1>1
<1>5. QED
  BY <1>3, <1>4 DEF Asked

PathInv ==
    Kind("path") =>
      /\ AtStage("follow") => /\ search.edges = {} /\ search.seen = {} /\ search.result = <<>>
                              /\ search.to = search.root \/ search.to \notin DOMAIN search.depth
      /\ AtStage("hops") => /\ search.result # <<>>
                            /\ changes = 0 => Asked(search.result, search.seen, search.edges)
      /\ search.stage \in {"hops", "done"} /\ search.result # <<>> =>
           /\ Route(search.result, search.root, search.to, ever)
           /\ changes = 0 => search.to \notin Ball(links, search.root)[Len(search.result) - 2]
      /\ AtStage("done") /\ changes = 0 =>
           IF search.result = <<>>
             THEN search.to \notin Ball(links, search.root)[Depth] \/ search.to = search.root
             ELSE Cardinality(search.edges) = Len(search.result) - 1

LEMMA PathSteps ==
    ASSUME GraphOk, SearchOk, GraphNext, Kind("path")
    PROVE  \/ Pass \/ Follow \/ Arrived \/ HopsDone \/ Exhausted \/ (\E h \in Notes \X Notes : Hop(h))
           \/ Disturbed
<1>1. search # NoSearch /\ search.stage \in {"follow", "hops", "done"}
      /\ search.kind = "path" /\ Kind("path")
  BY Underway DEF Kind, Stages, Kinds
<1>2. \A k \in Kinds : \A n, to \in Notes : ~Begin(k, n, to)
  BY <1>1 DEF Begin
<1>3. \A n \in Notes : ~NextCluster(n)
  BY <1>1 DEF NextCluster, Kind
<1>4. /\ ~ReadLinks /\ ~ClustersDone /\ ~ReadLinked /\ ~ReadNames /\ ~NoneClose /\ ~FetchClose
      /\ ~RelatedDone /\ ~FullNotes /\ ~FullLinks
  BY <1>1 DEF ReadLinks, ClustersDone, ReadLinked, ReadNames, NoneClose, FetchClose, RelatedDone,
       FullNotes, FullLinks, AtStage, Kind
<1>5. \A order : ~FindClose(order)
  BY <1>1 DEF FindClose, AtStage
<1>6. QED
  BY <1>2, <1>3, <1>4, <1>5, DisturbedDoes DEF GraphNext

\* A search for a path after it was found to be p.
LEMMA FoundAfter ==
    ASSUME NEW p, NEW root, NEW to, NEW H, NEW E,
           search'.kind = "path", search'.stage \in {"hops", "done"}, search'.result = p,
           search'.root = root, search'.to = to, search'.seen = H, search'.edges = E,
           p # <<>>, Route(p, root, to, ever'),
           changes' = 0 => /\ to \notin Ball(links', root)[Len(p) - 2]
                           /\ search'.stage = "hops" => Asked(p, H, E)
                           /\ search'.stage = "done" => Cardinality(E) = Len(p) - 1
    PROVE  PathInv' /\ FollowInv'
BY DEF PathInv, FollowInv, AtStage

LEMMA ArrivedStep ==
    ASSUME GraphOk, SearchOk, FollowInv, PathInv, Arrived
    PROVE  PathInv' /\ FollowInv'
<1>1. PICK fr, d, root, to, V, S : /\ fr = search.frontier /\ d = search.depth /\ root = search.root
                                   /\ to = search.to /\ V = ever /\ S = links
  OBVIOUS
<1>2. PICK p : p = Head(fr)
  OBVIOUS
<1>3. PICK q : q = Append(p, to)
  OBVIOUS
<1>4. /\ search.stage = "follow" /\ Kind("path") /\ fr # <<>> /\ ~TooDeep(p)
      /\ to \in Adjacent(S, Last(p)) /\ to \notin DOMAIN d
  BY <1>1, <1>2 DEF Arrived, Following, Deep, AtStage, Kind
<1>5. search # NoSearch /\ DOMAIN search = Fields /\ search.kind = "path" /\ to \in Notes
  BY <1>1, <1>4, Underway DEF Kind
<1>6. /\ search'.kind = "path" /\ search'.stage = "hops" /\ search'.result = q /\ search'.root = root
      /\ search'.to = to /\ search'.seen = search.seen /\ search'.edges = search.edges
      /\ UNCHANGED <<links, ever, changes>>
  BY <1>1, <1>2, <1>3, <1>5 DEF Arrived, Fields, Searching
<1>7. search.seen = {} /\ search.edges = {}
  BY <1>4 DEF PathInv, AtStage
<1>8. /\ Depths(d, root) /\ Frontier(fr, root, d, V)
      /\ changes = 0 => Exact(d, root, S) /\ Opened(fr, d, S)
  BY <1>1, <1>4 DEF FollowInv, AtStage, Walking
<1>9. /\ PathOk(p, root, d, V) /\ Len(p) \in Nat /\ Len(p) >= 1
      /\ \A m \in Lasts(fr) : d[m] >= Len(p) - 1
  BY <1>2, <1>4, <1>8, FirstIs
<1>10. Joined(V, Last(p), to)
  <2>1. S \subseteq V
    BY <1>1, <1>5 DEF GraphOk
  <2>2. QED
    BY <1>4, <2>1 DEF Adjacent, Joined
<1>11. Route(q, root, to, V) /\ Len(q) - 2 = Len(p) - 1
  BY <1>3, <1>4, <1>5, <1>9, <1>10, RouteIs
<1>12. changes = 0 => to \notin Ball(S, root)[Len(q) - 2]
  <2> SUFFICES ASSUME changes = 0
               PROVE  to \notin Ball(S, root)[Len(p) - 1]
    BY <1>11
  <2>1. Len(p) - 1 \in 0..Depth
    BY <1>4, <1>9, Numbers DEF TooDeep
  <2>2. Ball(S, root)[Len(p) - 1] \subseteq DOMAIN d
    BY <1>8, <1>9, <2>1, Reached
  <2>3. QED
    BY <1>4, <2>2
<1>13. Asked(q, {}, {})
  BY FS_EmptySet DEF Asked
<1>14. q # <<>>
  BY <1>11 DEF Route
<1>15. QED
  BY <1>1, <1>6, <1>7, <1>11, <1>12, <1>13, <1>14, FoundAfter

LEMMA HopStep ==
    ASSUME GraphOk, SearchOk, PathInv, NEW h \in Notes \X Notes, Hop(h)
    PROVE  PathInv' /\ FollowInv'
<1>1. search.stage = "hops" /\ search # NoSearch /\ DOMAIN search = Fields /\ search.kind = "path"
      /\ Kind("path")
  BY Underway DEF Hop, AtStage, Stages, Kinds, Kind
<1>2. PICK p, root, to, H, E, V, S :
         /\ p = search.result /\ root = search.root /\ to = search.to /\ H = search.seen
         /\ E = search.edges /\ V = ever /\ S = links
  OBVIOUS
<1>3. h \in Hops(p) /\ h \notin H
  BY <1>2 DEF Hop
<1>4. PICK found : found = {l \in links : l \in {h, <<h[2], h[1]>>}}
  OBVIOUS
<1>5. PICK some \in IF found = {} THEN {{}} ELSE {{l} : l \in found} :
         search' = [search EXCEPT !.seen = search.seen \cup {h}, !.edges = search.edges \cup some]
  BY <1>4 DEF Hop
<1>6. /\ search'.kind = "path" /\ search'.stage = "hops" /\ search'.result = p /\ search'.root = root
      /\ search'.to = to /\ search'.seen = H \cup {h} /\ search'.edges = E \cup some
      /\ UNCHANGED <<links, ever, changes>>
  <2>1. UNCHANGED <<links, ever, changes>>
    BY DEF Hop, Searching
  <2>2. QED
    BY <1>1, <1>2, <1>5, <2>1 DEF Fields
<1>7. /\ p # <<>> /\ Route(p, root, to, V)
      /\ changes = 0 => to \notin Ball(S, root)[Len(p) - 2] /\ Asked(p, H, E)
  BY <1>1, <1>2 DEF PathInv, AtStage
<1>8. ASSUME changes = 0
      PROVE  Asked(p, H \cup {h}, E \cup some)
  <2>1. V = S
    BY <1>1, <1>2, <1>8 DEF GraphOk
  <2>2. h \in S \/ Turned(h) \in S
    BY <1>3, <1>7, <2>1, RouteHops
  <2>3. found # {}
    BY <1>2, <1>4, <2>2 DEF Turned
  <2>4. PICK k \in found : some = {k}
    BY <1>5, <2>3
  <2>5. k \in {h, Turned(h)}
    BY <1>4, <2>4 DEF Turned
  <2>6. Asked(p, H \cup {h}, E \cup {k})
    BY <1>3, <1>7, <1>8, <2>5, AskedGrows
  <2>7. QED
    BY <2>4, <2>6
<1>9. PICK I, F : I = H \cup {h} /\ F = E \cup some
  OBVIOUS
<1>10. QED
  BY <1>2, <1>6, <1>7, <1>8, <1>9, FoundAfter

LEMMA HopsDoneStep ==
    ASSUME GraphOk, SearchOk, PathInv, HopsDone
    PROVE  PathInv' /\ FollowInv'
<1>1. search.stage = "hops" /\ search # NoSearch /\ DOMAIN search = Fields /\ search.kind = "path"
      /\ Kind("path")
  BY Underway DEF HopsDone, AtStage, Stages, Kinds, Kind
<1>2. PICK p, root, to, H, E, V, S :
         /\ p = search.result /\ root = search.root /\ to = search.to /\ H = search.seen
         /\ E = search.edges /\ V = ever /\ S = links
  OBVIOUS
<1>3. /\ Hops(p) \subseteq H
      /\ search'.kind = "path" /\ search'.stage = "done" /\ search'.result = p /\ search'.root = root
      /\ search'.to = to /\ search'.seen = H /\ search'.edges = E
      /\ UNCHANGED <<links, ever, changes>>
  BY <1>1, <1>2 DEF HopsDone, Fields, Searching
<1>4. /\ p # <<>> /\ Route(p, root, to, V)
      /\ changes = 0 => to \notin Ball(S, root)[Len(p) - 2] /\ Asked(p, H, E)
  BY <1>1, <1>2 DEF PathInv, AtStage
<1>5. changes = 0 => Cardinality(E) = Len(p) - 1
  <2> SUFFICES ASSUME changes = 0
               PROVE  Cardinality(E) = Len(p) - 1
    OBVIOUS
  <2>1. H = Hops(p) /\ Cardinality(E) = Cardinality(H)
    BY <1>3, <1>4 DEF Asked
  <2>2. Cardinality(Hops(p)) = Len(p) - 1
    BY <1>4, RouteHops
  <2>3. QED
    BY <2>1, <2>2
<1>6. QED
  BY <1>2, <1>3, <1>4, <1>5, FoundAfter

LEMMA PathStep ==
    ASSUME GraphOk, SearchOk, FollowInv, PathInv, GraphNext, Kind("path")
    PROVE  FollowInv' /\ PathInv'
<1>1. /\ search # NoSearch /\ DOMAIN search = Fields /\ search.kind = "path" /\ changes \in Nat
      /\ Walking /\ ~Kind("subgraph")
  BY Underway DEF Kind, GraphOk, Walking
<1>2. CASE Pass
  <2>1. /\ search.stage = "follow" /\ search'.stage = "follow" /\ search'.kind = "path"
        /\ search'.depth = search.depth /\ search'.root = search.root /\ search'.to = search.to
        /\ search'.edges = search.edges /\ search'.seen = search.seen /\ search'.result = search.result
    BY <1>1, <1>2, PassDoes DEF Pass, Following, AtStage, Only, Fields
  <2>2. FollowInv'
    BY <1>1, <1>2, PassWalks
  <2>3. QED
    BY <1>1, <2>1, <2>2 DEF PathInv, AtStage
<1>3. CASE Follow
  <2>1. PICK fr, d, root, last, new, l : Heading(fr, d, root, last, new, l)
    BY DEF Heading
  <2>2. /\ FollowInv' /\ search.stage = "follow" /\ Only({"frontier", "depth", "edges"})
        /\ search'.depth = Deepened(d, new, l) /\ search'.edges = search.edges
    BY <1>1, <1>3, <2>1, FollowWalks
  <2>3. /\ search'.stage = "follow" /\ search'.kind = "path" /\ search'.root = search.root
        /\ search'.to = search.to /\ search'.seen = search.seen /\ search'.result = search.result
    BY <1>1, <2>2 DEF Only, Fields
  <2>4. search.to \notin new
    BY <1>1, <1>3, <2>1 DEF Follow, Heading, Kind
  <2>5. DOMAIN search'.depth = new \cup DOMAIN search.depth
    BY <2>1, <2>2 DEF Deepened, Heading
  <2>6. QED
    BY <1>1, <2>2, <2>3, <2>4, <2>5 DEF PathInv, AtStage
<1>4. CASE Arrived
  BY <1>4, ArrivedStep
<1>5. ASSUME NEW h \in Notes \X Notes, Hop(h)
      PROVE  FollowInv' /\ PathInv'
  BY <1>5, HopStep
<1>6. CASE HopsDone
  BY <1>6, HopsDoneStep
<1>7. CASE Exhausted
  <2>1. PICK d, root, to, S : d = search.depth /\ root = search.root /\ to = search.to /\ S = links
    OBVIOUS
  <2>2. /\ search.stage = "follow" /\ search.frontier = <<>>
        /\ search'.stage = "done" /\ search'.kind = "path" /\ search'.result = search.result
        /\ search'.root = root /\ search'.to = to /\ UNCHANGED <<links, changes>>
    BY <1>1, <1>7, <2>1 DEF Exhausted, Fields, AtStage, Searching
  <2>3. /\ Depths(d, root) /\ search.result = <<>> /\ (to = root \/ to \notin DOMAIN d)
        /\ changes = 0 => Exact(d, root, S) /\ Opened(<<>>, d, S)
    BY <1>1, <2>1, <2>2 DEF FollowInv, PathInv, AtStage
  <2>4. changes = 0 => Ball(S, root)[Depth] \subseteq DOMAIN d
    <3> SUFFICES ASSUME changes = 0
                 PROVE  Ball(S, root)[Depth] \subseteq DOMAIN d
      OBVIOUS
    <3>1. \A m \in Lasts(<<>>) : m \in DOMAIN d => d[m] >= Depth
      BY DEF Lasts
    <3>2. Depth \in 0..Depth
      BY Numbers
    <3>3. QED
      BY <2>3, <3>1, <3>2, Reached
  <2>5. FollowInv'
    BY <2>2 DEF FollowInv, AtStage
  <2>6. changes = 0 => to \notin Ball(S, root)[Depth] \/ to = root
    BY <2>3, <2>4
  <2>7. PathInv'
    BY <2>1, <2>2, <2>3, <2>6 DEF PathInv, AtStage
  <2>8. QED
    BY <2>5, <2>7
<1>8. CASE Disturbed
  <2>1. UNCHANGED search /\ changes' # 0 /\ ever \subseteq ever'
    BY <1>8 DEF Disturbed
  <2>2. PICK p, root, to, V, W : /\ p = search.result /\ root = search.root /\ to = search.to
                                 /\ V = ever /\ W = ever'
    OBVIOUS
  <2>3. Route(p, root, to, V) => Route(p, root, to, W)
    BY <2>1, <2>2, RouteStays
  <2>4. PathInv'
    BY <1>1, <2>1, <2>2, <2>3 DEF PathInv, AtStage
  <2>5. QED
    BY <1>8, <2>4, FollowDisturbed
<1>9. QED
  BY <1>2, <1>3, <1>4, <1>5, <1>6, <1>7, <1>8, PathSteps

LEMMA PathHolds ==
    ASSUME PathInv
    PROVE  PathTrue
<1> SUFFICES ASSUME Done("path")
             PROVE  PathTrue
  BY DEF PathTrue
<1>1. PICK p, root, to, V, S, E : /\ p = search.result /\ root = search.root /\ to = search.to
                                  /\ V = ever /\ S = links /\ E = search.edges
  OBVIOUS
<1>2. /\ p # <<>> => /\ Route(p, root, to, V)
                     /\ changes = 0 => to \notin Ball(S, root)[Len(p) - 2]
      /\ changes = 0 => IF p = <<>> THEN to \notin Ball(S, root)[Depth] \/ to = root
                        ELSE Cardinality(E) = Len(p) - 1
  BY <1>1 DEF PathInv, Done, AtStage
<1>3. ASSUME p # <<>>
      PROVE  /\ Head(p) = root /\ Last(p) = to /\ Len(p) - 1 <= Depth
             /\ Cardinality(ToSet(p)) = Len(p)
             /\ \A h \in Hops(p) : h \in V \/ <<h[2], h[1]>> \in V
  <2>1. Route(p, root, to, V)
    BY <1>2, <1>3
  <2>2. p \in Seq(Notes) /\ Len(p) \in Nat /\ DOMAIN p = 1..Len(p) /\ Head(p) = p[1]
    BY <1>3, <2>1 DEF Route
  <2>3. p \in Bijection(1..Len(p), ToSet(p))
    <3>1. p \in [1..Len(p) -> ToSet(p)]
      BY <2>2 DEF ToSet
    <3>2. \A i, j \in 1..Len(p) : p[i] = p[j] => i = j
      BY <2>1 DEF Route
    <3>3. \A x \in ToSet(p) : \E i \in 1..Len(p) : p[i] = x
      BY <2>2 DEF ToSet
    <3>4. QED
      BY <3>1, <3>2, <3>3 DEF Bijection, Injection, Surjection, IsInjective
  <2>4. Cardinality(ToSet(p)) = Len(p)
    BY <2>2, <2>3, FS_CountingElements DEF ExistsBijection
  <2>5. \A h \in Hops(p) : h \in V \/ <<h[2], h[1]>> \in V
    BY <2>1, RouteHops DEF Turned
  <2>6. QED
    BY <2>1, <2>2, <2>4, <2>5 DEF Route
<1>4. QED
  BY <1>1, <1>2, <1>3 DEF PathTrue

(***************************************************************************)
(* All together.                                                           *)
(***************************************************************************)
GraphInv ==
    /\ GraphOk /\ SearchOk
    /\ FollowInv /\ PathInv /\ SubgraphInv /\ ClustersInv /\ RelatedInv /\ FullInv

\* A step of a search under way: it keeps its kind, its root and its end, goes to a
\* stage of its kind and leaves the graph alone.
Moves ==
    /\ search' # NoSearch /\ DOMAIN search' = Fields /\ search'.kind = search.kind
    /\ search'.root = search.root /\ search'.to = search.to
    /\ search'.stage \in Stages(search.kind)
    /\ GraphOk'

LEMMA OnlyMoves ==
    ASSUME GraphOk, SearchOk, NEW F, Only(F), F \cap {"kind", "root", "to", "stage"} = {}
    PROVE  Moves
<1>1. /\ search # NoSearch /\ Searching /\ search'.kind = search.kind /\ search'.root = search.root
      /\ search'.to = search.to /\ search'.stage = search.stage /\ DOMAIN search' = Fields
  BY DEF Only, Fields
<1>2. search.stage \in Stages(search.kind) /\ search.stage # "none"
  BY <1>1, StagesAre DEF SearchOk
<1>3. GraphOk'
  BY <1>1, <1>2, SearchingKeeps
<1>4. search' # NoSearch
  BY <1>1, <1>2 DEF NoSearch
<1>5. QED
  BY <1>1, <1>2, <1>3, <1>4 DEF Moves

\* A step that sets the stage and leaves kind, root and end.
LEMMA StageMoves ==
    ASSUME GraphOk, SearchOk, search # NoSearch, Searching, DOMAIN search' = Fields,
           search'.kind = search.kind, search'.root = search.root, search'.to = search.to,
           search'.stage \in Stages(search.kind)
    PROVE  Moves
<1>1. /\ search.stage \in Stages(search.kind) /\ search.stage # "none" /\ search'.stage # "none"
  BY StagesAre DEF SearchOk
<1>2. GraphOk'
  BY <1>1, SearchingKeeps
<1>3. search' # NoSearch
  BY <1>1 DEF NoSearch
<1>4. QED
  BY <1>1, <1>2, <1>3 DEF Moves

LEMMA SearchMoves ==
    ASSUME GraphOk, SearchOk, GraphNext, search # NoSearch
    PROVE  Moves
<1>1. /\ DOMAIN search = Fields /\ search.kind \in Kinds /\ search.stage \in Stages(search.kind)
      /\ search.stage # "none" /\ Kind(search.kind)
  BY StagesAre DEF SearchOk, Kind
<1>2. CASE Disturbed
  <2>1. search' = search
    BY <1>2 DEF Disturbed
  <2>2. GraphOk'
    <3>1. \/ \E n \in Notes : NewNote(n) \/ DropNote(n) \/ SetStatus(n)
          \/ \E a, b \in Notes : NewLink(a, b)
          \/ Searching
      BY DEF GraphNext, Begin, Pass, Follow, Arrived, HopsDone, Exhausted, Hop, ReadLinks,
             ClustersDone, NextCluster, ReadLinked, ReadNames, NoneClose, FetchClose, RelatedDone,
             FindClose, FullNotes, FullLinks
    <3>2. QED
      BY <1>1, <3>1, DisturbedDoes, SearchingKeeps
  <2>3. QED
    BY <1>1, <2>1, <2>2 DEF Moves
<1>3. CASE Pass \/ Follow
  BY <1>3, PassDoes, FollowDoes, OnlyMoves
<1>4. CASE search.kind = "subgraph"
  <2>1. CASE Exhausted
    <3>1. /\ Searching /\ DOMAIN search' = Fields /\ search'.kind = search.kind
          /\ search'.root = search.root /\ search'.to = search.to /\ search'.stage = "done"
      BY <1>1, <2>1 DEF Exhausted, Fields
    <3>2. QED
      BY <3>1, StageMoves DEF Stages
  <2>2. QED
    BY <1>1, <1>2, <1>3, <1>4, <2>1, SubgraphSteps
<1>5. CASE search.kind = "path"
  <2>1. ASSUME Arrived \/ HopsDone \/ Exhausted \/ \E h \in Notes \X Notes : Hop(h)
        PROVE  Moves
    <3>1. /\ Searching /\ DOMAIN search' = Fields /\ search'.kind = search.kind
          /\ search'.root = search.root /\ search'.to = search.to
      BY <1>1, <2>1 DEF Arrived, HopsDone, Exhausted, Hop, Fields
    <3>2. search'.stage \in {"hops", "done"}
      BY <1>1, <2>1 DEF Arrived, HopsDone, Exhausted, Hop, Fields, AtStage
    <3>3. QED
      BY <1>5, <3>1, <3>2, StageMoves DEF Stages
  <2>2. QED
    BY <1>1, <1>2, <1>3, <1>5, <2>1, PathSteps
<1>6. CASE search.kind = "clusters"
  <2>1. ASSUME ReadLinks \/ ClustersDone \/ \E n \in Notes : NextCluster(n)
        PROVE  Moves
    <3>1. /\ Searching /\ DOMAIN search' = Fields /\ search'.kind = search.kind
          /\ search'.root = search.root /\ search'.to = search.to
      BY <1>1, <2>1 DEF ReadLinks, ClustersDone, NextCluster, Fields
    <3>2. search'.stage \in {"follow", "done"}
      BY <1>1, <2>1 DEF ReadLinks, ClustersDone, NextCluster, Fields, AtStage
    <3>3. QED
      BY <1>6, <3>1, <3>2, StageMoves DEF Stages
  <2>2. QED
    BY <1>1, <1>2, <1>3, <1>6, <2>1, ClusterSteps
<1>7. CASE search.kind = "related"
  <2>1. ASSUME \/ ReadLinked \/ ReadNames \/ (\E order \in Seq(Notes) : FindClose(order)) \/ NoneClose
               \/ FetchClose \/ RelatedDone
        PROVE  Moves
    <3>1. /\ Searching /\ DOMAIN search' = Fields /\ search'.kind = search.kind
          /\ search'.root = search.root /\ search'.to = search.to
      BY <1>1, <2>1 DEF ReadLinked, ReadNames, FindClose, NoneClose, FetchClose, RelatedDone, Fields
    <3>2. search'.stage \in {"names", "similar", "fetch", "done"}
      BY <1>1, <2>1 DEF ReadLinked, ReadNames, FindClose, NoneClose, FetchClose, RelatedDone, Fields,
                        AtStage
    <3>3. QED
      BY <1>7, <3>1, <3>2, StageMoves DEF Stages
  <2>2. QED
    BY <1>1, <1>2, <1>7, <2>1, RelatedSteps
<1>8. CASE search.kind = "full"
  <2>1. ASSUME FullNotes \/ FullLinks
        PROVE  Moves
    <3>1. /\ Searching /\ DOMAIN search' = Fields /\ search'.kind = search.kind
          /\ search'.root = search.root /\ search'.to = search.to /\ search'.stage \in {"links", "done"}
      BY <1>1, <2>1 DEF FullNotes, FullLinks, Fields
    <3>2. QED
      BY <1>8, <3>1, StageMoves DEF Stages
  <2>2. QED
    BY <1>1, <1>2, <1>8, <2>1, FullSteps
<1>9. QED
  BY <1>1, <1>4, <1>5, <1>6, <1>7, <1>8 DEF Kinds

LEMMA GraphInvInit ==
    ASSUME GraphInit
    PROVE  GraphInv
<1>1. /\ links \subseteq Notes \X Notes /\ (\A l \in links : l[1] # l[2])
      /\ search = NoSearch /\ ever = {} /\ changes = 0
  BY GraphAssumption DEF GraphInit
<1>2. Ends(links) \subseteq Notes
  BY <1>1 DEF Ends
<1>3. kept \subseteq Notes /\ spare \subseteq Notes /\ Ends(links) \subseteq kept
  BY <1>2 DEF GraphInit
<1>4. GraphOk /\ SearchOk
  BY <1>1, <1>3 DEF GraphOk, SearchOk
<1>5. \A k : ~Kind(k)
  BY <1>1 DEF Kind, NoSearch
<1>6. QED
  BY <1>4, <1>5 DEF GraphInv, FollowInv, Walking, PathInv, SubgraphInv, ClustersInv, RelatedInv, FullInv

\* Where the breadth first search begins: at a note that is a path by itself.
LEMMA RootWalks ==
    ASSUME NEW root \in Notes, NEW V, NEW S
    PROVE  LET fr == <<<<root>>>>  d == [m \in {root} |-> 0] IN
           /\ Depths(d, root) /\ Frontier(fr, root, d, V)
           /\ Exact(d, root, S) /\ Opened(fr, d, S) /\ Lasts(fr) = {root}
<1>1. PICK fr, d : fr = <<<<root>>>> /\ d = [m \in {root} |-> 0]
  OBVIOUS
<1>2. DOMAIN d = {root} /\ d[root] = 0
  BY <1>1
<1>3. PICK p : p = <<root>>
  OBVIOUS
<1>4. p \in Seq(Notes) /\ Len(p) = 1 /\ p[1] = root /\ p # <<>>
  BY <1>3
<1>5. Last(p) = root
  BY <1>4, LastIs
<1>6. /\ fr \in Seq(Seq(Notes)) /\ Len(fr) = 1 /\ fr[1] = p /\ DOMAIN fr = 1..1
      /\ \A i \in 1..1 : i = 1
  BY <1>1, <1>3, <1>4
<1>7. PathOk(p, root, d, V)
  <2>1. \A i \in 1..(Len(p) - 1) : FALSE
    BY <1>4
  <2>2. \A i \in 1..Len(p) : i = 1
    BY <1>4
  <2>3. Len(p) >= 1 /\ Len(p) - 1 = 0
    BY <1>4
  <2>4. QED
    BY <1>2, <1>4, <1>5, <2>1, <2>2, <2>3 DEF PathOk
<1>8. Frontier(fr, root, d, V)
  <2>1. \A i, j \in 1..Len(fr) : i = j /\ ~(i < j)
    BY <1>6
  <2>2. QED
    BY <1>6, <1>7, <2>1 DEF Frontier
<1>9. Lasts(fr) = {root}
  BY <1>5, <1>6 DEF Lasts
<1>10. Depths(d, root)
  <2>1. 0 \in 0..Depth
    BY Numbers
  <2>2. d \in [DOMAIN d -> 0..Depth]
    BY <1>1, <2>1
  <2>3. QED
    BY <1>2, <2>2 DEF Depths
<1>11. Exact(d, root, S)
  <2>1. root \in Ball(S, root)[0] /\ \A k \in 0..Depth : 0 <= k
    BY BallSteps
  <2>2. QED
    BY <1>2, <2>1 DEF Exact
<1>12. Opened(fr, d, S)
  BY <1>2, <1>9 DEF Opened
<1>13. QED
  BY <1>1, <1>8, <1>9, <1>10, <1>11, <1>12

LEMMA BeginStep ==
    ASSUME GraphInv, NEW k \in Kinds, NEW n \in Notes, NEW to \in Notes, Begin(k, n, to)
    PROVE  GraphInv'
<1>1. /\ DOMAIN search' = Fields
      /\ search'.kind = k /\ search'.root = n /\ search'.to = to
      /\ search'.rows = {} /\ search'.edges = {} /\ search'.result = <<>>
      /\ search'.depth = [m \in {n} |-> 0] /\ search'.frontier = <<<<n>>>>
      /\ search'.seen = {} /\ search'.groups = {}
      /\ search'.stage = IF k \in {"subgraph", "path"} THEN "follow" ELSE "rows"
      /\ k = "subgraph" => n \in kept
      /\ ever' = links /\ changes' = 0 /\ UNCHANGED <<kept, archived, spare, links>>
      /\ SearchOk'
  BY BeginDoes
<1>2. GraphOk'
  BY <1>1 DEF GraphInv, GraphOk
<1>3. PICK fr, d, S : fr = <<<<n>>>> /\ d = [m \in {n} |-> 0] /\ S = links
  OBVIOUS
<1>4. /\ Depths(d, n) /\ Frontier(fr, n, d, S)
      /\ Exact(d, n, S) /\ Opened(fr, d, S) /\ Lasts(fr) = {n}
  BY <1>3, RootWalks
<1>5. DOMAIN d = {n} /\ d[n] = 0
  BY <1>3
<1>6. FollowInv'
  BY <1>1, <1>3, <1>4, FollowAfter
<1>7. PathInv'
  <2> SUFFICES ASSUME k = "path"
               PROVE  PathInv'
    BY <1>1 DEF PathInv, Kind
  <2>1. search'.stage = "follow" /\ DOMAIN search'.depth = {n}
    BY <1>1
  <2>2. search'.to = search'.root \/ search'.to \notin DOMAIN search'.depth
    BY <1>1, <2>1
  <2>3. QED
    BY <1>1, <2>1, <2>2 DEF PathInv, AtStage
<1>8. SubgraphInv'
  <2> SUFFICES ASSUME k = "subgraph"
               PROVE  SubgraphInv'
    BY <1>1 DEF SubgraphInv, Kind
  <2>1. search'.stage = "follow" /\ search'.depth = d /\ search'.frontier = fr
    BY <1>1, <1>3
  <2>2. Near(d, n, {})
    BY <1>5 DEF Near, Ends
  <2>3. Touched(S, d, {n}) = {}
    BY <1>5 DEF Touched
  <2>4. QED
    BY <1>1, <1>3, <1>4, <1>5, <2>1, <2>2, <2>3 DEF SubgraphInv, AtStage
<1>9. ClustersInv'
  <2> SUFFICES ASSUME k = "clusters"
               PROVE  ClustersInv'
    BY <1>1 DEF ClustersInv, Kind
  <2>1. search'.stage = "rows"
    BY <1>1
  <2>2. QED
    BY <1>1, <2>1 DEF ClustersInv, AtStage
<1>10. RelatedInv'
  <2> SUFFICES ASSUME k = "related"
               PROVE  RelatedInv'
    BY <1>1 DEF RelatedInv, Kind
  <2>1. search'.stage = "rows"
    BY <1>1
  <2>2. QED
    BY <2>1 DEF RelatedInv, AtStage
<1>11. FullInv'
  <2> SUFFICES ASSUME k = "full"
               PROVE  FullInv'
    BY <1>1 DEF FullInv, Kind
  <2>1. search'.stage = "rows"
    BY <1>1
  <2>2. QED
    BY <2>1 DEF FullInv, AtStage
<1>12. QED
  BY <1>1, <1>2, <1>6, <1>7, <1>8, <1>9, <1>10, <1>11 DEF GraphInv

LEMMA GraphInvStep ==
    ASSUME GraphInv, [GraphNext]_graphVars
    PROVE  GraphInv'
<1>1. CASE UNCHANGED graphVars
  BY <1>1 DEF graphVars, GraphInv, GraphOk, SearchOk, FollowInv, Walking, PathInv, SubgraphInv,
              ClustersInv, RelatedInv, FullInv, Kind, AtStage
<1>2. ASSUME GraphNext, search = NoSearch
      PROVE  GraphInv'
  <2>1. NoSearch.stage = "none"
    BY DEF NoSearch
  <2>2. \E k \in Kinds : \E n, to \in Notes : Begin(k, n, to)
    BY <1>2, <2>1 DEF GraphNext, Pass, Follow, Following, Arrived, HopsDone, Exhausted, Hop, ReadLinks,
             ClustersDone, NextCluster, ReadLinked, ReadNames, NoneClose, FetchClose, RelatedDone,
             FindClose, FullNotes, FullLinks, NewNote, NewLink, DropNote, SetStatus, Meanwhile, AtStage
  <2>3. QED
    BY <2>2, BeginStep
<1>3. ASSUME GraphNext, search # NoSearch
      PROVE  GraphInv'
  <2> GraphOk /\ SearchOk /\ FollowInv /\ PathInv /\ SubgraphInv /\ ClustersInv /\ RelatedInv /\ FullInv
    BY DEF GraphInv
  <2>1. Moves
    BY <1>3, SearchMoves
  <2>2. GraphOk' /\ SearchOk' /\ search'.kind = search.kind /\ search.kind \in Kinds
        /\ Kind(search.kind) /\ search # NoSearch
    BY <1>3, <2>1, StagesAre DEF Moves, SearchOk, Kind
  <2>3. \A k : Kind(k)' => k = search.kind
    BY <2>2 DEF Kind
  <2>4. CASE search.kind = "subgraph"
    BY <1>3, <2>2, <2>3, <2>4, SubgraphStep DEF GraphInv, PathInv, ClustersInv, RelatedInv, FullInv
  <2>5. CASE search.kind = "path"
    BY <1>3, <2>2, <2>3, <2>5, PathStep DEF GraphInv, SubgraphInv, ClustersInv, RelatedInv, FullInv
  <2>6. CASE search.kind = "clusters"
    BY <1>3, <2>2, <2>3, <2>6, ClustersStep
       DEF GraphInv, FollowInv, Walking, SubgraphInv, PathInv, RelatedInv, FullInv
  <2>7. CASE search.kind = "related"
    BY <1>3, <2>2, <2>3, <2>7, RelatedStep
       DEF GraphInv, FollowInv, Walking, SubgraphInv, PathInv, ClustersInv, FullInv
  <2>8. CASE search.kind = "full"
    BY <1>3, <2>2, <2>3, <2>8, FullStep
       DEF GraphInv, FollowInv, Walking, SubgraphInv, PathInv, ClustersInv, RelatedInv
  <2>9. QED
    BY <2>2, <2>4, <2>5, <2>6, <2>7, <2>8 DEF Kinds
<1>4. QED
  BY <1>1, <1>2, <1>3

\* Whatever changes while a path is searched for, one that is found leads from the
\* one note to the other over links there were during the search, over no note
\* twice and within the limit; if nothing changed it is a shortest one and none is
\* missed (GraphService.find_path).
THEOREM PathsAreTrue == GraphSpec => []PathTrue
<1>1. GraphInit => GraphInv
  BY GraphInvInit
<1>2. GraphInv /\ [GraphNext]_graphVars => GraphInv'
  BY GraphInvStep
<1>3. GraphInv => PathTrue
  BY PathHolds DEF GraphInv
<1>4. QED
  BY <1>1, <1>2, <1>3, PTL DEF GraphSpec

\* The subgraph has the notes within the depth with their distances and their
\* links, the clusters are the large components of the links read, the related
\* notes are each listed once, linked ones first, and the full graph has no link
\* without its notes (GraphService.get_subgraph, get_clusters, get_related, get_full_graph).
THEOREM GraphAnswersTrue == GraphSpec => []GraphTrue
<1>1. GraphInit => GraphInv
  BY GraphInvInit
<1>2. GraphInv /\ [GraphNext]_graphVars => GraphInv'
  BY GraphInvStep
<1>3. GraphInv => GraphTrue
  BY SubgraphHolds, ClustersHold, RelatedHolds, FullHolds DEF GraphInv, GraphTrue
<1>4. QED
  BY <1>1, <1>2, <1>3, PTL DEF GraphSpec

==============================================================================
