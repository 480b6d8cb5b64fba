------------------------------ MODULE FoldLemmas ------------------------------
(***************************************************************************)
(* Induction over the natural numbers, said of a set of numbers instead of *)
(* a predicate, and what follows for the folds of the community modules: a *)
(* fold over a sequence has a value before and after each element.         *)
(***************************************************************************)
EXTENDS Integers, SequencesExt, FiniteSetTheorems, SequenceTheorems, TLAPS

\* Sets of numbers have a least element, since the intervals below them, as
\* finite sets, are well founded.
LEMMA LeastNumber ==
    ASSUME NEW S \in SUBSET Nat, S # {}
    PROVE  \E m \in S : \A k \in S : m <= k
<1>   DEFINE R == StrictSubsetOrdering(Nat)
             F == FiniteSubsetsOf(Nat)
             T == {1..n : n \in S}
<1>1. IsWellFoundedOn(R, F)
      BY FS_StrictSubsetOrderingWellFounded
<1>2. T \subseteq F /\ T # {}
  <2>1. \A n \in S : 1..n \in SUBSET Nat /\ IsFiniteSet(1..n)
        BY FS_Interval
  <2>   QED  BY <2>1 DEF FiniteSubsetsOf
<1>3. \E x \in T : \A y \in T : <<y, x>> \notin R
  <2>   HIDE DEF R, F, T
  <2>   QED  BY <1>1, <1>2, WFMin
<1>4. PICK m \in S : \A n \in S : <<1..n, 1..m>> \notin R
      BY <1>3
<1>5. ASSUME NEW n \in S, n < m PROVE FALSE
  <2>1. 1..n \subseteq 1..m /\ 1..n # 1..m
    <3>1. m \in 1..m /\ m \notin 1..n
          BY <1>5
    <3>   QED  BY <3>1, <1>5
  <2>2. <<1..n, 1..m>> \in R
        BY <2>1 DEF StrictSubsetOrdering
  <2>   QED  BY <2>2, <1>4
<1>   QED  BY <1>5

LEMMA MinOf ==
    ASSUME NEW s \in SUBSET Nat, s # {}
    PROVE  Min(s) \in s /\ \A k \in s : Min(s) <= k
<1>1. \E m \in s : \A k \in s : m <= k
      BY LeastNumber
<1>   QED  BY <1>1 DEF Min

LEMMA MinIs ==
    ASSUME NEW s \in SUBSET Nat, NEW k \in s, \A m \in s : k <= m
    PROVE  Min(s) = k
<1>1. Min(s) \in s /\ Min(s) <= k
      BY MinOf
<1>2. k <= Min(s) /\ Min(s) \in Nat /\ k \in Nat
      BY <1>1
<1>   QED  BY <1>1, <1>2

\* Induction up to n.
LEMMA UpTo ==
    ASSUME NEW n \in Nat, NEW S, 0 \in S, \A k \in 0..n - 1 : k \in S => k + 1 \in S
    PROVE  \A k \in 0..n : k \in S
<1>1. SUFFICES ASSUME NEW j \in 0..n, j \notin S PROVE FALSE
      OBVIOUS
<1>   DEFINE Out == {k \in 0..n : k \notin S}
<1>2. PICK m \in Out : \A k \in Out : m <= k
  <2>1. Out \in SUBSET Nat /\ Out # {}
        BY <1>1
  <2>   HIDE DEF Out
  <2>   QED  BY <2>1, LeastNumber
<1>3. m # 0 /\ m - 1 \in 0..n - 1
      BY <1>2
<1>4. m - 1 \in S
      BY <1>2, <1>3
<1>   QED  BY <1>2, <1>3, <1>4

-----------------------------------------------------------------------------
\* Folds over sequences (FoldLeft) look at the greatest of a set of places.

LEMMA MaxOf ==
    ASSUME NEW n \in Nat, NEW s \in SUBSET (1..n), s # {}
    PROVE  Max(s) \in s /\ \A k \in s : k <= Max(s)
<1>   DEFINE Below == {n - k : k \in s}
<1>1. Below \in SUBSET Nat /\ Below # {}
  <2>1. \A k \in s : n - k \in Nat
        OBVIOUS
  <2>   QED  BY <2>1
<1>2. PICK m \in Below : \A k \in Below : m <= k
      BY <1>1, LeastNumber
<1>3. PICK x \in s : m = n - x
      BY <1>2
<1>4. \A k \in s : x >= k
      BY <1>2, <1>3
<1>5. \E y \in s : \A k \in s : y >= k
      BY <1>4
<1>6. Max(s) \in s /\ \A k \in s : Max(s) >= k
      BY <1>5 DEF Max
<1>   QED  BY <1>6

LEMMA MaxIs ==
    ASSUME NEW n \in Nat, NEW s \in SUBSET (1..n), NEW k \in s, \A m \in s : m <= k
    PROVE  Max(s) = k
<1>1. s # {}
      OBVIOUS
<1>2. Max(s) \in s /\ \A m \in s : m <= Max(s)
      BY <1>1, MaxOf, Zenon
<1>3. PICK x \in s : x = Max(s) /\ \A m \in s : m <= x
      BY <1>2, Zenon
<1>4. x <= k /\ k <= x /\ x \in Nat /\ k \in Nat
      BY <1>3
<1>5. x = k
      BY <1>4
<1>   QED  BY <1>3, <1>5, Zenon

\* The recursive function of a fold exists, if what is folded with stays in A.
FoldsTo(iter, n, base, g) ==
    \A s \in SUBSET (1..n) :
        iter[s] = IF s = {} THEN base ELSE g[<<Max(s), iter[s \ {Max(s)}]>>]

LEMMA FoldExists ==
    ASSUME NEW A, NEW base \in A, NEW n \in Nat, NEW g \in [(1..n) \X A -> A]
    PROVE  \E iter \in [SUBSET (1..n) -> A] : FoldsTo(iter, n, base, g)
<1>   DEFINE S == {m \in 0..n : \E iter \in [SUBSET (1..m) -> A] : FoldsTo(iter, m, base, g)}
<1>1. 0 \in S
  <2>   DEFINE iter == [s \in SUBSET (1..0) |-> base]
  <2>1. SUBSET (1..0) = {{}}
        OBVIOUS
  <2>2. iter \in [SUBSET (1..0) -> A] /\ FoldsTo(iter, 0, base, g)
        BY <2>1 DEF FoldsTo
  <2>   QED  BY <2>2
<1>2. ASSUME NEW m \in 0..n - 1, m \in S PROVE m + 1 \in S
  <2>1. PICK old \in [SUBSET (1..m) -> A] : FoldsTo(old, m, base, g)
        BY <1>2
  <2>   DEFINE iter == [s \in SUBSET (1..m + 1) |->
                           IF m + 1 \in s THEN g[<<m + 1, old[s \ {m + 1}]>>] ELSE old[s]]
  <2>2. ASSUME NEW s \in SUBSET (1..m + 1)
        PROVE  /\ m + 1 \in s => s \ {m + 1} \in SUBSET (1..m)
               /\ m + 1 \notin s => s \in SUBSET (1..m)
        OBVIOUS
  <2>3. iter \in [SUBSET (1..m + 1) -> A]
    <3>1. m + 1 \in 1..n
          BY <1>2
    <3>   QED  BY <2>2, <3>1
  <2>4. ASSUME NEW s \in SUBSET (1..m + 1)
        PROVE  iter[s] = IF s = {} THEN base ELSE g[<<Max(s), iter[s \ {Max(s)}]>>]
    <3>1. CASE m + 1 \in s
      <4>1. Max(s) = m + 1
        <5>1. m + 1 \in Nat /\ \A k \in s : k <= m + 1
              OBVIOUS
        <5>   QED  BY <3>1, <5>1, MaxIs, Zenon
      <4>2. s \ {m + 1} \in SUBSET (1..m + 1) /\ m + 1 \notin s \ {m + 1}
            OBVIOUS
      <4>3. iter[s \ {m + 1}] = old[s \ {m + 1}]
            BY <4>2
      <4>4. iter[s] = g[<<m + 1, old[s \ {m + 1}]>>]
            BY <3>1
      <4>   QED  BY <3>1, <4>1, <4>3, <4>4
    <3>2. CASE m + 1 \notin s
      <4>1. s \in SUBSET (1..m)
            BY <2>2, <3>2
      <4>2. iter[s] = old[s]
            BY <3>2
      <4>3. CASE s = {}
            BY <4>1, <4>2, <4>3, <2>1 DEF FoldsTo
      <4>4. CASE s # {}
        <5>1. Max(s) \in s
          <6>1. m \in Nat
                OBVIOUS
          <6>   QED  BY <6>1, <4>1, <4>4, MaxOf, Zenon
        <5>2. s \ {Max(s)} \in SUBSET (1..m + 1) /\ m + 1 \notin s \ {Max(s)}
              BY <3>2
        <5>3. iter[s \ {Max(s)}] = old[s \ {Max(s)}]
              BY <5>2
        <5>4. old[s] = g[<<Max(s), old[s \ {Max(s)}]>>]
              BY <4>1, <4>4, <2>1 DEF FoldsTo
        <5>   QED  BY <4>2, <4>4, <5>3, <5>4
      <4>   QED  BY <4>3, <4>4
    <3>   QED  BY <3>1, <3>2
  <2>5. FoldsTo(iter, m + 1, base, g)
    <3>   HIDE DEF iter
    <3>   QED  BY <2>4 DEF FoldsTo
  <2>6. m + 1 \in 0..n
        BY <1>2
  <2>   HIDE DEF iter
  <2>   QED  BY <2>3, <2>5, <2>6
<1>3. n \in S
  <2>   HIDE DEF S
  <2>   QED  BY <1>1, <1>2, UpTo
<1>   QED  BY <1>3

\* Places up to k, as folds come across them.
LEMMA PlacesUpTo ==
    ASSUME NEW n \in Nat, NEW k \in 0..n - 1
    PROVE  /\ 1..k + 1 \in SUBSET (1..n) /\ 1..k + 1 # {}
           /\ Max(1..k + 1) = k + 1
           /\ (1..k + 1) \ {k + 1} = 1..k
<1>1. 1..k + 1 \in SUBSET (1..n) /\ k + 1 \in 1..k + 1 /\ \A m \in 1..k + 1 : m <= k + 1
      OBVIOUS
<1>2. Max(1..k + 1) = k + 1
  <2>   DEFINE s == 1..k + 1
  <2>   HIDE DEF s
  <2>1. s \in SUBSET (1..n) /\ k + 1 \in s /\ \A m \in s : m <= k + 1
        BY <1>1 DEF s
  <2>2. Max(s) = k + 1
        BY <2>1, MaxIs, Zenon
  <2>   QED  BY <2>2 DEF s
<1>3. (1..k + 1) \ {k + 1} = 1..k
      OBVIOUS
<1>   QED  BY <1>1, <1>2, <1>3

-----------------------------------------------------------------------------
\* FlattenSeq: the beginnings of a sequence of sequences, put together.

Flattens(f, n, seqs) ==
    \A i \in 1..n : f[i] = IF i = 1 THEN seqs[i] ELSE f[i - 1] \o seqs[i]

LEMMA FlattenExists ==
    ASSUME NEW A, NEW n \in Nat, NEW seqs \in [1..n -> Seq(A)]
    PROVE  \E f \in [1..n -> Seq(A)] : Flattens(f, n, seqs)
<1>   DEFINE S == {m \in 0..n : \E f \in [1..m -> Seq(A)] : Flattens(f, m, seqs)}
<1>1. 0 \in S
  <2>   DEFINE f == [i \in 1..0 |-> <<>>]
  <2>1. f \in [1..0 -> Seq(A)] /\ Flattens(f, 0, seqs)
        BY DEF Flattens
  <2>2. \E h \in [1..0 -> Seq(A)] : Flattens(h, 0, seqs)
    <3>   HIDE DEF f
    <3>   QED  BY <2>1
  <2>3. 0 \in 0..n
        OBVIOUS
  <2>   QED  BY <2>2, <2>3, Zenon
<1>2. ASSUME NEW m \in 0..n - 1, m \in S PROVE m + 1 \in S
  <2>1. PICK old \in [1..m -> Seq(A)] : Flattens(old, m, seqs)
        BY <1>2
  <2>   DEFINE f == [i \in 1..m + 1 |->
                        IF i <= m THEN old[i] ELSE IF m = 0 THEN seqs[1] ELSE old[m] \o seqs[i]]
  <2>2. f \in [1..m + 1 -> Seq(A)]
    <3>1. ASSUME NEW i \in 1..m + 1 PROVE f[i] \in Seq(A)
      <4>1. seqs[i] \in Seq(A) /\ seqs[1] \in Seq(A)
            OBVIOUS
      <4>2. m # 0 => old[m] \in Seq(A)
            OBVIOUS
      <4>3. m # 0 => old[m] \o seqs[i] \in Seq(A)
            BY <4>1, <4>2
      <4>4. i <= m => old[i] \in Seq(A)
            OBVIOUS
      <4>   QED  BY <4>1, <4>3, <4>4
    <3>   QED  BY <3>1
  <2>3. ASSUME NEW i \in 1..m + 1
        PROVE  f[i] = IF i = 1 THEN seqs[i] ELSE f[i - 1] \o seqs[i]
    <3>1. CASE i <= m
      <4>1. f[i] = old[i] /\ (i # 1 => i - 1 \in 1..m + 1 /\ f[i - 1] = old[i - 1])
            BY <3>1
      <4>2. old[i] = IF i = 1 THEN seqs[i] ELSE old[i - 1] \o seqs[i]
        <5>1. i \in 1..m
              BY <3>1
        <5>   QED  BY <5>1, <2>1 DEF Flattens
      <4>   QED  BY <4>1, <4>2
    <3>2. CASE i = m + 1
      <4>1. f[i] = IF m = 0 THEN seqs[1] ELSE old[m] \o seqs[i]
            BY <3>2
      <4>2. m # 0 => f[m] = old[m]
            OBVIOUS
      <4>   QED  BY <3>2, <4>1, <4>2
    <3>   QED  BY <3>1, <3>2
  <2>   HIDE DEF f
  <2>4. Flattens(f, m + 1, seqs)
        BY <2>3 DEF Flattens
  <2>   QED  BY <2>2, <2>4
<1>3. n \in S
  <2>   HIDE DEF S
  <2>1. \A k \in 0..n : k \in S
        BY <1>1, <1>2, UpTo
  <2>   QED  BY <2>1
<1>   QED  BY <1>3

LEMMA FlattenIs ==
    ASSUME NEW A, NEW seqs \in Seq(Seq(A)), Len(seqs) # 0
    PROVE  \E f \in [1..Len(seqs) -> Seq(A)] :
               Flattens(f, Len(seqs), seqs) /\ FlattenSeq(seqs) = f[Len(seqs)]
<1>   DEFINE n == Len(seqs)
             F(f) == f = [i \in 1..Len(seqs) |-> IF i = 1 THEN seqs[i] ELSE f[i - 1] \o seqs[i]]
             flatten == CHOOSE f : F(f)
<1>1. n \in Nat /\ n # 0 /\ seqs \in [1..n -> Seq(A)]
      OBVIOUS
<1>2. FlattenSeq(seqs) = flatten[n]
      BY DEF FlattenSeq
<1>3. \E f : F(f)
  <2>1. PICK f \in [1..n -> Seq(A)] : Flattens(f, n, seqs)
        BY <1>1, FlattenExists
  <2>2. F(f)
        BY <2>1 DEF Flattens
  <2>   QED  BY <2>2
<1>4. F(flatten)
  <2>   HIDE DEF F
  <2>   QED  BY <1>3
<1>5. Flattens(flatten, n, seqs)
  <2>   HIDE DEF flatten
  <2>   QED  BY <1>4 DEF Flattens
<1>6. DOMAIN flatten = 1..n /\ flatten = [i \in 1..n |-> flatten[i]]
  <2>   HIDE DEF flatten
  <2>   QED  BY <1>4
<1>   HIDE DEF flatten
<1>   DEFINE S == {m \in 0..n : m # 0 => flatten[m] \in Seq(A)}
<1>7. \A m \in 0..n : m \in S
  <2>1. 0 \in S
        BY <1>1
  <2>2. ASSUME NEW m \in 0..n - 1, m \in S PROVE m + 1 \in S
    <3>1. seqs[m + 1] \in Seq(A) /\ m + 1 \in 1..n
          BY <1>1
    <3>2. flatten[m + 1] = IF m = 0 THEN seqs[m + 1] ELSE flatten[m] \o seqs[m + 1]
          BY <1>5, <3>1 DEF Flattens
    <3>3. m # 0 => flatten[m] \o seqs[m + 1] \in Seq(A)
          BY <2>2, <3>1
    <3>4. flatten[m + 1] \in Seq(A)
          BY <3>1, <3>2, <3>3
    <3>5. m + 1 \in 0..n
          BY <1>1
    <3>   QED  BY <3>4, <3>5
  <2>   HIDE DEF S
  <2>   QED  BY <1>1, <2>1, <2>2, UpTo
<1>8. flatten \in [1..n -> Seq(A)]
  <2>1. ASSUME NEW i \in 1..n PROVE flatten[i] \in Seq(A)
    <3>1. i \in 0..n /\ i # 0
          BY <1>1
    <3>   QED  BY <3>1, <1>7
  <2>   QED  BY <1>6, <2>1
<1>   QED  BY <1>2, <1>5, <1>8

LEMMA FlattenType ==
    ASSUME NEW A, NEW seqs \in Seq(Seq(A))
    PROVE  FlattenSeq(seqs) \in Seq(A)
<1>1. CASE Len(seqs) = 0
      BY <1>1 DEF FlattenSeq
<1>2. CASE Len(seqs) # 0
  <2>1. PICK f \in [1..Len(seqs) -> Seq(A)] : FlattenSeq(seqs) = f[Len(seqs)]
        BY <1>2, FlattenIs
  <2>2. Len(seqs) \in 1..Len(seqs)
        BY <1>2
  <2>   QED  BY <2>1, <2>2
<1>   QED  BY <1>1, <1>2

LEMMA NextPlace ==
    ASSUME NEW n \in Nat, NEW m \in 0..n - 1
    PROVE  m + 1 \in 1..n /\ (m + 1) - 1 = m /\ m + 1 \in 0..n
OBVIOUS

-----------------------------------------------------------------------------
\* FlattenSeq of longer and longer beginnings.

LEMMA SubSeqGrows ==
    ASSUME NEW A, NEW s \in Seq(A), NEW k \in 0..Len(s) - 1
    PROVE  /\ SubSeq(s, 1, k) \in Seq(A) /\ Len(SubSeq(s, 1, k)) = k
           /\ s[k + 1] \in A
           /\ SubSeq(s, 1, k + 1) = Append(SubSeq(s, 1, k), s[k + 1])
<1>1. Len(s) \in Nat /\ k \in Nat /\ k + 1 \in 1..Len(s) /\ \A i \in 1..Len(s) : s[i] \in A
      OBVIOUS
<1>2. SubSeq(s, 1, k) \in Seq(A) /\ Len(SubSeq(s, 1, k)) = k
      BY <1>1, SubSeqProperties
<1>3. SubSeq(s, 1, k + 1) = SubSeq(s, 1, k) \o <<s[k + 1]>>
  <2>1. k + 1 - 1 = k /\ 1 \in 1..Len(s) /\ k + 1 \in 1..Len(s)
        BY <1>1
  <2>   QED  BY <2>1, SubSeqRecursiveSecond
<1>   QED  BY <1>1, <1>2, <1>3, AppendIsConcat

LEMMA FlattenAppend ==
    ASSUME NEW A, NEW seqs \in Seq(Seq(A)), NEW s \in Seq(A)
    PROVE  FlattenSeq(Append(seqs, s)) = FlattenSeq(seqs) \o s
<1>   DEFINE n == Len(seqs)
             longer == Append(seqs, s)
<1>1. /\ n \in Nat /\ longer \in Seq(Seq(A)) /\ Len(longer) = n + 1
      /\ \A i \in 1..n : longer[i] = seqs[i]
      /\ longer[n + 1] = s
      OBVIOUS
<1>   HIDE DEF longer
<1>2. PICK h \in [1..n + 1 -> Seq(A)] :
          Flattens(h, n + 1, longer) /\ FlattenSeq(longer) = h[n + 1]
      BY <1>1, FlattenIs
<1>3. CASE n = 0
  <2>1. h[1] = s
    <3>1. 1 \in 1..n + 1
          BY <1>1
    <3>   QED  BY <1>1, <1>2, <1>3, <3>1 DEF Flattens
  <2>2. FlattenSeq(seqs) = <<>>
        BY <1>3 DEF FlattenSeq
  <2>3. <<>> \o s = s
        OBVIOUS
  <2>   QED  BY <1>2, <1>3, <2>1, <2>2, <2>3 DEF longer
<1>4. CASE n # 0
  <2>1. PICK f \in [1..n -> Seq(A)] : Flattens(f, n, seqs) /\ FlattenSeq(seqs) = f[n]
        BY <1>4, FlattenIs
  <2>   DEFINE S == {m \in 0..n : m # 0 => h[m] = f[m]}
  <2>2. \A i \in 1..n : f[i] = IF i = 1 THEN seqs[i] ELSE f[i - 1] \o seqs[i]
        BY <2>1 DEF Flattens
  <2>3. \A i \in 1..n : h[i] = IF i = 1 THEN seqs[i] ELSE h[i - 1] \o seqs[i]
    <3>   TAKE i \in 1..n
    <3>1. i \in 1..n + 1 /\ longer[i] = seqs[i]
          BY <1>1
    <3>   QED  BY <1>2, <3>1 DEF Flattens
  <2>4. \A m \in 0..n : m \in S
    <3>1. 0 \in S
          BY <1>1
    <3>2. ASSUME NEW m \in 0..n - 1, m \in S PROVE m + 1 \in S
      <4>   DEFINE i == m + 1
      <4>   HIDE DEF n, S
      <4>1. i \in 1..n /\ i - 1 = m /\ i \in 0..n
            BY <1>1, NextPlace, Zenon DEF i
      <4>   HIDE DEF i
      <4>2. h[i] = f[i]
        <5>1. i # 1 => h[i - 1] = f[i - 1]
              BY <3>2, <4>1 DEF S
        <5>2. f[i] = IF i = 1 THEN seqs[i] ELSE f[i - 1] \o seqs[i]
              BY <2>2, <4>1
        <5>3. h[i] = IF i = 1 THEN seqs[i] ELSE h[i - 1] \o seqs[i]
              BY <2>3, <4>1
        <5>   QED  BY <5>1, <5>2, <5>3
      <4>   QED  BY <4>1, <4>2 DEF i, S
    <3>   HIDE DEF S
    <3>   QED  BY <1>1, <3>1, <3>2, UpTo
  <2>5. h[n] = f[n]
    <3>1. n \in 0..n
          BY <1>1
    <3>   QED  BY <1>4, <2>4, <3>1
  <2>6. h[n + 1] = h[n] \o s
    <3>   DEFINE i == n + 1
    <3>1. i \in 1..n + 1 /\ i # 1 /\ i - 1 = n /\ longer[i] = s
          BY <1>1, <1>4
    <3>   HIDE DEF i
    <3>2. h[i] = IF i = 1 THEN longer[i] ELSE h[i - 1] \o longer[i]
          BY <1>2, <3>1 DEF Flattens
    <3>   QED  BY <3>1, <3>2 DEF i
  <2>   QED  BY <1>2, <2>1, <2>5, <2>6 DEF longer
<1>   QED  BY <1>3, <1>4

\* The place of each part in the whole.
LEMMA FlattenParts ==
    ASSUME NEW A, NEW seqs \in Seq(Seq(A)), NEW k \in 0..Len(seqs) - 1
    PROVE  LET before == FlattenSeq(SubSeq(seqs, 1, k))
               part   == seqs[k + 1]
               whole  == FlattenSeq(seqs)
           IN  /\ before \in Seq(A) /\ part \in Seq(A) /\ whole \in Seq(A)
               /\ Len(before) + Len(part) <= Len(whole)
               /\ \A i \in 1..Len(part) : whole[Len(before) + i] = part[i]
               /\ FlattenSeq(SubSeq(seqs, 1, k + 1)) = before \o part
<1>   DEFINE n == Len(seqs)
             U(m) == FlattenSeq(SubSeq(seqs, 1, m))
             part == seqs[k + 1]
<1>1. n \in Nat /\ k \in Nat /\ k + 1 <= n /\ part \in Seq(A)
      OBVIOUS
<1>2. \A m \in 0..n : SubSeq(seqs, 1, m) \in Seq(Seq(A))
  <2>1. \A i \in 1..n : seqs[i] \in Seq(A)
        OBVIOUS
  <2>   QED  BY <1>1, <2>1, SubSeqProperties
<1>3. \A m \in 0..n : U(m) \in Seq(A)
      BY <1>2, FlattenType
<1>4. \A m \in 0..n - 1 : U(m + 1) = U(m) \o seqs[m + 1] /\ seqs[m + 1] \in Seq(A)
  <2>   TAKE m \in 0..n - 1
  <2>1. SubSeq(seqs, 1, m) \in Seq(Seq(A)) /\ seqs[m + 1] \in Seq(A)
        /\ SubSeq(seqs, 1, m + 1) = Append(SubSeq(seqs, 1, m), seqs[m + 1])
        BY SubSeqGrows
  <2>   QED  BY <2>1, FlattenAppend
<1>5. U(n) = FlattenSeq(seqs)
      BY SubSeqFull
<1>   HIDE DEF U, n, part
<1>   DEFINE Has(m) == /\ Len(U(k)) + Len(part) <= Len(U(m))
                       /\ \A i \in 1..Len(part) : U(m)[Len(U(k)) + i] = part[i]
             S == {d \in 0..n - (k + 1) : Has(k + 1 + d)}
<1>6. Len(U(k)) \in Nat /\ Len(part) \in Nat /\ U(k) \in Seq(A)
      BY <1>1, <1>3
<1>7. Has(k + 1)
  <2>1. U(k + 1) = U(k) \o part
        BY <1>1, <1>4 DEF part
  <2>   QED  BY <1>1, <1>6, <2>1
<1>8. \A d \in 0..n - (k + 1) : d \in S
  <2>1. 0 \in S
        BY <1>1, <1>7
  <2>2. ASSUME NEW d \in 0..n - (k + 1) - 1, d \in S PROVE d + 1 \in S
    <3>   DEFINE m == k + 1 + d
    <3>1. m \in 0..n - 1 /\ m + 1 = k + 1 + (d + 1) /\ d + 1 \in 0..n - (k + 1)
          BY <1>1
    <3>2. Has(m)
          BY <2>2
    <3>   HIDE DEF m
    <3>3. U(m + 1) = U(m) \o seqs[m + 1] /\ seqs[m + 1] \in Seq(A) /\ U(m) \in Seq(A)
          BY <1>1, <1>3, <1>4, <3>1
    <3>4. Has(m + 1)
      <4>1. Len(U(m + 1)) = Len(U(m)) + Len(seqs[m + 1]) /\ Len(U(m)) \in Nat
            /\ Len(seqs[m + 1]) \in Nat
            BY <3>3
      <4>2. \A j \in 1..Len(U(m)) : U(m + 1)[j] = U(m)[j]
            BY <3>3
      <4>3. \A i \in 1..Len(part) : Len(U(k)) + i \in 1..Len(U(m))
            BY <1>6, <3>2, <4>1
      <4>4. ASSUME NEW i \in 1..Len(part) PROVE U(m + 1)[Len(U(k)) + i] = part[i]
            BY <3>2, <4>2, <4>3
      <4>5. Len(U(k)) + Len(part) <= Len(U(m + 1))
            BY <1>6, <3>2, <4>1
      <4>   QED  BY <4>4, <4>5
    <3>   HIDE DEF Has
    <3>   QED  BY <3>1, <3>4
  <2>3. n - (k + 1) \in Nat
        BY <1>1
  <2>   HIDE DEF S
  <2>   QED  BY <2>1, <2>2, <2>3, UpTo
<1>9. Has(n)
  <2>1. n - (k + 1) \in 0..n - (k + 1) /\ k + 1 + (n - (k + 1)) = n
        BY <1>1
  <2>   HIDE DEF Has
  <2>   QED  BY <1>8, <2>1
<1>10. U(k + 1) = U(k) \o part /\ U(n) \in Seq(A)
      BY <1>1, <1>3, <1>4 DEF part
<1>   QED  BY <1>1, <1>5, <1>6, <1>9, <1>10 DEF U, part

-----------------------------------------------------------------------------
\* Folds over sets.

ChosenOf(s) == CHOOSE x \in s : TRUE

\* The recursive function of a fold over the members of a set.
FoldsOver(iter, S, base, g) ==
    \A s \in SUBSET S :
        iter[s] = IF s = {} THEN base ELSE g[<<ChosenOf(s), iter[s \ {ChosenOf(s)}]>>]

LEMMA SmallerSets ==
    ASSUME NEW S, IsFiniteSet(S), NEW s \in SUBSET S
    PROVE  /\ IsFiniteSet(s) /\ Cardinality(s) \in Nat /\ Cardinality(s) <= Cardinality(S)
           /\ s = {} <=> Cardinality(s) = 0
           /\ s # {} => /\ ChosenOf(s) \in s /\ ChosenOf(s) \in S
                        /\ s \ {ChosenOf(s)} \in SUBSET S
                        /\ Cardinality(s \ {ChosenOf(s)}) = Cardinality(s) - 1
<1>1. IsFiniteSet(s) /\ Cardinality(s) <= Cardinality(S)
      BY FS_Subset
<1>2. Cardinality(s) \in Nat /\ (s = {} <=> Cardinality(s) = 0)
      BY <1>1, FS_CardinalityType, FS_EmptySet
<1>3. s # {} => ChosenOf(s) \in s
      BY DEF ChosenOf
<1>4. s # {} => Cardinality(s \ {ChosenOf(s)}) = Cardinality(s) - 1
      BY <1>1, <1>3, FS_RemoveElement
<1>   QED  BY <1>1, <1>2, <1>3, <1>4

\* It exists, if what is folded with stays in A.
LEMMA FoldSetExists ==
    ASSUME NEW S, IsFiniteSet(S), NEW A, NEW base \in A, NEW g \in [S \X A -> A]
    PROVE  \E iter \in [SUBSET S -> A] : FoldsOver(iter, S, base, g)
<1>   DEFINE n == Cardinality(S)
             Step(iter, s) ==
                 iter[s] = IF s = {} THEN base ELSE g[<<ChosenOf(s), iter[s \ {ChosenOf(s)}]>>]
             UpToSize(iter, m) == \A s \in SUBSET S : Cardinality(s) <= m => Step(iter, s)
             M == {m \in 0..n : \E iter \in [SUBSET S -> A] : UpToSize(iter, m)}
<1>1. n \in Nat
      BY FS_CardinalityType
<1>2. \A s \in SUBSET S : /\ Cardinality(s) \in Nat /\ Cardinality(s) <= n
                          /\ s = {} <=> Cardinality(s) = 0
      BY SmallerSets
<1>2a. \A s \in SUBSET S :
          s # {} => /\ ChosenOf(s) \in s /\ ChosenOf(s) \in S
                    /\ s \ {ChosenOf(s)} \in SUBSET S
                    /\ Cardinality(s \ {ChosenOf(s)}) = Cardinality(s) - 1
      BY SmallerSets
<1>3. 0 \in M
  <2>   DEFINE iter == [s \in SUBSET S |-> base]
  <2>1. \A s \in SUBSET S : Cardinality(s) <= 0 => s = {}
    <3>   HIDE DEF n
    <3>   QED  BY <1>1, <1>2
  <2>2. UpToSize(iter, 0)
        BY <2>1
  <2>3. iter \in [SUBSET S -> A]
        OBVIOUS
  <2>   HIDE DEF iter, UpToSize
  <2>   QED  BY <1>1, <2>2, <2>3
<1>4. ASSUME NEW m \in 0..n - 1, m \in M PROVE m + 1 \in M
  <2>1. PICK old \in [SUBSET S -> A] : UpToSize(old, m)
        BY <1>4
  <2>   DEFINE iter == [s \in SUBSET S |->
                           IF Cardinality(s) = m + 1 THEN g[<<ChosenOf(s), old[s \ {ChosenOf(s)}]>>]
                           ELSE old[s]]
  <2>2. ASSUME NEW s \in SUBSET S, Cardinality(s) = m + 1 PROVE s # {}
    <3>   HIDE DEF n
    <3>   QED  BY <1>1, <1>2, <2>2
  <2>3. iter \in [SUBSET S -> A]
    <3>1. ASSUME NEW s \in SUBSET S, Cardinality(s) = m + 1
          PROVE  g[<<ChosenOf(s), old[s \ {ChosenOf(s)}]>>] \in A
      <4>1. ChosenOf(s) \in S /\ s \ {ChosenOf(s)} \in SUBSET S
            BY <1>2a, <2>2, <3>1
      <4>   QED  BY <4>1
    <3>   QED  BY <3>1
  <2>4. ASSUME NEW s \in SUBSET S, Cardinality(s) <= m + 1 PROVE Step(iter, s)
    <3>1. CASE s = {}
      <4>1. Cardinality(s) <= m /\ Cardinality(s) # m + 1
        <5>   HIDE DEF n
        <5>   QED  BY <1>1, <1>2, <3>1
      <4>2. old[s] = base
            BY <2>1, <3>1, <4>1
      <4>   QED  BY <3>1, <4>1, <4>2
    <3>2. CASE s # {}
      <4>   DEFINE t == s \ {ChosenOf(s)}
      <4>1. t \in SUBSET S /\ Cardinality(t) # m + 1
        <5>   HIDE DEF n
        <5>   QED  BY <1>1, <1>2, <1>2a, <2>4, <3>2
      <4>2. iter[t] = old[t]
            BY <4>1
      <4>3. iter[s] = g[<<ChosenOf(s), old[t]>>]
        <5>1. CASE Cardinality(s) = m + 1
              BY <5>1
        <5>2. CASE Cardinality(s) # m + 1
          <6>1. Cardinality(s) <= m
            <7>   HIDE DEF n
            <7>   QED  BY <1>1, <1>2, <2>4, <5>2
          <6>2. old[s] = g[<<ChosenOf(s), old[t]>>]
                BY <2>1, <3>2, <6>1
          <6>   QED  BY <5>2, <6>2
        <5>   QED  BY <5>1, <5>2
      <4>   QED  BY <3>2, <4>2, <4>3
    <3>   QED  BY <3>1, <3>2
  <2>5. m + 1 \in 0..n
        BY <1>1
  <2>6. UpToSize(iter, m + 1)
        BY <2>4
  <2>   HIDE DEF iter, UpToSize
  <2>   QED  BY <2>3, <2>5, <2>6
<1>5. n \in M
  <2>1. \A m \in 0..n : m \in M
    <3>   HIDE DEF M, n
    <3>   QED  BY <1>1, <1>3, <1>4, UpTo
  <2>   HIDE DEF M, n
  <2>   QED  BY <1>1, <2>1
<1>6. PICK iter \in [SUBSET S -> A] : UpToSize(iter, n)
      BY <1>5
<1>7. \A s \in SUBSET S : Step(iter, s)
      BY <1>2, <1>6
<1>   QED  BY <1>7 DEF FoldsOver

\* Induction over finite sets: each is the set without a chosen member, and that.
LEMMA SetsUpTo ==
    ASSUME NEW S, IsFiniteSet(S), NEW R, {} \in R,
           \A s \in SUBSET S : s # {} /\ s \ {ChosenOf(s)} \in R => s \in R
    PROVE  \A s \in SUBSET S : s \in R
<1>   DEFINE n == Cardinality(S)
             M == {m \in 0..n : \A s \in SUBSET S : Cardinality(s) <= m => s \in R}
<1>1. n \in Nat
      BY FS_CardinalityType
<1>2. \A s \in SUBSET S : /\ Cardinality(s) \in Nat /\ Cardinality(s) <= n
                          /\ s = {} <=> Cardinality(s) = 0
      BY SmallerSets
<1>3. \A s \in SUBSET S :
          s # {} => /\ s \ {ChosenOf(s)} \in SUBSET S
                    /\ Cardinality(s \ {ChosenOf(s)}) = Cardinality(s) - 1
      BY SmallerSets
<1>4. 0 \in M
  <2>   HIDE DEF n
  <2>1. \A s \in SUBSET S : Cardinality(s) <= 0 => s = {}
        BY <1>1, <1>2
  <2>   QED  BY <1>1, <2>1
<1>5. ASSUME NEW m \in 0..n - 1, m \in M PROVE m + 1 \in M
  <2>   HIDE DEF n
  <2>1. ASSUME NEW s \in SUBSET S, Cardinality(s) <= m + 1, s # {} PROVE s \in R
    <3>1. s \ {ChosenOf(s)} \in SUBSET S /\ Cardinality(s \ {ChosenOf(s)}) <= m
          BY <1>1, <1>2, <1>3, <2>1
    <3>2. s \ {ChosenOf(s)} \in R
          BY <1>5, <3>1
    <3>   QED  BY <2>1, <3>2
  <2>2. m + 1 \in 0..n
        BY <1>1
  <2>   QED  BY <2>1, <2>2
<1>6. \A m \in 0..n : m \in M
  <2>   HIDE DEF M, n
  <2>   QED  BY <1>1, <1>4, <1>5, UpTo
<1>7. n \in M
  <2>   HIDE DEF M, n
  <2>   QED  BY <1>1, <1>6
<1>   QED  BY <1>2, <1>7

-----------------------------------------------------------------------------
\* Sets.

LEMMA FiniteImage ==
    ASSUME NEW S, IsFiniteSet(S), NEW f
    PROVE  IsFiniteSet({f[x] : x \in S})
<1>   DEFINE T == {f[x] : x \in S}
             g == [x \in S |-> f[x]]
<1>1. g \in Surjection(S, T)
      BY DEF Surjection
<1>   QED  BY <1>1, FS_Surjection

-----------------------------------------------------------------------------
\* What is defined from the end backwards.

LEMMA FromTheEnd ==
    ASSUME NEW n \in Nat, NEW S, \A m \in 1..n : (\A k \in m + 1..n : k \in S) => m \in S
    PROVE  \A m \in 1..n : m \in S
<1>   DEFINE T == {d \in 0..n : \A k \in n - d + 1..n : k \in S}
<1>1. 0 \in T
  <2>1. \A k \in n - 0 + 1..n : FALSE
        OBVIOUS
  <2>   QED  BY <2>1
<1>2. ASSUME NEW d \in 0..n - 1, d \in T PROVE d + 1 \in T
  <2>1. PICK m : m = n - d
        OBVIOUS
  <2>2. m \in 1..n /\ d + 1 \in 0..n /\ n - (d + 1) + 1 = m /\ n - d + 1 = m + 1
        BY <2>1
  <2>3. \A k \in m + 1..n : k \in S
        BY <1>2, <2>2
  <2>4. m \in S
        BY <2>2, <2>3
  <2>5. \A k \in m..n : k = m \/ k \in m + 1..n
        BY <2>2
  <2>   QED  BY <2>2, <2>3, <2>4, <2>5
<1>   HIDE DEF T
<1>3. n \in T
  <2>1. \A k \in 0..n : k \in T
        BY <1>1, <1>2, UpTo
  <2>   QED  BY <2>1
<1>4. n - n + 1 = 1
      OBVIOUS
<1>   QED  BY <1>3, <1>4 DEF T

\* G makes a value for each place from those of later places only.
FromLater(n, A, G) ==
    /\ G \in [1..n -> [[1..n -> A] -> A]]
    /\ \A m \in 1..n : \A f, h \in [1..n -> A] :
          (\A k \in m + 1..n : f[k] = h[k]) => G[m][f] = G[m][h]

MadeBy(f, n, A, G) == f \in [1..n -> A] /\ \A m \in 1..n : f[m] = G[m][f]

LEMMA Backwards ==
    ASSUME NEW n, n \in Nat, NEW A, A # {}, NEW G, FromLater(n, A, G)
    PROVE  \E f : MadeBy(f, n, A, G)
<1>0. /\ G \in [1..n -> [[1..n -> A] -> A]]
      /\ \A m \in 1..n : \A f, h \in [1..n -> A] :
            (\A k \in m + 1..n : f[k] = h[k]) => G[m][f] = G[m][h]
      BY DEF FromLater
<1>   DEFINE T == {d \in 0..n : \E f \in [1..n -> A] : \A m \in n - d + 1..n : m >= 1 => f[m] = G[m][f]}
<1>1. 0 \in T
  <2>1. \A k \in n - 0 + 1..n : FALSE
        OBVIOUS
  <2>2. PICK a \in A : TRUE
        OBVIOUS
  <2>3. PICK f \in [1..n -> A] : f = [m \in 1..n |-> a]
        OBVIOUS
  <2>4. \A m \in n - 0 + 1..n : m >= 1 => f[m] = G[m][f]
        BY <2>1
  <2>5. 0 \in 0..n
        OBVIOUS
  <2>   QED  BY <2>4, <2>5
<1>2. ASSUME NEW d \in 0..n - 1, d \in T PROVE d + 1 \in T
  <2>1. PICK p : p = n - d
        OBVIOUS
  <2>2. p \in 1..n /\ d + 1 \in 0..n /\ n - (d + 1) + 1 = p /\ n - d + 1 = p + 1
        BY <2>1
  <2>3. PICK f \in [1..n -> A] : \A m \in p + 1..n : m >= 1 => f[m] = G[m][f]
        BY <1>2, <2>2
  <2>4. PICK h : h = [m \in 1..n |-> IF m = p THEN G[p][f] ELSE f[m]]
        OBVIOUS
  <2>5. G[p][f] \in A
        BY <1>0, <2>2
  <2>6. h \in [1..n -> A] /\ h[p] = G[p][f] /\ \A m \in 1..n : m # p => h[m] = f[m]
        BY <2>2, <2>4, <2>5
  <2>7. ASSUME NEW m \in p..n PROVE h[m] = G[m][h]
    <3>1. m \in 1..n /\ m >= 1 /\ (m # p => m \in p + 1..n)
          BY <2>2
    <3>2. ASSUME NEW k \in m + 1..n PROVE f[k] = h[k]
      <4>1. k \in 1..n /\ k # p
            BY <2>2, <3>1
      <4>   QED  BY <2>6, <4>1
    <3>3. G[m][f] = G[m][h]
          BY <1>0, <2>6, <3>1, <3>2
    <3>4. CASE m = p
          BY <2>6, <3>3, <3>4
    <3>5. CASE m # p
      <4>1. h[m] = f[m] /\ f[m] = G[m][f]
            BY <2>3, <2>6, <3>1, <3>5
      <4>   QED  BY <3>3, <4>1
    <3>   QED  BY <3>4, <3>5
  <2>8. \A m \in p..n : m >= 1 => h[m] = G[m][h]
        BY <2>7
  <2>   QED  BY <2>2, <2>6, <2>8
<1>   HIDE DEF T
<1>3. n \in T
  <2>1. \A k \in 0..n : k \in T
        BY <1>1, <1>2, UpTo
  <2>   QED  BY <2>1
<1>4. n - n + 1 = 1 /\ \A m \in 1..n : m >= 1
      OBVIOUS
<1>   QED  BY <1>3, <1>4 DEF T, MadeBy
=============================================================================
