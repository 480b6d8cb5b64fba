---------------------------- MODULE DataLoadProofs ----------------------------
(***************************************************************************)
(* For all settings, sources and failures: while data is loaded, however   *)
(* deep searches follow relations, no list ever has two objects of one id, *)
(* no object is related to another that the settings do not relate it to,  *)
(* and none is kept without the relations that its type requires.          *)
(***************************************************************************)
EXTENDS DataLoad, FoldLemmas

-----------------------------------------------------------------------------
\* What is picked from a list.

\* What is picked from the first elements of a list, one after the other.
IsPicking(f, list, places) ==
    /\ f[0] = <<>>
    /\ \A k \in 0..Len(list) - 1 :
          f[k + 1] = IF k + 1 \in places THEN Append(f[k], list[k + 1]) ELSE f[k]

LEMMA PickingExists ==
    ASSUME NEW A, NEW list \in Seq(A), NEW places
    PROVE  \E f : IsPicking(f, list, places) /\ Picked(list, places) = f[Len(list)]
<1>   DEFINE n == Len(list)
             seq == [k \in DOMAIN list |-> k]
             D == DOMAIN seq
             B == Seq(A)
             Pick(picked, k) == IF k \in places THEN Append(picked, list[k]) ELSE picked
             Iter(it) == it = [x \in SUBSET D |->
                                 IF x = {} THEN <<>> ELSE Pick(it[x \ {Max(x)}], seq[Max(x)])]
             iter == CHOOSE it : Iter(it)
<1>1. n \in Nat /\ DOMAIN list = 1..n /\ D = 1..n
      BY LenProperties
<1>2. Picked(list, places) = iter[D]
      BY DEF Picked, FoldLeft, MapThenFoldSet
<1>3. <<>> \in B
      BY EmptySeq
<1>4. ASSUME NEW picked \in B, NEW k \in 1..n PROVE Pick(picked, k) \in B
  <2>1. list[k] \in A
        BY <1>1, ElementOfSeq
  <2>   QED  BY <2>1, AppendProperties
<1>   HIDE DEF B, Pick
<1>5. \E it : Iter(it)
  <2>   DEFINE g == [p \in (1..n) \X B |-> Pick(p[2], p[1])]
  <2>1. g \in [(1..n) \X B -> B]
        BY <1>4
  <2>2. PICK it \in [SUBSET (1..n) -> B] : FoldsTo(it, n, <<>>, g)
    <3>   HIDE DEF g, n
    <3>   QED  BY <1>1, <1>3, <2>1, FoldExists
  <2>3. ASSUME NEW x \in SUBSET (1..n)
        PROVE  it[x] = IF x = {} THEN <<>> ELSE Pick(it[x \ {Max(x)}], seq[Max(x)])
    <3>1. it[x] = IF x = {} THEN <<>> ELSE g[<<Max(x), it[x \ {Max(x)}]>>]
          BY <2>2 DEF FoldsTo
    <3>2. ASSUME x # {}
          PROVE  g[<<Max(x), it[x \ {Max(x)}]>>] = Pick(it[x \ {Max(x)}], seq[Max(x)])
      <4>1. Max(x) \in 1..n
            BY <1>1, <3>2, MaxOf
      <4>2. it[x \ {Max(x)}] \in B
            OBVIOUS
      <4>3. seq[Max(x)] = Max(x)
            BY <1>1, <4>1
      <4>   HIDE DEF seq, n
      <4>   QED  BY <4>1, <4>2, <4>3
    <3>   HIDE DEF g, seq
    <3>   QED  BY <3>1, <3>2
  <2>4. it = [x \in SUBSET (1..n) |-> it[x]]
        OBVIOUS
  <2>5. Iter(it)
    <3>   HIDE DEF seq, n
    <3>   QED  BY <1>1, <2>3, <2>4
  <2>   QED  BY <2>5
<1>6. Iter(iter)
  <2>   HIDE DEF Iter
  <2>   QED  BY <1>5
<1>   HIDE DEF iter, D
<1>   DEFINE f == [k \in 0..n |-> iter[1..k]]
<1>7. f[0] = <<>> /\ iter[D] = f[n]
      BY <1>1, <1>6
<1>8. ASSUME NEW k \in 0..n - 1 PROVE f[k + 1] = Pick(f[k], k + 1)
  <2>1. /\ 1..k + 1 \in SUBSET (1..n) /\ 1..k + 1 # {}
        /\ Max(1..k + 1) = k + 1
        /\ (1..k + 1) \ {k + 1} = 1..k
        BY <1>1, PlacesUpTo
  <2>2. seq[k + 1] = k + 1
        BY <1>1
  <2>   HIDE DEF seq
  <2>3. iter[1..k + 1] = Pick(iter[1..k], k + 1)
        BY <1>1, <1>6, <2>1, <2>2
  <2>   QED  BY <1>1, <2>3
<1>   HIDE DEF f
<1>9. IsPicking(f, list, places)
      BY <1>7, <1>8 DEF IsPicking, Pick
<1>   QED  BY <1>2, <1>7, <1>9

\* Picked is what is at the places, and nothing else.
IsPick(picked, list, places, A) ==
    /\ picked \in Seq(A)
    /\ \A k \in 1..Len(picked) : \E n \in DOMAIN list : n \in places /\ picked[k] = list[n]
    /\ \A n \in DOMAIN list : n \in places => \E k \in 1..Len(picked) : picked[k] = list[n]

LEMMA PickedIs ==
    ASSUME NEW A, NEW list \in Seq(A), NEW places
    PROVE  IsPick(Picked(list, places), list, places, A)
<1>1. PICK f : IsPicking(f, list, places) /\ Picked(list, places) = f[Len(list)]
      BY PickingExists
<1>   DEFINE L == Len(list)
             Right(s, m) == /\ s \in Seq(A)
                            /\ \A k \in 1..Len(s) :
                                  \E n \in 1..m : n \in places /\ s[k] = list[n]
                            /\ \A n \in 1..m : n \in places =>
                                  \E k \in 1..Len(s) : s[k] = list[n]
             S == {m \in 0..L : Right(f[m], m)}
<1>2. L \in Nat /\ DOMAIN list = 1..L
      BY LenProperties
<1>3. 0 \in S
  <2>1. f[0] = <<>> /\ Len(<<>>) = 0 /\ <<>> \in Seq(A)
        BY <1>1 DEF IsPicking
  <2>2. Right(<<>>, 0)
        BY <2>1
  <2>   HIDE DEF Right
  <2>   QED  BY <1>2, <2>1, <2>2
<1>4. ASSUME NEW m \in 0..L - 1, m \in S PROVE m + 1 \in S
  <2>   DEFINE s == f[m]
               t == f[m + 1]
               i == m + 1
  <2>1. /\ i \in 1..L /\ i \in 0..L /\ m \in 0..L
        /\ \A n \in 1..i : n \in 1..m \/ n = i
        /\ i \in 1..i /\ \A n \in 1..m : n \in 1..i
        BY <1>2
  <2>2. t = IF i \in places THEN Append(s, list[i]) ELSE s
        BY <1>1 DEF IsPicking
  <2>3. Right(s, m)
        BY <1>4
  <2>   HIDE DEF s, t, i
  <2>4. CASE i \notin places
    <3>1. t = s
          BY <2>2, <2>4
    <3>2. Right(s, i)
          BY <2>1, <2>3, <2>4
    <3>   HIDE DEF Right
    <3>3. Right(t, i)
          BY <3>1, <3>2
    <3>   QED  BY <2>1, <3>3 DEF t, i
  <2>5. CASE i \in places
    <3>   DEFINE x == list[i]
                 l == Len(s)
    <3>1. x \in A
          BY <1>2, <2>1, ElementOfSeq
    <3>2. /\ t \in Seq(A) /\ Len(t) = l + 1 /\ t[l + 1] = x
          /\ \A k \in 1..l : t[k] = s[k]
      <4>1. t = Append(s, x)
            BY <2>2, <2>5
      <4>   HIDE DEF x
      <4>   QED  BY <2>3, <3>1, <4>1, AppendProperties
    <3>3. l \in Nat
          BY <2>3, LenProperties
    <3>   HIDE DEF l, x
    <3>4. ASSUME NEW k \in 1..Len(t) PROVE \E n \in 1..i : n \in places /\ t[k] = list[n]
      <4>1. CASE k = l + 1
            BY <2>1, <2>5, <3>2, <4>1 DEF x
      <4>2. CASE k # l + 1
        <5>1. k \in 1..l
              BY <3>2, <3>3, <4>2
        <5>2. PICK n \in 1..m : n \in places /\ s[k] = list[n]
              BY <2>3, <5>1 DEF l
        <5>   QED  BY <2>1, <3>2, <5>1, <5>2
      <4>   QED  BY <4>1, <4>2
    <3>5. ASSUME NEW n \in 1..i, n \in places PROVE \E k \in 1..Len(t) : t[k] = list[n]
      <4>1. CASE n = i
        <5>1. l + 1 \in 1..Len(t)
              BY <3>2, <3>3
        <5>   QED  BY <3>2, <4>1, <5>1 DEF x
      <4>2. CASE n # i
        <5>1. PICK k \in 1..l : s[k] = list[n]
              BY <2>1, <2>3, <3>5, <4>2 DEF l
        <5>2. k \in 1..Len(t)
              BY <3>2, <3>3
        <5>   QED  BY <3>2, <5>1, <5>2
      <4>   QED  BY <4>1, <4>2
    <3>6. Right(t, i)
          BY <3>2, <3>4, <3>5
    <3>   HIDE DEF Right
    <3>   QED  BY <2>1, <3>6 DEF t, i
  <2>   QED  BY <2>4, <2>5
<1>5. L \in S
  <2>   HIDE DEF S, L
  <2>1. \A k \in 0..L : k \in S
        BY <1>2, <1>3, <1>4, UpTo
  <2>   QED  BY <1>2, <2>1
<1>   QED  BY <1>1, <1>2, <1>5 DEF IsPick

-----------------------------------------------------------------------------
\* Settings.

LEMMA ConfigIs ==
    ASSUME config \in Configs, source \in Sources
    PROVE  /\ config.order \in Seq(Type)
           /\ config.master \in Sourced /\ config.remote \in Sourced
           /\ \A t \in Type : config.relations[t] \in Seq(Relation)
           /\ \A t \in Type : source[t] \in Seq(Entry)
<1>1. config \in Config
      BY LoadAssumption
<1>2. config.kind[config.master] # "generated" /\ config.kind[config.remote] # "generated"
      BY LoadAssumption
<1>3. config.master \in Type /\ config.remote \in Type
      BY <1>1 DEF Config
<1>4. config.order \in Seq(Type) /\ \A t \in Type : config.relations[t] \in Seq(Relation)
      BY <1>1 DEF Config
<1>5. \A t \in Type : source[t] \in Seq(Entry)
      BY LoadAssumption
<1>   QED  BY <1>2, <1>3, <1>4, <1>5 DEF Sourced

\* The relations of a type are those of the settings, in another order.
LEMMA RelationsAre ==
    ASSUME config \in Configs, source \in Sources, NEW t \in Type
    PROVE  /\ Relations(t) \in Seq(Relation)
           /\ \A k \in 1..Len(Relations(t)) :
                 /\ Relations(t)[k] \in Relation
                 /\ Relations(t)[k] \in RelationsTo(t, Relations(t)[k].type)
           /\ \A s \in Type : \A r \in RelationsTo(t, s) :
                 \E k \in 1..Len(Relations(t)) : Relations(t)[k] = r
           /\ config.relations[t] = <<>> => Len(Relations(t)) = 0
           /\ config.relations[t] # <<>> => Relations(t) # <<>>
<1>   DEFINE all == config.relations[t]
             required == {n \in DOMAIN all : all[n].require}
             first == Picked(all, required)
             others == Picked(all, DOMAIN all \ required)
             l == Len(first)
             m == Len(others)
<1>1. all \in Seq(Relation)
      BY ConfigIs
<1>   HIDE DEF all
<1>2. DOMAIN all = 1..Len(all) /\ Len(all) \in Nat
      BY <1>1, LenProperties
<1>3. /\ first \in Seq(Relation)
      /\ \A k \in 1..l : \E n \in DOMAIN all : first[k] = all[n]
      /\ \A n \in DOMAIN all : n \in required => \E k \in 1..l : first[k] = all[n]
  <2>   HIDE DEF required
  <2>1. IsPick(first, all, required, Relation)
        BY <1>1, PickedIs
  <2>   HIDE DEF first
  <2>   QED  BY <2>1 DEF IsPick
<1>4. /\ others \in Seq(Relation)
      /\ \A k \in 1..m : \E n \in DOMAIN all : others[k] = all[n]
      /\ \A n \in DOMAIN all : n \notin required => \E k \in 1..m : others[k] = all[n]
  <2>   DEFINE optional == DOMAIN all \ required
  <2>1. /\ others \in Seq(Relation)
        /\ \A k \in 1..m : \E n \in DOMAIN all : n \in optional /\ others[k] = all[n]
        /\ \A n \in DOMAIN all : n \in optional => \E k \in 1..m : others[k] = all[n]
    <3>   HIDE DEF optional
    <3>1. IsPick(others, all, optional, Relation)
          BY <1>1, PickedIs DEF optional
    <3>   HIDE DEF others
    <3>   QED  BY <3>1 DEF IsPick
  <2>   HIDE DEF required, others
  <2>   QED  BY <2>1
<1>   HIDE DEF first, others, required
<1>5. Relations(t) = first \o others
      BY DEF Relations, first, others, required, all
<1>   HIDE DEF l, m
<1>6. /\ Relations(t) \in Seq(Relation) /\ Len(Relations(t)) = l + m
      /\ l \in Nat /\ m \in Nat
      /\ \A k \in 1..l + m : Relations(t)[k] = IF k <= l THEN first[k] ELSE others[k - l]
      BY <1>3, <1>4, <1>5, ConcatProperties, LenProperties DEF l, m
<1>7. ASSUME NEW k \in 1..l + m PROVE \E n \in DOMAIN all : Relations(t)[k] = all[n]
  <2>1. CASE k <= l
    <3>1. k \in 1..l
          BY <1>6, <2>1
    <3>   QED  BY <1>3, <1>6, <2>1, <3>1
  <2>2. CASE ~(k <= l)
    <3>1. k - l \in 1..m
          BY <1>6, <2>2
    <3>   QED  BY <1>4, <1>6, <2>2, <3>1
  <2>   QED  BY <2>1, <2>2
<1>8. ASSUME NEW n \in DOMAIN all PROVE \E k \in 1..l + m : Relations(t)[k] = all[n]
  <2>1. CASE n \in required
    <3>1. PICK k \in 1..l : first[k] = all[n]
          BY <1>3, <2>1
    <3>2. k \in 1..l + m /\ k <= l
          BY <1>6
    <3>   QED  BY <1>6, <3>1, <3>2
  <2>2. CASE n \notin required
    <3>1. PICK k \in 1..m : others[k] = all[n]
          BY <1>4, <2>2
    <3>2. l + k \in 1..l + m /\ ~(l + k <= l) /\ (l + k) - l = k
          BY <1>6
    <3>   QED  BY <1>6, <3>1, <3>2
  <2>   QED  BY <2>1, <2>2
<1>9. \A k \in 1..l + m : Relations(t)[k] \in Relation /\ Relations(t)[k] \in RelationsTo(t, Relations(t)[k].type)
  <2>1. \A k \in 1..l + m : Relations(t)[k] \in Relation
        BY <1>6, ElementOfSeq
  <2>2. \A k \in 1..l + m : Relations(t)[k] \in RelationsTo(t, Relations(t)[k].type)
        BY <1>7 DEF RelationsTo, all
  <2>   QED  BY <2>1, <2>2
<1>10. \A s \in Type : \A r \in RelationsTo(t, s) : \E k \in 1..l + m : Relations(t)[k] = r
      BY <1>8 DEF RelationsTo, all
<1>11. ASSUME all = <<>> PROVE l + m = 0
  <2>1. DOMAIN all = {}
        BY <1>11
  <2>2. SUFFICES ASSUME l + m # 0 PROVE FALSE
        OBVIOUS
  <2>3. 1 \in 1..l + m
        BY <1>6, <2>2
  <2>   QED  BY <1>7, <2>1, <2>3
<1>12. ASSUME all # <<>> PROVE Relations(t) # <<>>
  <2>1. 1 \in DOMAIN all
        BY <1>1, <1>2, <1>12
  <2>2. PICK k \in 1..l + m : Relations(t)[k] = all[1]
        BY <1>8, <2>1
  <2>3. l + m # 0
        BY <1>6, <2>2
  <2>   QED  BY <1>6, <2>3
<1>   QED  BY <1>6, <1>9, <1>10, <1>11, <1>12 DEF all

\* Settings do not change, and what is said of them stays as it is.
SettingsStay == config' = config /\ source' = source

LEMMA SettingsSame ==
    ASSUME SettingsStay
    PROVE  /\ Sourced' = Sourced
           /\ \A t : Relations(t)' = Relations(t) /\ Entries(t)' = Entries(t)
           /\ \A s, t : RelationsTo(s, t)' = RelationsTo(s, t)
           /\ \A s, p, t, q : Related(s, p, t, q)' <=> Related(s, p, t, q)
<1>1. config' = config /\ source' = source
      BY DEF SettingsStay
<1>2. \A t : Relations(t)' = Relations(t)
      BY <1>1 DEF Relations
<1>3. \A t : Entries(t)' = Entries(t)
      BY <1>1 DEF Entries
<1>4. \A s, t : RelationsTo(s, t)' = RelationsTo(s, t)
      BY <1>1 DEF RelationsTo
<1>5. ASSUME NEW s, NEW p, NEW t, NEW q
      PROVE  Related(s, p, t, q)' <=> Related(s, p, t, q)
      BY <1>4 DEF Related, Refers
<1>6. Sourced' = Sourced
      BY <1>1 DEF Sourced
<1>   QED  BY <1>2, <1>3, <1>4, <1>5, <1>6

-----------------------------------------------------------------------------
\* The heap.

HeapInv ==
    /\ heap \in Seq(Instance)
    /\ \A i \in DOMAIN heap : IsFromSource(heap[i]) /\ LinksAreMeant(i)

\* Objects stay where they are; they are related to more and more others.
HeapGrows ==
    /\ DOMAIN heap \subseteq DOMAIN heap'
    /\ \A i \in DOMAIN heap :
          /\ heap'[i].type = heap[i].type /\ heap'[i].id = heap[i].id
          /\ heap'[i].key = heap[i].key /\ heap'[i].refs = heap[i].refs
          /\ heap[i].links \subseteq heap'[i].links

LEMMA ObjectsAre ==
    ASSUME heap \in Seq(Instance)
    PROVE  /\ Len(heap) \in Nat /\ DOMAIN heap = 1..Len(heap)
           /\ \A i \in DOMAIN heap :
                 /\ heap[i] \in Instance
                 /\ heap[i].type \in Type /\ heap[i].id \in Uid
                 /\ heap[i].links \subseteq Type \X Uid
                 /\ \A t \in Type : heap[i].refs[t] \in Seq(Value)
<1>1. Len(heap) \in Nat /\ DOMAIN heap = 1..Len(heap) /\ \A i \in DOMAIN heap : heap[i] \in Instance
      BY LenProperties, ElementOfSeq
<1>2. \A o \in Instance : /\ o.type \in Type /\ o.id \in Uid
                          /\ o.links \subseteq Type \X Uid
                          /\ \A t \in Type : o.refs[t] \in Seq(Value)
      BY DEF Instance
<1>   QED  BY <1>1, <1>2, Zenon

\* Whether objects are related depends on their keys and references only.
LEMMA RelatedSame ==
    ASSUME NEW p, NEW q, NEW o, NEW u, o.refs = p.refs, o.key = p.key, u.refs = q.refs, u.key = q.key,
           NEW s, NEW t
    PROVE  /\ Related(s, p, t, q) => Related(s, o, t, u)
           /\ Refers(p, t, q) => Refers(o, t, u)
BY DEF Related, Refers

LEMMA RelatedBothWays ==
    ASSUME NEW s, NEW p, NEW t, NEW q, Related(s, p, t, q)
    PROVE  Related(t, q, s, p)
BY Zenon DEF Related

\* Settings being what they are, it is enough to look at the new objects.
LEMMA RelatedLater ==
    ASSUME SettingsStay, NEW i, NEW j, Related(heap'[i].type, heap'[i], heap'[j].type, heap'[j])
    PROVE  Related(heap[i].type, heap[i], heap[j].type, heap[j])'
<1>   SUFFICES ASSUME NEW p, NEW q, p = heap'[i], q = heap'[j]
               PROVE  Related(heap[i].type, heap[i], heap[j].type, heap[j])'
      OBVIOUS
<1>1. Related(p.type, p, q.type, q)
      OBVIOUS
<1>2. Related(p.type, p, q.type, q)'
      BY <1>1, SettingsSame
<1>   QED  BY <1>2 DEF Related, Refers, RelationsTo

LEMMA ListKept ==
    ASSUME HeapGrows, NEW t, NEW list, IsListOf(t, list)
    PROVE  IsListOf(t, list)'
<1>1. /\ list \subseteq DOMAIN heap
      /\ \A i \in list : heap[i].type = t
      /\ \A i, j \in list : heap[i].id = heap[j].id => i = j
      BY DEF IsListOf
<1>2. \A i \in list : heap'[i].type = heap[i].type /\ heap'[i].id = heap[i].id /\ i \in DOMAIN heap'
      BY <1>1 DEF HeapGrows
<1>   QED  BY <1>1, <1>2 DEF IsListOf

LEMMA MadeKept ==
    ASSUME HeapGrows, NEW i \in DOMAIN heap, NEW r, Made(i, r)
    PROVE  Made(i, r)'
<1>1. PICK j \in DOMAIN heap :
          heap[j].type = r.type /\ Linked(i, j) /\ Refers(heap[i], r.type, heap[j])
      BY DEF Made
<1>2. /\ j \in DOMAIN heap' /\ heap'[j].type = heap[j].type
      /\ <<heap'[j].type, heap'[j].id>> \in heap'[i].links
      BY <1>1 DEF HeapGrows, Linked
<1>3. Refers(heap'[i], r.type, heap'[j])
      BY <1>1, RelatedSame DEF HeapGrows
<1>4. Linked(i, j)'
      BY <1>2 DEF Linked
<1>5. Refers(heap[i], r.type, heap[j])'
      BY <1>3 DEF Refers
<1>   QED  BY <1>1, <1>2, <1>4, <1>5 DEF Made

LEMMA MadeBeforeKept ==
    ASSUME HeapGrows, SettingsStay, NEW i \in DOMAIN heap, NEW t, NEW n, MadeBefore(i, t, n)
    PROVE  MadeBefore(i, t, n)'
<1>1. Relations(t)' = Relations(t)
      BY SettingsSame
<1>2. ASSUME NEW k \in 1..n - 1, Relations(t)[k].require PROVE Made(i, Relations(t)[k])'
  <2>   DEFINE rs == Relations(t)
  <2>1. Made(i, rs[k])
        BY <1>2 DEF MadeBefore
  <2>2. \A r : Made(i, r) => Made(i, r)'
        BY MadeKept
  <2>3. \A r : r = Relations(t)[k] => Made(i, r)'
        BY <2>1, <2>2
  <2>   QED  BY <1>1, <2>3 DEF Made
<1>   QED  BY <1>1, <1>2 DEF MadeBefore

\* New objects, which are related to no other yet, are put after those that there are.
LEMMA HeapExtended ==
    ASSUME HeapInv, SettingsStay, NEW new \in Seq(Instance), heap' = heap \o new,
           \A k \in 1..Len(new) : new[k].links = {} /\ IsFromSource(new[k])
    PROVE  /\ HeapInv' /\ HeapGrows
           /\ \A k \in 1..Len(new) : Len(heap) + k \in DOMAIN heap' /\ heap'[Len(heap) + k] = new[k]
<1>   DEFINE l == Len(heap)
             m == Len(new)
<1>1. /\ l \in Nat /\ m \in Nat /\ DOMAIN heap = 1..l
      /\ heap' \in Seq(Instance) /\ Len(heap') = l + m
      /\ \A i \in 1..l + m : heap'[i] = IF i <= l THEN heap[i] ELSE new[i - l]
      BY ConcatProperties, LenProperties DEF HeapInv
<1>2. DOMAIN heap' = 1..l + m
      BY <1>1, LenProperties
<1>   HIDE DEF l, m
<1>3. \A i \in 1..l : i \in 1..l + m /\ heap'[i] = heap[i]
      BY <1>1
<1>4. \A k \in 1..m : l + k \in 1..l + m /\ heap'[l + k] = new[k]
  <2>1. \A k \in 1..m : l + k \in 1..l + m /\ ~(l + k <= l) /\ (l + k) - l = k
        BY <1>1
  <2>   QED  BY <1>1, <2>1
<1>5. HeapGrows
      BY <1>1, <1>2, <1>3 DEF HeapGrows
<1>6. \A o : IsFromSource(o) => IsFromSource(o)'
      BY SettingsSame DEF IsFromSource
<1>7. ASSUME NEW i \in 1..l + m PROVE IsFromSource(heap[i])' /\ LinksAreMeant(i)'
  <2>1. CASE i \in 1..l
    <3>1. IsFromSource(heap[i]) /\ LinksAreMeant(i)
          BY <1>1, <2>1 DEF HeapInv
    <3>1a. IsFromSource(heap'[i])
          BY <1>3, <2>1, <3>1
    <3>2. IsFromSource(heap[i])'
          BY <1>6, <3>1a DEF IsFromSource
    <3>3. ASSUME NEW link \in heap[i].links
          PROVE  \E j \in DOMAIN heap' : /\ link = <<heap'[j].type, heap'[j].id>>
                                         /\ Related(heap[i].type, heap[i], heap[j].type, heap[j])'
      <4>1. PICK j \in 1..l : /\ link = <<heap[j].type, heap[j].id>>
                              /\ Related(heap[i].type, heap[i], heap[j].type, heap[j])
            BY <1>1, <3>1 DEF LinksAreMeant
      <4>2. heap'[j] = heap[j] /\ heap'[i] = heap[i] /\ j \in DOMAIN heap'
            BY <1>2, <1>3, <2>1
      <4>3. Related(heap'[i].type, heap'[i], heap'[j].type, heap'[j])
            BY <4>1, <4>2
      <4>4. Related(heap[i].type, heap[i], heap[j].type, heap[j])'
            BY <4>3, RelatedLater
      <4>   QED  BY <4>1, <4>2, <4>4
    <3>   QED  BY <1>3, <2>1, <3>2, <3>3 DEF LinksAreMeant
  <2>2. CASE i \notin 1..l
    <3>1. i - l \in 1..m /\ ~(i <= l)
          BY <1>1, <2>2
    <3>2. heap'[i] = new[i - l]
          BY <1>1, <3>1
    <3>3. heap'[i].links = {} /\ IsFromSource(heap'[i])
          BY <3>1, <3>2 DEF m
    <3>4. IsFromSource(heap[i])'
          BY <1>6, <3>3 DEF IsFromSource
    <3>   QED  BY <3>3, <3>4 DEF LinksAreMeant
  <2>   QED  BY <2>1, <2>2
<1>8. HeapInv'
      BY <1>1, <1>2, <1>7 DEF HeapInv
<1>   QED  BY <1>2, <1>4, <1>5, <1>8 DEF l, m

\* Two objects are related, each of them with the other.
LEMMA EstablishIs ==
    ASSUME HeapInv, SettingsStay, NEW i \in DOMAIN heap, NEW j \in DOMAIN heap,
           heap' = Establish(heap, i, j),
           Related(heap[i].type, heap[i], heap[j].type, heap[j])
    PROVE  HeapInv' /\ HeapGrows /\ Linked(i, j)'
<1>   DEFINE l == Len(heap)
             a == <<heap[j].type, heap[j].id>>
             b == <<heap[i].type, heap[i].id>>
             links(k) == heap[k].links \cup (IF k = i THEN {a} ELSE {}) \cup (IF k = j THEN {b} ELSE {})
<1>1. /\ l \in Nat /\ DOMAIN heap = 1..l
      /\ \A k \in 1..l : heap[k] \in Instance
      /\ a \in Type \X Uid /\ b \in Type \X Uid
      BY ObjectsAre DEF HeapInv
<1>2. heap' = [k \in 1..l |-> [heap[k] EXCEPT !.links = links(k)]]
      BY <1>1 DEF Establish
<1>   HIDE DEF l, a, b
<1>3. ASSUME NEW k \in 1..l PROVE links(k) \subseteq Type \X Uid
  <2>1. heap[k].links \subseteq Type \X Uid
        BY <1>1 DEF Instance
  <2>   QED  BY <1>1, <2>1
<1>   HIDE DEF links
<1>4. ASSUME NEW k \in 1..l
      PROVE  /\ heap'[k] \in Instance
             /\ heap'[k].type = heap[k].type /\ heap'[k].id = heap[k].id
             /\ heap'[k].key = heap[k].key /\ heap'[k].refs = heap[k].refs
             /\ heap'[k].links = links(k)
  <2>1. heap'[k] = [heap[k] EXCEPT !.links = links(k)]
        BY <1>2
  <2>2. heap[k] \in Instance /\ links(k) \in SUBSET (Type \X Uid)
        BY <1>1, <1>3
  <2>   QED  BY <2>1, <2>2 DEF Instance
<1>5. heap' \in Seq(Instance) /\ DOMAIN heap' = 1..l
  <2>1. heap' \in [1..l -> Instance]
        BY <1>2, <1>4
  <2>   QED  BY <1>1, <2>1, SeqDef
<1>6. HeapGrows
      BY <1>1, <1>4, <1>5 DEF HeapGrows, links
<1>7. Linked(i, j)'
  <2>1. a \in links(i) /\ i \in 1..l /\ j \in 1..l
        BY <1>1 DEF links
  <2>2. <<heap'[j].type, heap'[j].id>> \in heap'[i].links
        BY <1>4, <2>1 DEF a
  <2>   QED  BY <2>2 DEF Linked
<1>8. ASSUME NEW k \in 1..l PROVE IsFromSource(heap[k])'
  <2>1. IsFromSource(heap[k])
        BY <1>1 DEF HeapInv
  <2>2. IsFromSource(heap'[k])
        BY <1>4, <2>1 DEF IsFromSource
  <2>   QED  BY <2>2, SettingsSame DEF IsFromSource
<1>9. ASSUME NEW k \in 1..l PROVE LinksAreMeant(k)'
  <2>1. ASSUME NEW m \in 1..l, Related(heap[k].type, heap[k], heap[m].type, heap[m])
        PROVE  Related(heap[k].type, heap[k], heap[m].type, heap[m])'
    <3>1. Related(heap'[k].type, heap'[k], heap'[m].type, heap'[m])
          BY <1>4, <2>1, RelatedSame
    <3>   QED  BY <3>1, RelatedLater
  <2>2. ASSUME NEW link \in links(k)
        PROVE  \E m \in 1..l : /\ link = <<heap[m].type, heap[m].id>>
                               /\ Related(heap[k].type, heap[k], heap[m].type, heap[m])
    <3>1. link \in heap[k].links \/ (k = i /\ link = a) \/ (k = j /\ link = b)
          BY DEF links
    <3>2. CASE link \in heap[k].links
      <4>1. LinksAreMeant(k)
            BY <1>1 DEF HeapInv
      <4>   QED  BY <1>1, <3>2, <4>1 DEF LinksAreMeant
    <3>3. CASE k = i /\ link = a
          BY <1>1, <3>3 DEF a
    <3>4. CASE k = j /\ link = b
          BY <1>1, <3>4, RelatedBothWays DEF b
    <3>   QED  BY <3>1, <3>2, <3>3, <3>4
  <2>3. ASSUME NEW link \in heap'[k].links
        PROVE  \E m \in DOMAIN heap' :
                   /\ link = <<heap'[m].type, heap'[m].id>>
                   /\ Related(heap[k].type, heap[k], heap[m].type, heap[m])'
    <3>1. link \in links(k)
          BY <1>4, <2>3
    <3>2. PICK m \in 1..l : /\ link = <<heap[m].type, heap[m].id>>
                            /\ Related(heap[k].type, heap[k], heap[m].type, heap[m])
          BY <2>2, <3>1
    <3>3. m \in DOMAIN heap' /\ link = <<heap'[m].type, heap'[m].id>>
          BY <1>4, <1>5, <3>2
    <3>   QED  BY <2>1, <3>2, <3>3
  <2>   QED  BY <2>3 DEF LinksAreMeant
<1>10. HeapInv'
      BY <1>5, <1>8, <1>9 DEF HeapInv
<1>   QED  BY <1>6, <1>7, <1>10

\* What is known of a list stays so while the heap grows.
LEMMA FrameKept ==
    ASSUME SettingsStay, HeapGrows, heap \in Seq(Instance), NEW f \in Frame, FrameOK(f)
    PROVE  FrameOK(f)'
<1>1. Relations(f.type)' = Relations(f.type) /\ Entries(f.type)' = Entries(f.type)
      BY SettingsSame
<1>2. IsListOf(f.type, f.list)'
  <2>1. \A t, list : IsListOf(t, list) => IsListOf(t, list)'
        BY ListKept
  <2>2. IsListOf(f.type, f.list)
        BY DEF FrameOK
  <2>   QED  BY <2>1, <2>2
<1>3. f.list \subseteq DOMAIN heap /\ 0 \notin DOMAIN heap
  <2>1. DOMAIN heap = 1..Len(heap) /\ Len(heap) \in Nat
        BY ObjectsAre
  <2>   QED  BY <2>1 DEF FrameOK, IsListOf
<1>4. f.main # 0 => f.main \in DOMAIN heap
      BY <1>3 DEF FrameOK
<1>5. \A i \in DOMAIN heap : \A t, n : MadeBefore(i, t, n) => MadeBefore(i, t, n)'
      BY MadeBeforeKept
<1>6. \A i \in DOMAIN heap : \A r : Made(i, r) => Made(i, r)'
      BY MadeKept
<1>7. ASSUME f.main # 0
      PROVE  /\ f.rel \in 1..Len(Relations(f.type)) /\ f.val \in Nat \ {0}
             /\ MadeBefore(f.main, f.type, f.rel)'
             /\ f.found => Made(f.main, RelationOf(f))'
  <2>1. /\ f.rel \in 1..Len(Relations(f.type)) /\ f.val \in Nat \ {0}
        /\ MadeBefore(f.main, f.type, f.rel)
        /\ f.found => Made(f.main, RelationOf(f))
        BY <1>7 DEF FrameOK
  <2>2. MadeBefore(f.main, f.type, f.rel)'
        BY <1>4, <1>5, <1>7, <2>1
  <2>3. RelationOf(f)' = RelationOf(f)
        BY <1>1 DEF RelationOf
  <2>4. f.found => Made(f.main, RelationOf(f))'
    <3>1. SUFFICES ASSUME f.found, NEW r, r = RelationOf(f) PROVE Made(f.main, RelationOf(f))'
          OBVIOUS
    <3>2. Made(f.main, r)'
          BY <1>4, <1>6, <1>7, <2>1, <3>1
    <3>   QED  BY <2>3, <3>1, <3>2 DEF Made
  <2>   QED  BY <2>1, <2>2, <2>4
<1>8. ASSUME ~f.reading, NEW i \in f.list \ (f.todo \cup f.remove)
      PROVE  MadeBefore(i, f.type, Len(Relations(f.type)) + 1)'
  <2>1. \A n : n = Len(Relations(f.type)) + 1 => MadeBefore(i, f.type, n)'
        BY <1>3, <1>5, <1>8 DEF FrameOK
  <2>   QED  BY <1>1, <2>1 DEF MadeBefore
<1>   QED  BY <1>1, <1>2, <1>7, <1>8 DEF FrameOK

LEMMA CallKept ==
    ASSUME SettingsStay, HeapGrows, heap \in Seq(Instance), NEW f \in Frame, NEW caller \in Frame,
           FrameOK(f), FrameOK(caller), IsCalledBy(f, caller)
    PROVE  IsCalledBy(f, caller)'
<1>1. Relations(caller.type)' = Relations(caller.type)
      BY SettingsSame
<1>2. f.list \subseteq DOMAIN heap /\ caller.list \subseteq DOMAIN heap /\ 0 \notin DOMAIN heap
  <2>1. DOMAIN heap = 1..Len(heap) /\ Len(heap) \in Nat
        BY ObjectsAre
  <2>   QED  BY <2>1 DEF FrameOK, IsListOf
<1>3. caller.main \in DOMAIN heap
      BY <1>2 DEF FrameOK, IsCalledBy
<1>4. RelationOf(caller)' = RelationOf(caller)
      BY <1>1 DEF RelationOf
<1>5. ValuesOf(caller)' = ValuesOf(caller)
      BY <1>3, <1>4 DEF ValuesOf, HeapGrows
<1>6. \A i \in f.list : heap'[i].key = heap[i].key
      BY <1>2 DEF HeapGrows
<1>   QED  BY <1>4, <1>5, <1>6 DEF IsCalledBy

-----------------------------------------------------------------------------
\* The stack.

LEMMA PutOnTop ==
    ASSUME NEW A, NEW x \in A, NEW s \in Seq(A)
    PROVE  /\ <<x>> \o s \in Seq(A) /\ Len(<<x>> \o s) = Len(s) + 1 /\ (<<x>> \o s)[1] = x
           /\ \A k \in 2..Len(s) + 1 : (<<x>> \o s)[k] = s[k - 1]
<1>1. <<x>> \in Seq(A) /\ Len(<<x>>) = 1 /\ <<x>>[1] = x /\ Len(s) \in Nat
      BY LenProperties
<1>2. /\ <<x>> \o s \in Seq(A) /\ Len(<<x>> \o s) = 1 + Len(s)
      /\ \A k \in 1..1 + Len(s) : (<<x>> \o s)[k] = IF k <= 1 THEN <<x>>[k] ELSE s[k - 1]
      BY <1>1, ConcatProperties
<1>3. 1 \in 1..1 + Len(s) /\ 1 <= 1 /\ \A k \in 2..Len(s) + 1 : k \in 1..1 + Len(s) /\ ~(k <= 1)
      BY <1>1
<1>4. (<<x>> \o s)[1] = x
      BY <1>1, <1>2, <1>3, Zenon
<1>5. \A k \in 2..Len(s) + 1 : (<<x>> \o s)[k] = s[k - 1]
      BY <1>2, <1>3
<1>   QED  BY <1>1, <1>2, <1>4, <1>5

StackOK ==
    /\ stack \in Seq(Frame)
    /\ \A k \in DOMAIN stack : FrameOK(stack[k])
    /\ \A k \in DOMAIN stack \ {1} : IsCalledBy(stack[k - 1], stack[k])

\* What may be done with the rest of the program's state while the stack changes.
GrowingHeap == SettingsStay /\ HeapGrows /\ heap \in Seq(Instance)

LEMMA FramesAre ==
    ASSUME StackOK
    PROVE  /\ Len(stack) \in Nat /\ DOMAIN stack = 1..Len(stack)
           /\ \A k \in 1..Len(stack) : stack[k] \in Frame /\ FrameOK(stack[k])
           /\ \A k \in 2..Len(stack) : IsCalledBy(stack[k - 1], stack[k])
           /\ stack # <<>> => Top = stack[1] /\ 1 \in 1..Len(stack)
<1>1. Len(stack) \in Nat /\ DOMAIN stack = 1..Len(stack) /\ \A k \in 1..Len(stack) : stack[k] \in Frame
      BY LenProperties, ElementOfSeq DEF StackOK
<1>2. \A k \in 2..Len(stack) : k \in DOMAIN stack \ {1}
      BY <1>1
<1>3. \A k \in 2..Len(stack) : IsCalledBy(stack[k - 1], stack[k])
      BY <1>2 DEF StackOK
<1>4. stack # <<>> => Top = stack[1] /\ 1 \in 1..Len(stack)
      BY <1>1 DEF Top, StackOK
<1>   QED  BY <1>1, <1>3, <1>4 DEF StackOK

\* A list that only loses what it has or has yet to read is called as before.
LEMMA CalledStill ==
    ASSUME NEW f, NEW old, NEW caller, IsCalledBy(old, caller),
           f.type = old.type, f.list \subseteq old.list, Range(f.unread) \subseteq Range(old.unread)
    PROVE  IsCalledBy(f, caller)
BY DEF IsCalledBy

LEMMA TopReplaced ==
    ASSUME StackOK, GrowingHeap, stack # <<>>, NEW f \in Frame, SetTop(f), FrameOK(f)',
           \A caller : Len(stack) > 1 /\ caller = stack[2] => IsCalledBy(f, caller)'
    PROVE  StackOK' /\ Len(stack') = Len(stack) /\ stack'[1] = f
<1>   DEFINE l == Len(stack)
             rest == Tail(stack)
<1>1. /\ l \in Nat /\ l # 0
      /\ \A k \in 1..l : stack[k] \in Frame /\ FrameOK(stack[k])
      /\ \A k \in 2..l : IsCalledBy(stack[k - 1], stack[k])
      BY FramesAre
<1>2. rest \in Seq(Frame) /\ Len(rest) = l - 1 /\ \A k \in 1..l - 1 : rest[k] = stack[k + 1]
      BY HeadTailProperties DEF StackOK
<1>3. stack' = <<f>> \o rest
      BY DEF SetTop
<1>   HIDE DEF l, rest
<1>4. /\ stack' \in Seq(Frame) /\ Len(stack') = l
      /\ stack'[1] = f /\ \A k \in 2..l : stack'[k] = stack[k]
  <2>1. /\ stack' \in Seq(Frame) /\ Len(stack') = Len(rest) + 1 /\ stack'[1] = f
        /\ \A k \in 2..Len(rest) + 1 : stack'[k] = rest[k - 1]
        BY <1>2, <1>3, PutOnTop
  <2>2. Len(rest) + 1 = l /\ \A k \in 2..l : k - 1 \in 1..l - 1 /\ (k - 1) + 1 = k
        BY <1>1, <1>2
  <2>3. \A k \in 2..l : stack'[k] = stack[k]
        BY <1>2, <2>1, <2>2
  <2>   QED  BY <2>1, <2>2, <2>3
<1>5. DOMAIN stack' = 1..l
      BY <1>4, LenProperties
<1>6. \A k \in 2..l : FrameOK(stack[k])'
  <2>1. \A g \in Frame : FrameOK(g) => FrameOK(g)'
        BY FrameKept DEF GrowingHeap
  <2>2. SUFFICES ASSUME NEW k \in 2..l, NEW g, g = stack'[k] PROVE FrameOK(stack[k])'
        OBVIOUS
  <2>3. k \in 1..l /\ g = stack[k]
        BY <1>4, <2>2
  <2>4. FrameOK(g)'
        BY <1>1, <2>1, <2>3
  <2>   QED  BY <2>2, <2>4 DEF FrameOK
<1>7. ASSUME NEW k \in 1..l PROVE FrameOK(stack[k])'
  <2>1. CASE k = 1
        BY <1>4, <2>1 DEF FrameOK
  <2>2. CASE k # 1
        BY <1>6, <2>2
  <2>   QED  BY <2>1, <2>2
<1>8. ASSUME NEW k \in 2..l PROVE IsCalledBy(stack[k - 1], stack[k])'
  <2>1. SUFFICES ASSUME NEW g, NEW c, g = stack'[k - 1], c = stack'[k]
                 PROVE  IsCalledBy(g, c)'
        BY DEF IsCalledBy
  <2>2. CASE k = 2
    <3>1. g = f /\ c = stack[2] /\ Len(stack) > 1
          BY <1>1, <1>4, <2>1, <2>2 DEF l
    <3>   QED  BY <3>1
  <2>3. CASE k # 2
    <3>1. k - 1 \in 2..l /\ k \in 2..l /\ k - 1 \in 1..l /\ k \in 1..l
          BY <1>1, <2>3
    <3>2. g = stack[k - 1] /\ c = stack[k]
          BY <1>4, <2>1, <3>1
    <3>3. IsCalledBy(g, c) /\ g \in Frame /\ c \in Frame /\ FrameOK(g) /\ FrameOK(c)
          BY <1>1, <3>1, <3>2
    <3>   QED  BY <3>3, CallKept DEF GrowingHeap
  <2>   QED  BY <2>2, <2>3
<1>9. \A k \in DOMAIN stack' \ {1} : k \in 2..l
      BY <1>1, <1>5
<1>   QED  BY <1>4, <1>5, <1>7, <1>8, <1>9 DEF StackOK, l

\* A list is loaded for the value at hand of the one at the top.
LEMMA Pushed ==
    ASSUME StackOK, GrowingHeap, NEW f \in Frame, stack' = <<f>> \o stack, FrameOK(f)',
           \A caller : stack # <<>> /\ caller = stack[1] => IsCalledBy(f, caller)'
    PROVE  StackOK'
<1>   DEFINE l == Len(stack)
<1>1. /\ l \in Nat
      /\ \A k \in 1..l : stack[k] \in Frame /\ FrameOK(stack[k])
      /\ \A k \in 2..l : IsCalledBy(stack[k - 1], stack[k])
      /\ stack \in Seq(Frame)
      BY FramesAre DEF StackOK
<1>2. /\ stack' \in Seq(Frame) /\ Len(stack') = l + 1
      /\ stack'[1] = f /\ \A k \in 2..l + 1 : stack'[k] = stack[k - 1]
      BY <1>1, PutOnTop
<1>3. DOMAIN stack' = 1..l + 1
      BY <1>2, LenProperties
<1>4. l # 0 => stack # <<>>
      OBVIOUS
<1>   HIDE DEF l
<1>5. ASSUME NEW k \in 1..l + 1 PROVE FrameOK(stack[k])'
  <2>1. SUFFICES ASSUME NEW g, g = stack'[k] PROVE FrameOK(g)'
        BY DEF FrameOK
  <2>2. CASE k = 1
        BY <1>2, <2>1, <2>2
  <2>3. CASE k # 1
    <3>1. k \in 2..l + 1 /\ k - 1 \in 1..l
          BY <1>1, <2>3
    <3>2. g = stack[k - 1]
          BY <1>2, <2>1, <3>1
    <3>3. g \in Frame /\ FrameOK(g)
          BY <1>1, <3>1, <3>2
    <3>   QED  BY <3>3, FrameKept DEF GrowingHeap
  <2>   QED  BY <2>2, <2>3
<1>6. ASSUME NEW k \in 2..l + 1 PROVE IsCalledBy(stack[k - 1], stack[k])'
  <2>1. SUFFICES ASSUME NEW g, NEW c, g = stack'[k - 1], c = stack'[k]
                 PROVE  IsCalledBy(g, c)'
        BY DEF IsCalledBy
  <2>2. CASE k = 2
    <3>1. g = f /\ c = stack[1] /\ stack # <<>>
          BY <1>1, <1>2, <1>4, <2>1, <2>2
    <3>   QED  BY <3>1
  <2>3. CASE k # 2
    <3>1. k - 1 \in 2..l + 1 /\ (k - 1) - 1 \in 1..l /\ k - 1 \in 1..l /\ k - 1 \in 2..l
          BY <1>1, <2>3
    <3>2. g = stack[(k - 1) - 1] /\ c = stack[k - 1]
          BY <1>2, <2>1, <3>1
    <3>3. IsCalledBy(g, c) /\ g \in Frame /\ c \in Frame /\ FrameOK(g) /\ FrameOK(c)
          BY <1>1, <3>1, <3>2
    <3>   QED  BY <3>3, CallKept DEF GrowingHeap
  <2>   QED  BY <2>2, <2>3
<1>7. \A k \in DOMAIN stack' \ {1} : k \in 2..l + 1
      BY <1>1, <1>3
<1>   QED  BY <1>2, <1>3, <1>5, <1>6, <1>7 DEF StackOK

\* The list at the top is loaded, and its caller goes on.
LEMMA Popped ==
    ASSUME StackOK, GrowingHeap, Len(stack) > 1, NEW f \in Frame,
           stack' = <<f>> \o SubSeq(stack, 3, Len(stack)), FrameOK(f)',
           \A caller : Len(stack) > 2 /\ caller = stack[3] => IsCalledBy(f, caller)'
    PROVE  StackOK'
<1>   DEFINE l == Len(stack)
             rest == SubSeq(stack, 3, l)
<1>1. /\ l \in Nat /\ l > 1
      /\ \A k \in 1..l : stack[k] \in Frame /\ FrameOK(stack[k])
      /\ \A k \in 2..l : IsCalledBy(stack[k - 1], stack[k])
      BY FramesAre
<1>2. rest \in Seq(Frame) /\ Len(rest) = l - 2 /\ \A k \in 1..l - 2 : rest[k] = stack[k + 2]
  <2>   HIDE DEF l
  <2>1. \A k \in 3..l : stack[k] \in Frame
        BY <1>1
  <2>   HIDE DEF rest
  <2>2. /\ rest \in Seq(Frame)
        /\ Len(rest) = IF 3 <= l THEN l - 3 + 1 ELSE 0
        /\ \A k \in 1..l - 3 + 1 : rest[k] = stack[3 + k - 1]
        BY <1>1, <2>1, SubSeqProperties DEF rest
  <2>3. \A k \in 1..l - 2 : k \in 1..l - 3 + 1 /\ 3 + k - 1 = k + 2
        BY <1>1
  <2>   QED  BY <1>1, <2>2, <2>3
<1>3. stack' = <<f>> \o rest
      OBVIOUS
<1>   HIDE DEF l, rest
<1>4. /\ stack' \in Seq(Frame) /\ Len(stack') = l - 1
      /\ stack'[1] = f /\ \A k \in 2..l - 1 : stack'[k] = stack[k + 1]
  <2>1. /\ stack' \in Seq(Frame) /\ Len(stack') = Len(rest) + 1 /\ stack'[1] = f
        /\ \A k \in 2..Len(rest) + 1 : stack'[k] = rest[k - 1]
    <3>1. \A s \in Seq(Frame) :
              /\ <<f>> \o s \in Seq(Frame) /\ Len(<<f>> \o s) = Len(s) + 1 /\ (<<f>> \o s)[1] = f
              /\ \A k \in 2..Len(s) + 1 : (<<f>> \o s)[k] = s[k - 1]
          BY PutOnTop
    <3>   QED  BY <1>2, <1>3, <3>1, Zenon
  <2>2. /\ Len(rest) + 1 = l - 1
        /\ \A k \in 2..l - 1 : k - 1 \in 1..l - 2 /\ (k - 1) + 2 = k + 1
        BY <1>1, <1>2
  <2>3. \A k \in 2..l - 1 : stack'[k] = stack[k + 1]
        BY <1>2, <2>1, <2>2
  <2>   QED  BY <2>1, <2>2, <2>3
<1>5. DOMAIN stack' = 1..l - 1
      BY <1>4, LenProperties
<1>6. ASSUME NEW k \in 1..l - 1 PROVE FrameOK(stack[k])'
  <2>1. SUFFICES ASSUME NEW g, g = stack'[k] PROVE FrameOK(g)'
        BY DEF FrameOK
  <2>2. CASE k = 1
        BY <1>4, <2>1, <2>2
  <2>3. CASE k # 1
    <3>1. k \in 2..l - 1 /\ k + 1 \in 1..l
          BY <1>1, <2>3
    <3>2. g = stack[k + 1]
          BY <1>4, <2>1, <3>1
    <3>3. g \in Frame /\ FrameOK(g)
          BY <1>1, <3>1, <3>2
    <3>   QED  BY <3>3, FrameKept DEF GrowingHeap
  <2>   QED  BY <2>2, <2>3
<1>7. ASSUME NEW k \in 2..l - 1 PROVE IsCalledBy(stack[k - 1], stack[k])'
  <2>1. SUFFICES ASSUME NEW g, NEW c, g = stack'[k - 1], c = stack'[k]
                 PROVE  IsCalledBy(g, c)'
        BY DEF IsCalledBy
  <2>2. CASE k = 2
    <3>1. g = f /\ c = stack[3] /\ Len(stack) > 2
          BY <1>1, <1>4, <2>1, <2>2 DEF l
    <3>   QED  BY <3>1
  <2>3. CASE k # 2
    <3>1. /\ k - 1 \in 2..l - 1 /\ (k - 1) + 1 = k /\ k \in 1..l /\ k + 1 \in 1..l
          /\ k + 1 \in 2..l /\ (k + 1) - 1 = k
          BY <1>1, <2>3
    <3>2. g = stack[k] /\ c = stack[k + 1]
          BY <1>4, <2>1, <3>1
    <3>3. IsCalledBy(stack[(k + 1) - 1], stack[k + 1])
          BY <1>1, <3>1
    <3>4. IsCalledBy(g, c) /\ g \in Frame /\ c \in Frame /\ FrameOK(g) /\ FrameOK(c)
          BY <1>1, <3>1, <3>2, <3>3
    <3>   QED  BY <3>4, CallKept DEF GrowingHeap
  <2>   QED  BY <2>2, <2>3
<1>8. \A k \in DOMAIN stack' \ {1} : k \in 2..l - 1
      BY <1>1, <1>5
<1>   QED  BY <1>4, <1>5, <1>6, <1>7, <1>8 DEF StackOK

\* The top goes on with what is left of its list.
LEMMA TopGoesOn ==
    ASSUME StackOK, GrowingHeap, stack # <<>>, NEW f \in Frame, SetTop(f), FrameOK(f)',
           f.type = Top.type, f.list \subseteq Top.list, Range(f.unread) \subseteq Range(Top.unread)
    PROVE  StackOK'
<1>1. Top = stack[1] /\ 1 \in 1..Len(stack) /\ Len(stack) \in Nat
      BY FramesAre
<1>2. ASSUME NEW caller, Len(stack) > 1, caller = stack[2]
      PROVE  IsCalledBy(f, caller)'
  <2>1. SUFFICES ASSUME NEW old, old = stack[1] PROVE IsCalledBy(f, caller)'
        OBVIOUS
  <2>2. 2 \in 2..Len(stack) /\ 2 \in 1..Len(stack) /\ 2 - 1 = 1
        BY <1>1, <1>2
  <2>3. old \in Frame /\ FrameOK(old) /\ caller \in Frame /\ FrameOK(caller)
        BY <1>1, <1>2, <2>1, <2>2, FramesAre
  <2>4. IsCalledBy(old, caller)
        BY <1>2, <2>1, <2>2, FramesAre
  <2>5. IsCalledBy(old, caller)'
        BY <2>3, <2>4, CallKept DEF GrowingHeap
  <2>6. f.type = old.type /\ f.list \subseteq old.list /\ Range(f.unread) \subseteq Range(old.unread)
        BY <1>1, <2>1
  <2>   QED  BY <2>5, <2>6 DEF IsCalledBy
<1>   QED  BY <1>2, TopReplaced

-----------------------------------------------------------------------------
\* The objects that the data server holds.

DataGood(objects) ==
    /\ objects \in [Type -> SUBSET (DOMAIN heap)]
    /\ \A t \in Type : IsListOf(t, objects[t])
    /\ \A t \in Type : \A i \in objects[t] : MadeBefore(i, t, Len(Relations(t)) + 1)

LEMMA DataKept ==
    ASSUME GrowingHeap, NEW objects, DataGood(objects)
    PROVE  DataGood(objects)'
<1>1. objects \in [Type -> SUBSET (DOMAIN heap')]
      BY DEF DataGood, GrowingHeap, HeapGrows
<1>2. ASSUME NEW t \in Type PROVE IsListOf(t, objects[t])'
  <2>1. \A list : IsListOf(t, list) => IsListOf(t, list)'
        BY ListKept DEF GrowingHeap
  <2>   QED  BY <2>1 DEF DataGood
<1>3. ASSUME NEW t \in Type, NEW i \in objects[t]
      PROVE  MadeBefore(i, t, Len(Relations(t)) + 1)'
  <2>1. SUFFICES ASSUME NEW n, n = Len(Relations(t)) + 1
                 PROVE  MadeBefore(i, t, Len(Relations(t)) + 1)'
        OBVIOUS
  <2>2. i \in DOMAIN heap /\ MadeBefore(i, t, n)
        BY <2>1 DEF DataGood
  <2>3. MadeBefore(i, t, n)'
        BY <2>2, MadeBeforeKept DEF GrowingHeap
  <2>4. Relations(t)' = Relations(t)
        BY SettingsSame DEF GrowingHeap
  <2>   QED  BY <2>1, <2>3, <2>4 DEF MadeBefore
<1>   QED  BY <1>1, <1>2, <1>3 DEF DataGood

\* Of what there is, less is as good.
LEMMA LessIsGood ==
    ASSUME NEW objects, DataGood(objects), NEW fewer, fewer = [t \in Type |-> fewer[t]],
           \A t \in Type : fewer[t] \subseteq objects[t]
    PROVE  DataGood(fewer)
<1>1. \A t \in Type : fewer[t] \in SUBSET (DOMAIN heap)
      BY DEF DataGood
<1>2. fewer \in [Type -> SUBSET (DOMAIN heap)]
      BY <1>1
<1>3. \A t \in Type : IsListOf(t, fewer[t])
      BY DEF DataGood, IsListOf
<1>   QED  BY <1>2, <1>3 DEF DataGood

LEMMA ListAdded ==
    ASSUME DataGood(data), NEW t \in Type, NEW list, IsListOf(t, list),
           \A i \in list : MadeBefore(i, t, Len(Relations(t)) + 1)
    PROVE  DataGood(AddList(t, list))
<1>   DEFINE objects == AddList(t, list)
             kept == {j \in data[t] : \A i \in list : heap[j].id # heap[i].id}
<1>1. data \in [Type -> SUBSET (DOMAIN heap)] /\ IsListOf(t, data[t])
      BY DEF DataGood
<1>2. objects = [data EXCEPT ![t] = kept \cup list]
      BY DEF AddList
<1>   HIDE DEF objects
<1>3. IsListOf(t, kept \cup list)
      BY <1>1 DEF IsListOf
<1>4. kept \cup list \in SUBSET (DOMAIN heap)
      BY <1>3 DEF IsListOf
<1>5. \A i \in kept \cup list : MadeBefore(i, t, Len(Relations(t)) + 1)
      BY DEF DataGood
<1>   HIDE DEF kept
<1>6. /\ objects \in [Type -> SUBSET (DOMAIN heap)]
      /\ \A s \in Type : objects[s] = IF s = t THEN kept \cup list ELSE data[s]
      BY <1>1, <1>2, <1>4
<1>7. \A s \in Type : IsListOf(s, objects[s])
      BY <1>3, <1>6 DEF DataGood
<1>8. \A s \in Type : \A i \in objects[s] : MadeBefore(i, s, Len(Relations(s)) + 1)
      BY <1>5, <1>6 DEF DataGood
<1>   QED  BY <1>6, <1>7, <1>8 DEF DataGood, objects

-----------------------------------------------------------------------------
\* The invariant, taken apart.

Basics ==
    /\ config \in Configs /\ source \in Sources
    /\ at \in Nat \ {0} /\ filtered \in BOOLEAN
    /\ result \in {"none", "loaded", "failed"}
    /\ faults \in 0..MaxFaults /\ cut \in BOOLEAN

LEMMA InvParts ==
    LoadInv <=> Basics /\ HeapInv /\ StackOK /\ DataGood(data)
<1>1. ASSUME LoadInv PROVE Basics /\ HeapInv /\ StackOK /\ DataGood(data)
  <2>1. Basics
        BY <1>1 DEF LoadInv, LoadTypeOK, Basics
  <2>2. HeapInv
        BY <1>1 DEF LoadInv, LoadTypeOK, HeapInv
  <2>3. StackOK
        BY <1>1 DEF LoadInv, LoadTypeOK, StackOK
  <2>4. DataGood(data)
        BY <1>1 DEF LoadInv, LoadTypeOK, DataGood
  <2>   QED  BY <2>1, <2>2, <2>3, <2>4
<1>2. ASSUME Basics, HeapInv, StackOK, DataGood(data) PROVE LoadInv
  <2>1. ASSUME NEW k \in DOMAIN stack
        PROVE  /\ IsListOf(stack[k].type, stack[k].list)
               /\ stack[k].main \in stack[k].todo \cup {0}
               /\ stack[k].todo \cup stack[k].remove \subseteq stack[k].list
    <3>1. FrameOK(stack[k])
          BY <1>2 DEF StackOK
    <3>   QED  BY <3>1 DEF FrameOK
  <2>2. \A t \in Type : IsListOf(t, data[t])
        BY <1>2 DEF DataGood
  <2>3. LoadTypeOK
        BY <1>2, <2>1, <2>2 DEF LoadTypeOK, Basics, HeapInv, StackOK, DataGood
  <2>   QED  BY <1>2, <2>3 DEF LoadInv, HeapInv, StackOK, DataGood
<1>   QED  BY <1>1, <1>2

LEMMA HeapSame ==
    ASSUME SettingsStay, HeapInv, heap' = heap
    PROVE  HeapInv' /\ GrowingHeap
<1>1. GrowingHeap
      BY DEF GrowingHeap, HeapGrows, HeapInv
<1>2. heap' = heap \o <<>>
      BY ConcatEmptySeq DEF HeapInv
<1>3. HeapInv'
  <2>1. <<>> \in Seq(Instance) /\ \A k \in 1..Len(<<>>) : FALSE
        OBVIOUS
  <2>   QED  BY <1>2, <2>1, HeapExtended
<1>   QED  BY <1>1, <1>3

-----------------------------------------------------------------------------
\* What is done with a list that is being loaded.

LEMMA NewFrameIs ==
    ASSUME NEW t \in Type, NEW entries \in Seq(Entry), Range(entries) \subseteq Entries(t)
    PROVE  NewFrame(t, entries) \in Frame /\ FrameOK(NewFrame(t, entries))
<1>   DEFINE f == NewFrame(t, entries)
<1>1. f \in Frame
      BY DEF NewFrame, Frame
<1>2. /\ f.type = t /\ f.reading /\ f.unread = entries /\ f.list = {} /\ f.todo = {}
      /\ f.main = 0 /\ f.remove = {}
      BY DEF NewFrame
<1>   HIDE DEF f
<1>3. IsListOf(f.type, f.list)
      BY <1>2 DEF IsListOf
<1>4. FrameOK(f)
      BY <1>2, <1>3 DEF FrameOK
<1>   QED  BY <1>1, <1>4 DEF f

\* All entries are read: the objects of the list are related, if they have
\* relations.
LEMMA RelatingIs ==
    ASSUME Basics, SettingsStay, NEW f \in Frame, f.reading, FrameOK(f)', NEW g, g = Relating(f)
    PROVE  /\ g \in Frame /\ FrameOK(g)'
           /\ g.type = f.type /\ g.list = f.list /\ g.unread = f.unread
<1>1. f.type \in Type /\ f.list \in SUBSET Nat
      BY DEF Frame
<1>2. /\ config.relations[f.type] = <<>> => Len(Relations(f.type)) = 0
      /\ config.relations[f.type] # <<>> => Relations(f.type) # <<>>
      BY <1>1, RelationsAre DEF Basics
<1>3. Relations(f.type)' = Relations(f.type)
      BY SettingsSame
<1>4. /\ g \in Frame
      /\ g.type = f.type /\ g.list = f.list /\ g.unread = f.unread /\ g.main = f.main
      /\ g.remove = f.remove /\ ~g.reading
      /\ g.todo = IF config.relations[f.type] = <<>> THEN {} ELSE f.list
      BY <1>1 DEF Relating, Frame
<1>5. f.todo = {} /\ f.remove = {} /\ f.main = 0
      BY DEF FrameOK
<1>6. IsListOf(g.type, g.list)' /\ Range(g.unread)' \subseteq Entries(g.type)'
      BY <1>4 DEF FrameOK
<1>7. ASSUME NEW i \in g.list \ (g.todo \cup g.remove)
      PROVE  MadeBefore(i, g.type, Len(Relations(g.type)) + 1)'
  <2>1. config.relations[f.type] = <<>>
        BY <1>4, <1>7
  <2>2. Len(Relations(g.type)') = 0
        BY <1>2, <1>3, <1>4, <2>1
  <2>   QED  BY <2>2 DEF MadeBefore
<1>8. g.todo # {} => Relations(g.type)' # <<>>
      BY <1>2, <1>3, <1>4
<1>9. FrameOK(g)'
      BY <1>4, <1>5, <1>6, <1>7, <1>8 DEF FrameOK
<1>   QED  BY <1>4, <1>9

\* What was read so far is taken for the whole.
LEMMA CutShort ==
    ASSUME NEW f \in Frame, FrameOK(f), NEW g, g = [f EXCEPT !.unread = <<>>]
    PROVE  /\ g \in Frame /\ FrameOK(g)
           /\ g.type = f.type /\ g.list = f.list /\ Range(g.unread) = {}
<1>1. /\ g \in Frame /\ g.type = f.type /\ g.list = f.list /\ g.unread = <<>>
      /\ g.main = f.main /\ g.remove = f.remove /\ g.reading = f.reading /\ g.todo = f.todo
      /\ g.rel = f.rel /\ g.val = f.val /\ g.found = f.found
  <2>1. <<>> \in Seq(Entry)
        BY EmptySeq
  <2>   QED  BY <2>1 DEF Frame
<1>2. Range(g.unread) = {}
  <2>1. DOMAIN <<>> = {}
        OBVIOUS
  <2>   QED  BY <1>1, <2>1, Zenon DEF Range
<1>3. RelationOf(g) = RelationOf(f)
      BY <1>1 DEF RelationOf
<1>4. FrameOK(g)
      BY <1>1, <1>2, <1>3 DEF FrameOK
<1>   QED  BY <1>1, <1>2, <1>4

LEMMA MadeNext ==
    ASSUME NEW i, NEW t, NEW n \in Nat \ {0}, MadeBefore(i, t, n),
           Relations(t)[n].require => Made(i, Relations(t)[n])
    PROVE  MadeBefore(i, t, n + 1)
<1>1. \A k \in 1..(n + 1) - 1 : k \in 1..n - 1 \/ k = n
      OBVIOUS
<1>   QED  BY <1>1 DEF MadeBefore

LEMMA PickedMain ==
    ASSUME Basics, NEW f \in Frame, FrameOK(f), NEW i \in f.todo,
           NEW g, g = [f EXCEPT !.main = i, !.rel = 1, !.val = 1, !.found = FALSE]
    PROVE  /\ g \in Frame /\ FrameOK(g)
           /\ g.type = f.type /\ g.list = f.list /\ g.unread = f.unread
<1>1. f.todo \in SUBSET Nat /\ f.type \in Type
      BY DEF Frame
<1>2. /\ g \in Frame /\ g.type = f.type /\ g.list = f.list /\ g.unread = f.unread
      /\ g.main = i /\ g.remove = f.remove /\ g.reading = f.reading /\ g.todo = f.todo
      /\ g.rel = 1 /\ g.val = 1 /\ ~g.found
      BY <1>1 DEF Frame
<1>3. Relations(f.type) \in Seq(Relation) /\ Relations(f.type) # <<>>
      BY <1>1, RelationsAre DEF Basics, FrameOK
<1>4. 1 \in 1..Len(Relations(f.type))
  <2>   DEFINE rs == Relations(f.type)
  <2>   HIDE DEF rs
  <2>1. rs \in Seq(Relation) /\ rs # <<>>
        BY <1>3 DEF rs
  <2>2. 1 \in 1..Len(rs)
        BY <2>1
  <2>   QED  BY <2>2 DEF rs
<1>5. MadeBefore(i, f.type, 1)
      BY DEF MadeBefore
<1>6. FrameOK(g)
      BY <1>2, <1>4, <1>5 DEF FrameOK
<1>   QED  BY <1>2, <1>6

\* The main object is done with when its last relation is, or at the first
\* required one that was not made.
LEMMA AfterRelationIs ==
    ASSUME Basics, NEW f \in Frame, FrameOK(f), ~f.reading, f.main # 0, NEW g, g = AfterRelation(f)
    PROVE  /\ g \in Frame /\ FrameOK(g)
           /\ g.type = f.type /\ g.list = f.list /\ g.unread = f.unread
<1>   DEFINE rs == Relations(f.type)
             n == Len(rs)
<1>1. /\ f.type \in Type /\ f.todo \in SUBSET Nat /\ f.remove \in SUBSET Nat /\ f.main \in Nat
      /\ f.rel \in Nat
      BY DEF Frame
<1>2. n \in Nat
  <2>1. rs \in Seq(Relation)
        BY <1>1, RelationsAre DEF Basics
  <2>   HIDE DEF rs
  <2>   QED  BY <2>1, LenProperties
<1>3. /\ f.main \in f.todo /\ f.todo \cup f.remove \subseteq f.list
      /\ f.todo # {} => rs # <<>>
      /\ f.rel \in 1..n /\ MadeBefore(f.main, f.type, f.rel)
      /\ f.found => Made(f.main, rs[f.rel])
      /\ \A i \in f.list \ (f.todo \cup f.remove) : MadeBefore(i, f.type, n + 1)
      /\ IsListOf(f.type, f.list) /\ Range(f.unread) \subseteq Entries(f.type)
      BY DEF FrameOK, RelationOf
<1>   HIDE DEF rs, n
<1>4. ASSUME rs[f.rel].require => f.found PROVE MadeBefore(f.main, f.type, f.rel + 1)
  <2>1. f.rel \in Nat \ {0}
        BY <1>2, <1>3
  <2>2. rs[f.rel].require => Made(f.main, rs[f.rel])
        BY <1>3, <1>4
  <2>   QED  BY <1>3, <2>1, <2>2, MadeNext DEF rs
<1>5. CASE rs[f.rel].require /\ ~f.found
  <2>1. /\ g \in Frame /\ g.type = f.type /\ g.list = f.list /\ g.unread = f.unread
        /\ g.main = 0 /\ g.todo = f.todo \ {f.main} /\ g.remove = f.remove \cup {f.main}
        /\ ~g.reading
        BY <1>1, <1>5 DEF AfterRelation, Frame, rs
  <2>2. f.list \ (g.todo \cup g.remove) = f.list \ (f.todo \cup f.remove)
        BY <1>3, <2>1
  <2>3. FrameOK(g)
        BY <1>3, <2>1, <2>2 DEF FrameOK, rs, n
  <2>   QED  BY <2>1, <2>3
<1>6. CASE ~(rs[f.rel].require /\ ~f.found) /\ f.rel = n
  <2>1. /\ g \in Frame /\ g.type = f.type /\ g.list = f.list /\ g.unread = f.unread
        /\ g.main = 0 /\ g.todo = f.todo \ {f.main} /\ g.remove = f.remove /\ ~g.reading
        BY <1>1, <1>6 DEF AfterRelation, Frame, rs, n
  <2>2. \A i \in f.list \ (g.todo \cup g.remove) :
            i = f.main \/ i \in f.list \ (f.todo \cup f.remove)
        BY <1>3, <2>1
  <2>3. MadeBefore(f.main, f.type, n + 1)
        BY <1>4, <1>6
  <2>4. \A i \in f.list \ (g.todo \cup g.remove) : MadeBefore(i, f.type, n + 1)
        BY <1>3, <2>2, <2>3
  <2>5. FrameOK(g)
        BY <1>3, <2>1, <2>4 DEF FrameOK, rs, n
  <2>   QED  BY <2>1, <2>5
<1>7. CASE ~(rs[f.rel].require /\ ~f.found) /\ f.rel # n
  <2>1. /\ g \in Frame /\ g.type = f.type /\ g.list = f.list /\ g.unread = f.unread
        /\ g.main = f.main /\ g.todo = f.todo /\ g.remove = f.remove /\ g.reading = f.reading
        /\ g.rel = f.rel + 1 /\ g.val = 1 /\ ~g.found
    <3>1. g = [f EXCEPT !.rel = f.rel + 1, !.val = 1, !.found = FALSE]
          BY <1>7 DEF AfterRelation, rs, n
    <3>2. f.rel + 1 \in Nat
          BY <1>1
    <3>3. \A k \in Nat : [f EXCEPT !.rel = k, !.val = 1, !.found = FALSE] \in Frame
          BY DEF Frame
    <3>4. g \in Frame
          BY <3>1, <3>2, <3>3, Zenon
    <3>   QED  BY <3>1, <3>4 DEF Frame
  <2>2. f.rel + 1 \in 1..n
        BY <1>2, <1>3, <1>7
  <2>3. MadeBefore(f.main, f.type, f.rel + 1)
        BY <1>4, <1>7
  <2>4. FrameOK(g)
        BY <1>3, <2>1, <2>2, <2>3 DEF FrameOK, rs, n
  <2>   QED  BY <2>1, <2>4
<1>   QED  BY <1>5, <1>6, <1>7

\* One value of the relation at hand is done with.
IsNextValue(g, f) == g.found \in BOOLEAN /\ g = [f EXCEPT !.val = @ + 1, !.found = g.found]

LEMMA ValueDone ==
    ASSUME SettingsStay, NEW f \in Frame, f.main # 0, FrameOK(f)', NEW g, IsNextValue(g, f),
           g.found => f.found \/ Made(f.main, RelationOf(f))'
    PROVE  /\ g \in Frame /\ FrameOK(g)'
           /\ g.type = f.type /\ g.list = f.list /\ g.unread = f.unread
<1>1. f.val \in Nat /\ g.found \in BOOLEAN /\ g = [f EXCEPT !.val = f.val + 1, !.found = g.found]
      BY DEF Frame, IsNextValue
<1>2. f.val + 1 \in Nat /\ f.val + 1 # 0
      BY <1>1
<1>3. /\ g \in Frame /\ g.type = f.type /\ g.list = f.list /\ g.unread = f.unread
      /\ g.main = f.main /\ g.todo = f.todo /\ g.remove = f.remove /\ g.reading = f.reading
      /\ g.rel = f.rel /\ g.val = f.val + 1
      BY <1>1, <1>2 DEF Frame
<1>4. g.found => Made(f.main, RelationOf(f))'
      BY DEF FrameOK
<1>5. RelationOf(g)' = RelationOf(f)'
      BY <1>3 DEF RelationOf
<1>6. g.found => Made(g.main, RelationOf(g))'
      BY <1>3, <1>4, <1>5 DEF Made
<1>7. FrameOK(g)'
      BY <1>2, <1>3, <1>6 DEF FrameOK
<1>   QED  BY <1>3, <1>7

LEMMA MakeInstanceIs ==
    ASSUME NEW t \in Type, NEW e \in Entry, e \in Entries(t)
    PROVE  /\ MakeInstance(t, e) \in Instance /\ IsFromSource(MakeInstance(t, e))
           /\ MakeInstance(t, e).type = t /\ MakeInstance(t, e).id = e.id
           /\ MakeInstance(t, e).key = e.key /\ MakeInstance(t, e).links = {}
<1>1. e.id \in Uid /\ e.key \in SUBSET Value /\ e.refs \in [Type -> Seq(Value)]
      BY DEF Entry, Uid
<1>2. MakeInstance(t, e) \in Instance
      BY <1>1 DEF MakeInstance, Instance
<1>3. /\ MakeInstance(t, e).type = t /\ MakeInstance(t, e).id = e.id
      /\ MakeInstance(t, e).key = e.key /\ MakeInstance(t, e).refs = e.refs
      /\ MakeInstance(t, e).links = {}
      BY DEF MakeInstance
<1>4. IsFromSource(MakeInstance(t, e))
      BY <1>3 DEF IsFromSource
<1>   QED  BY <1>2, <1>3, <1>4

\* The next entry of a search becomes an object.
LEMMA EntryOnHeap ==
    ASSUME HeapInv, SettingsStay, NEW t \in Type, NEW e \in Entry, e \in Entries(t),
           heap' = Append(heap, MakeInstance(t, e))
    PROVE  /\ HeapInv' /\ GrowingHeap
           /\ Len(heap') \in DOMAIN heap' /\ heap'[Len(heap')].type = t
           /\ heap'[Len(heap')].key = e.key
<1>   DEFINE o == MakeInstance(t, e)
             new == <<o>>
<1>1. /\ o \in Instance /\ IsFromSource(o) /\ o.type = t /\ o.key = e.key /\ o.links = {}
      BY MakeInstanceIs
<1>   HIDE DEF o
<1>2. /\ new \in Seq(Instance) /\ Len(new) = 1 /\ new[1] = o
      /\ \A k \in 1..Len(new) : k = 1
      BY <1>1
<1>3. heap \in Seq(Instance) /\ Len(heap) \in Nat
      BY LenProperties DEF HeapInv
<1>4. heap' = heap \o new
      BY <1>1, <1>3, AppendIsConcat DEF o
<1>5. Len(heap') = Len(heap) + 1
      BY <1>1, <1>3, AppendProperties DEF o
<1>   HIDE DEF new
<1>6. \A k \in 1..Len(new) : new[k].links = {} /\ IsFromSource(new[k])
      BY <1>1, <1>2
<1>7. /\ HeapInv' /\ HeapGrows
      /\ \A k \in 1..Len(new) : Len(heap) + k \in DOMAIN heap' /\ heap'[Len(heap) + k] = new[k]
      BY <1>2, <1>4, <1>6, HeapExtended
<1>8. Len(heap) + 1 \in DOMAIN heap' /\ heap'[Len(heap) + 1] = o
      BY <1>2, <1>7
<1>   QED  BY <1>1, <1>3, <1>5, <1>7, <1>8 DEF GrowingHeap

LEMMA FirstAndOthers ==
    ASSUME NEW A, NEW s \in Seq(A), s # <<>>
    PROVE  /\ Head(s) \in A /\ Head(s) \in Range(s)
           /\ Tail(s) \in Seq(A) /\ Range(Tail(s)) \subseteq Range(s)
<1>1. /\ Len(s) \in Nat /\ DOMAIN s = 1..Len(s) /\ 1 \in 1..Len(s) /\ Head(s) = s[1] /\ s[1] \in A
      BY LenProperties, HeadTailProperties
<1>2. /\ Tail(s) \in Seq(A) /\ Len(Tail(s)) = Len(s) - 1
      /\ \A k \in 1..Len(s) - 1 : Tail(s)[k] = s[k + 1]
      BY HeadTailProperties
<1>3. DOMAIN Tail(s) = 1..Len(s) - 1 /\ \A k \in 1..Len(s) - 1 : k + 1 \in 1..Len(s)
      BY <1>1, <1>2, LenProperties
<1>   QED  BY <1>1, <1>2, <1>3 DEF Range

\* The next entry of a search is read.
IsReadInto(e, f, list, g) ==
    /\ e = Head(f.unread) /\ heap' = Append(heap, MakeInstance(f.type, e))
    /\ list = IF e.included THEN AddObject(heap', f.list, Len(heap')) ELSE f.list
    /\ g = [f EXCEPT !.unread = Tail(@), !.read = @ + 1, !.list = list]

LEMMA EntryRead ==
    ASSUME HeapInv, SettingsStay, NEW f \in Frame, FrameOK(f), f.reading, f.unread # <<>>,
           NEW e, NEW list, NEW g, IsReadInto(e, f, list, g)
    PROVE  /\ HeapInv' /\ GrowingHeap /\ g \in Frame /\ FrameOK(g)'
           /\ \A caller : IsCalledBy(f, caller)' => IsCalledBy(g, caller)'
<1>   USE DEF IsReadInto
<1>1. /\ f.type \in Type /\ f.unread \in Seq(Entry) /\ f.read \in Nat /\ f.list \in SUBSET Nat
      BY DEF Frame
<1>2. /\ e \in Entry /\ e \in Range(f.unread)
      /\ Tail(f.unread) \in Seq(Entry) /\ Range(Tail(f.unread)) \subseteq Range(f.unread)
      BY <1>1, FirstAndOthers
<1>3. e \in Entries(f.type)
      BY <1>2 DEF FrameOK
<1>4. /\ HeapInv' /\ GrowingHeap
      /\ Len(heap') \in DOMAIN heap' /\ heap'[Len(heap')].type = f.type
      /\ heap'[Len(heap')].key = e.key
      BY <1>1, <1>2, <1>3, EntryOnHeap
<1>5. FrameOK(f)'
      BY <1>4, FrameKept DEF GrowingHeap
<1>6. IsListOf(f.type, f.list)' /\ f.list \subseteq DOMAIN heap'
      BY <1>5 DEF FrameOK, IsListOf
<1>7. /\ \A i \in list : i \in f.list \/ i = Len(heap')
      /\ \A i, j \in list : heap'[i].id = heap'[j].id => i = j
      BY <1>6 DEF AddObject, IsListOf
<1>8. IsListOf(f.type, list)'
      BY <1>4, <1>6, <1>7 DEF IsListOf
<1>9. list \in SUBSET Nat
  <2>1. DOMAIN heap' = 1..Len(heap') /\ Len(heap') \in Nat
        BY <1>4, LenProperties DEF HeapInv
  <2>   QED  BY <1>8, <2>1 DEF IsListOf
<1>10. /\ g \in Frame /\ g.type = f.type /\ g.list = list /\ g.unread = Tail(f.unread)
       /\ g.main = f.main /\ g.todo = f.todo /\ g.remove = f.remove /\ g.reading = f.reading
  <2>1. \A r \in Nat : \A u \in Seq(Entry) :
            [f EXCEPT !.unread = u, !.read = r, !.list = list] \in Frame
        BY <1>9 DEF Frame
  <2>2. f.read + 1 \in Nat /\ g = [f EXCEPT !.unread = Tail(f.unread), !.read = f.read + 1, !.list = list]
        BY <1>1
  <2>3. g \in Frame
        BY <1>2, <2>1, <2>2, Zenon
  <2>   QED  BY <2>2, <2>3 DEF Frame
<1>11. f.todo = {} /\ f.remove = {} /\ f.main = 0
       BY DEF FrameOK
<1>12. Range(g.unread)' \subseteq Entries(f.type)'
  <2>1. Range(f.unread) \subseteq Entries(f.type) /\ Entries(f.type)' = Entries(f.type)
        BY SettingsSame DEF FrameOK
  <2>   QED  BY <1>2, <1>10, <2>1
<1>13. FrameOK(g)'
       BY <1>8, <1>10, <1>11, <1>12 DEF FrameOK
<1>14. ASSUME NEW caller, IsCalledBy(f, caller)' PROVE IsCalledBy(g, caller)'
  <2>1. \A i \in g.list : i \in f.list \/ heap'[i].key = e.key
        BY <1>4, <1>7, <1>10
  <2>2. \A u \in Range(g.unread) : u \in Range(f.unread)
        BY <1>2, <1>10
  <2>   QED  BY <1>2, <1>10, <1>14, <2>1, <2>2 DEF IsCalledBy
<1>    QED  BY <1>4, <1>10, <1>13, <1>14

\* A list that was read as a whole.
IsReadAsWhole(f, t, kept) ==
    f = Relating([NewFrame(t, <<>>) EXCEPT !.list = {Len(heap) + k : k \in kept}])

\* What is kept of the new objects of a type.
IsNewList(new, t, kept) ==
    /\ new \in Seq(Instance)
    /\ \A k \in 1..Len(new) : new[k].links = {} /\ new[k].type = t /\ IsFromSource(new[k])
    /\ kept \in SUBSET (1..Len(new))
    /\ \A j, k \in kept : new[j].id = new[k].id => j = k

LEMMA ListRead ==
    ASSUME Basics, HeapInv, SettingsStay, NEW t \in Type, NEW new, NEW kept,
           IsNewList(new, t, kept), heap' = heap \o new, NEW f, IsReadAsWhole(f, t, kept)
    PROVE  HeapInv' /\ GrowingHeap /\ f \in Frame /\ FrameOK(f)'
<1>   SUFFICES ASSUME NEW list, list = {Len(heap) + k : k \in kept},
                      NEW g, g = [NewFrame(t, <<>>) EXCEPT !.list = list]
               PROVE  HeapInv' /\ GrowingHeap /\ f \in Frame /\ FrameOK(f)'
      OBVIOUS
<1>1. /\ HeapInv' /\ HeapGrows
      /\ \A k \in 1..Len(new) : Len(heap) + k \in DOMAIN heap' /\ heap'[Len(heap) + k] = new[k]
      BY HeapExtended DEF IsNewList
<1>   USE DEF IsNewList
<1>2. GrowingHeap
      BY <1>1 DEF GrowingHeap, HeapInv
<1>3. Len(heap) \in Nat /\ Len(new) \in Nat
      BY LenProperties DEF HeapInv
<1>4. IsListOf(t, list)'
  <2>2. \A i \in list : \E k \in kept : i = Len(heap) + k /\ k \in 1..Len(new)
        OBVIOUS
  <2>3. list \subseteq DOMAIN heap' /\ \A i \in list : heap'[i].type = t
        BY <1>1, <2>2
  <2>4. ASSUME NEW i \in list, NEW j \in list, heap'[i].id = heap'[j].id PROVE i = j
    <3>1. PICK k \in kept : i = Len(heap) + k /\ k \in 1..Len(new)
          BY <2>2
    <3>2. PICK m \in kept : j = Len(heap) + m /\ m \in 1..Len(new)
          BY <2>2
    <3>3. new[k].id = new[m].id
          BY <1>1, <2>4, <3>1, <3>2
    <3>   QED  BY <3>1, <3>2, <3>3
  <2>   QED  BY <2>3, <2>4 DEF IsListOf
<1>5. list \in SUBSET Nat
      BY <1>3
<1>6. NewFrame(t, <<>>) \in Frame
  <2>1. <<>> \in Seq(Entry)
        BY EmptySeq
  <2>   QED  BY <2>1 DEF NewFrame, Frame
<1>7. /\ g \in Frame /\ g.type = t /\ g.list = list /\ g.reading /\ g.unread = <<>>
      /\ g.todo = {} /\ g.remove = {} /\ g.main = 0
  <2>1. g \in Frame /\ g.list = list
        BY <1>5, <1>6 DEF Frame
  <2>   QED  BY <2>1 DEF NewFrame
<1>8. Range(g.unread)' \subseteq Entries(t)'
  <2>1. DOMAIN <<>> = {}
        OBVIOUS
  <2>2. Range(g.unread) = {}
        BY <1>7, <2>1, Zenon DEF Range
  <2>   QED  BY <2>2
<1>9. FrameOK(g)'
  <2>1. IsListOf(g.type, g.list)'
        BY <1>4, <1>7 DEF IsListOf
  <2>   QED  BY <1>7, <1>8, <2>1 DEF FrameOK
<1>10. f \in Frame /\ FrameOK(f)'
  <2>1. f = Relating(g)
        BY DEF IsReadAsWhole
  <2>   QED  BY <1>7, <1>9, <2>1, RelatingIs
<1>    QED  BY <1>1, <1>2, <1>10

-----------------------------------------------------------------------------
\* The actions.

LEMMA InvLater ==
    ASSUME Basics', HeapInv', StackOK', DataGood(data)'
    PROVE  LoadInv'
BY InvParts, PTL

LEMMA DataBecomes ==
    ASSUME GrowingHeap, NEW objects, DataGood(objects), data' = objects
    PROVE  DataGood(data)'
<1>1. DataGood(objects)'
      BY DataKept
<1>   QED  BY <1>1 DEF DataGood

LEMMA DataSame ==
    ASSUME GrowingHeap, DataGood(data), data' = data
    PROVE  DataGood(data)'
<1>1. SUFFICES ASSUME NEW objects, objects = data PROVE DataGood(data)'
      OBVIOUS
<1>   QED  BY <1>1, DataBecomes

LEMMA NothingOnStack ==
    ASSUME stack' = <<>>
    PROVE  StackOK'
<1>1. stack' \in Seq(Frame) /\ DOMAIN stack' = {}
      OBVIOUS
<1>   QED  BY <1>1 DEF StackOK

LEMMA StackSame ==
    ASSUME StackOK, GrowingHeap, stack' = stack
    PROVE  StackOK'
<1>1. /\ Len(stack) \in Nat /\ DOMAIN stack = 1..Len(stack)
      /\ \A k \in 1..Len(stack) : stack[k] \in Frame /\ FrameOK(stack[k])
      /\ \A k \in 2..Len(stack) : IsCalledBy(stack[k - 1], stack[k])
      BY FramesAre
<1>2. ASSUME NEW k \in 1..Len(stack) PROVE FrameOK(stack[k])'
  <2>1. SUFFICES ASSUME NEW f, f = stack[k] PROVE FrameOK(f)'
        BY DEF FrameOK
  <2>   QED  BY <1>1, <2>1, FrameKept DEF GrowingHeap
<1>3. ASSUME NEW k \in 2..Len(stack) PROVE IsCalledBy(stack[k - 1], stack[k])'
  <2>1. SUFFICES ASSUME NEW f, NEW caller, f = stack[k - 1], caller = stack[k]
                 PROVE  IsCalledBy(f, caller)'
        BY DEF IsCalledBy
  <2>2. k - 1 \in 1..Len(stack) /\ k \in 1..Len(stack)
        BY <1>1
  <2>3. f \in Frame /\ caller \in Frame /\ FrameOK(f) /\ FrameOK(caller) /\ IsCalledBy(f, caller)
        BY <1>1, <2>1, <2>2
  <2>   QED  BY <2>3, CallKept DEF GrowingHeap
<1>4. \A k \in DOMAIN stack' \ {1} : k \in 2..Len(stack)
      BY <1>1
<1>   QED  BY <1>1, <1>2, <1>3, <1>4 DEF StackOK

\* Nothing but the result, the counters and the place in the order changes.
LEMMA Quiet ==
    ASSUME LoadInv, Basics', SettingsStay, heap' = heap, data' = data, stack' = stack
    PROVE  LoadInv'
<1>1. HeapInv /\ StackOK /\ DataGood(data)
      BY InvParts
<1>2. HeapInv' /\ GrowingHeap
      BY <1>1, HeapSame
<1>   QED  BY <1>1, <1>2, StackSame, DataSame, InvLater

LEMMA FailureStep ==
    ASSUME LoadInv, LoadFails, faults' \in 0..MaxFaults
    PROVE  LoadInv'
<1>1. Basics
      BY InvParts
<1>2. Basics' /\ SettingsStay /\ heap' = heap /\ data' = data /\ stack' = stack
      BY <1>1 DEF LoadFails, settingVars, Basics, SettingsStay
<1>   QED  BY <1>2, Quiet

\* The load order names a type.
LEMMA TypeInOrder ==
    ASSUME LoadInv, InOrder
    PROVE  CurrentType \in Type
<1>1. config.order \in Seq(Type) /\ at \in Nat \ {0}
      BY InvParts, ConfigIs DEF Basics
<1>2. at \in 1..Len(config.order)
      BY <1>1, LenProperties DEF InOrder
<1>   QED  BY <1>1, <1>2, ElementOfSeq DEF CurrentType

\* A list begins to be loaded, and no other is.
LEMMA ListBegun ==
    ASSUME LoadInv, InOrder, GrowingHeap, NEW f \in Frame, FrameOK(f)', stack' = <<f>>
    PROVE  StackOK'
<1>1. StackOK /\ stack = <<>>
      BY InvParts DEF InOrder
<1>2. stack' = <<f>> \o stack
  <2>1. <<f>> \in Seq(Frame)
        OBVIOUS
  <2>2. <<f>> \o <<>> = <<f>>
        BY <2>1, ConcatEmptySeq
  <2>   QED  BY <1>1, <2>2
<1>   QED  BY <1>1, <1>2, Pushed

\* When duplicates are ignored, the last object of an id is the one that stays.
LEMMA LastOfEach ==
    ASSUME NEW A, NEW objects \in Seq(A)
    PROVE  /\ LastOfEachId(objects) \in SUBSET (1..Len(objects))
           /\ \A j, k \in LastOfEachId(objects) : objects[j].id = objects[k].id => j = k
<1>1. Len(objects) \in Nat /\ DOMAIN objects = 1..Len(objects)
      BY LenProperties
<1>2. ASSUME NEW j \in LastOfEachId(objects), NEW k \in LastOfEachId(objects),
             objects[j].id = objects[k].id
      PROVE  j = k
  <2>1. j \in 1..Len(objects) /\ k \in 1..Len(objects)
        BY <1>1 DEF LastOfEachId
  <2>2. CASE j < k
    <3>1. k \in (j + 1)..Len(objects)
          BY <1>1, <2>1, <2>2
    <3>   QED  BY <1>2, <3>1 DEF LastOfEachId
  <2>3. CASE k < j
    <3>1. j \in (k + 1)..Len(objects)
          BY <1>1, <2>1, <2>3
    <3>   QED  BY <1>2, <3>1 DEF LastOfEachId
  <2>   QED  BY <1>1, <2>1, <2>2, <2>3
<1>   QED  BY <1>1, <1>2 DEF LastOfEachId

LEMMA LoadTableStep ==
    ASSUME LoadInv, LoadTable
    PROVE  LoadInv'
<1>   SUFFICES ASSUME NEW t, t = CurrentType, NEW rows, rows = source[t],
                      NEW kept, kept = {k \in LastOfEachId(rows) : rows[k].included},
                      NEW new, new = [k \in DOMAIN rows |-> MakeInstance(t, rows[k])],
                      NEW f, f = Relating([NewFrame(t, <<>>) EXCEPT
                                               !.list = {Len(heap) + k : k \in kept}])
               PROVE  LoadInv'
      OBVIOUS
<1>1. Basics /\ HeapInv /\ StackOK /\ DataGood(data)
      BY InvParts
<1>2. InOrder /\ heap' = heap \o new /\ stack' = <<f>> /\ data' = data /\ SettingsStay
      BY DEF LoadTable, settingVars, SettingsStay
<1>3. Basics'
      BY <1>1 DEF LoadTable, settingVars, Basics
<1>4. t \in Type
      BY <1>2, TypeInOrder
<1>5. rows \in Seq(Entry)
      BY <1>1, <1>4, ConfigIs DEF Basics
<1>6. Len(rows) \in Nat /\ DOMAIN rows = 1..Len(rows) /\ \A k \in 1..Len(rows) : rows[k] \in Entry
      BY <1>5, LenProperties, ElementOfSeq
<1>7. ASSUME NEW k \in 1..Len(rows)
      PROVE  /\ new[k] \in Instance /\ new[k].links = {} /\ new[k].type = t
             /\ new[k].id = rows[k].id /\ IsFromSource(new[k])
  <2>1. rows[k] \in Entries(t)
        BY <1>6 DEF Entries
  <2>2. new[k] = MakeInstance(t, rows[k])
        BY <1>6
  <2>   QED  BY <1>4, <1>6, <2>1, <2>2, MakeInstanceIs
<1>8. new \in Seq(Instance) /\ Len(new) = Len(rows)
  <2>1. new \in [1..Len(rows) -> Instance]
        BY <1>6, <1>7
  <2>   QED  BY <1>6, <2>1
<1>9. /\ kept \in SUBSET (1..Len(new))
      /\ \A j, k \in kept : new[j].id = new[k].id => j = k
  <2>1. /\ LastOfEachId(rows) \in SUBSET (1..Len(rows))
        /\ \A j, k \in LastOfEachId(rows) : rows[j].id = rows[k].id => j = k
        BY <1>5, LastOfEach
  <2>2. \A k \in kept : k \in LastOfEachId(rows) /\ k \in 1..Len(rows)
        BY <2>1
  <2>3. \A k \in kept : new[k].id = rows[k].id
        BY <1>7, <2>2, Zenon
  <2>4. ASSUME NEW j \in kept, NEW k \in kept, new[j].id = new[k].id PROVE j = k
    <3>1. rows[j].id = rows[k].id
          BY <2>3, <2>4
    <3>   QED  BY <2>1, <2>2, <3>1, Zenon
  <2>5. kept \in SUBSET (1..Len(new))
        BY <1>8, <2>2
  <2>   QED  BY <2>4, <2>5
<1>10. \A k \in 1..Len(new) : new[k].links = {} /\ new[k].type = t /\ IsFromSource(new[k])
       BY <1>7, <1>8
<1>11. HeapInv' /\ GrowingHeap /\ f \in Frame /\ FrameOK(f)'
  <2>1. IsReadAsWhole(f, t, kept)
        BY DEF IsReadAsWhole
  <2>2. IsNewList(new, t, kept)
        BY <1>8, <1>9, <1>10, Zenon DEF IsNewList
  <2>   QED  BY <1>1, <1>2, <1>4, <2>1, <2>2, ListRead, Zenon
<1>12. StackOK'
       BY <1>2, <1>11, ListBegun
<1>    QED  BY <1>1, <1>2, <1>3, <1>11, <1>12, DataSame, InvLater

LEMMA LoadLdapStep ==
    ASSUME LoadInv, LoadLdap
    PROVE  LoadInv'
<1>   SUFFICES ASSUME NEW t, t = CurrentType, NEW f, f = NewFrame(t, source[t]) PROVE LoadInv'
      OBVIOUS
<1>1. Basics /\ HeapInv /\ StackOK /\ DataGood(data)
      BY InvParts
<1>2. /\ InOrder /\ heap' = heap /\ stack' = <<f>> /\ data' = data /\ SettingsStay /\ Basics'
      BY <1>1 DEF LoadLdap, settingVars, SettingsStay, Basics
<1>3. HeapInv' /\ GrowingHeap
      BY <1>1, <1>2, HeapSame
<1>4. t \in Type
      BY <1>2, TypeInOrder
<1>5. source[t] \in Seq(Entry)
      BY <1>1, <1>4, ConfigIs DEF Basics
<1>6. Range(source[t]) \subseteq Entries(t)
      BY DEF Range, Entries
<1>7. f \in Frame /\ FrameOK(f)
      BY <1>4, <1>5, <1>6, NewFrameIs
<1>8. FrameOK(f)'
      BY <1>3, <1>7, FrameKept DEF GrowingHeap
<1>9. StackOK'
      BY <1>2, <1>3, <1>7, <1>8, ListBegun
<1>   QED  BY <1>1, <1>2, <1>3, <1>9, DataSame, InvLater

LEMMA NothingToLoadStep ==
    ASSUME LoadInv, NothingToLoad
    PROVE  LoadInv'
<1>1. Basics
      BY InvParts
<1>2. at' \in Nat \ {0}
      BY <1>1 DEF NothingToLoad, Basics
<1>3. Basics' /\ SettingsStay /\ heap' = heap /\ data' = data /\ stack' = stack
      BY <1>1, <1>2 DEF NothingToLoad, settingVars, Basics, SettingsStay
<1>   QED  BY <1>3, Quiet

\* The list at the top.
LEMMA TopIs ==
    ASSUME StackOK, stack # <<>>
    PROVE  Top \in Frame /\ FrameOK(Top)
<1>1. Top = stack[1] /\ 1 \in 1..Len(stack)
      BY FramesAre
<1>   QED  BY <1>1, FramesAre

\* The heap and the data stay, and the top goes on.
LEMMA TopStep ==
    ASSUME LoadInv, Basics', SettingsStay, stack # <<>>, heap' = heap, data' = data,
           NEW f \in Frame, SetTop(f), FrameOK(f),
           f.type = Top.type, f.list = Top.list, Range(f.unread) \subseteq Range(Top.unread)
    PROVE  LoadInv'
<1>1. HeapInv /\ StackOK /\ DataGood(data)
      BY InvParts
<1>2. HeapInv' /\ GrowingHeap
      BY <1>1, HeapSame
<1>3. FrameOK(f)'
      BY <1>2, FrameKept DEF GrowingHeap
<1>4. StackOK'
      BY <1>1, <1>2, <1>3, TopGoesOn
<1>   QED  BY <1>1, <1>2, <1>4, DataSame, InvLater

LEMMA TruncateStep ==
    ASSUME LoadInv, Reading, Truncate
    PROVE  LoadInv'
<1>   SUFFICES ASSUME NEW f, f = Top, NEW g, g = [f EXCEPT !.unread = <<>>] PROVE LoadInv'
      OBVIOUS
<1>1. Basics /\ StackOK /\ stack # <<>>
      BY InvParts DEF Reading
<1>2. f \in Frame /\ FrameOK(f)
      BY <1>1, TopIs
<1>3. SetTop(g) /\ heap' = heap /\ data' = data /\ SettingsStay
      BY DEF Truncate, settingVars, SettingsStay
<1>4. Basics'
  <2>1. faults' \in 0..MaxFaults
        BY <1>1, LoadAssumption DEF Truncate, Basics
  <2>   QED  BY <1>1, <2>1 DEF Truncate, settingVars, Basics
<1>5. /\ g \in Frame /\ FrameOK(g)
      /\ g.type = f.type /\ g.list = f.list /\ Range(g.unread) = {}
      BY <1>2, CutShort
<1>   QED  BY <1>1, <1>3, <1>4, <1>5, TopStep

LEMMA PickMainStep ==
    ASSUME LoadInv, PickMain
    PROVE  LoadInv'
<1>   SUFFICES ASSUME NEW f, f = Top PROVE LoadInv'
      OBVIOUS
<1>1. Basics /\ StackOK /\ stack # <<>>
      BY InvParts DEF PickMain, RelatingNow
<1>2. f \in Frame /\ FrameOK(f)
      BY <1>1, TopIs
<1>3. PICK i \in f.todo : SetTop([f EXCEPT !.main = i, !.rel = 1, !.val = 1, !.found = FALSE])
      BY DEF PickMain
<1>4. heap' = heap /\ data' = data /\ SettingsStay /\ Basics'
      BY <1>1 DEF PickMain, settingVars, SettingsStay, Basics
<1>5. PICK g : g = [f EXCEPT !.main = i, !.rel = 1, !.val = 1, !.found = FALSE]
      OBVIOUS
<1>6. /\ g \in Frame /\ FrameOK(g)
      /\ g.type = f.type /\ g.list = f.list /\ g.unread = f.unread
      BY <1>1, <1>2, <1>5, PickedMain
<1>7. SetTop(g)
      BY <1>3, <1>5
<1>   QED  BY <1>1, <1>4, <1>6, <1>7, TopStep

LEMMA NextRelationStep ==
    ASSUME LoadInv, NextRelation
    PROVE  LoadInv'
<1>   SUFFICES ASSUME NEW f, f = Top, NEW g, g = AfterRelation(f) PROVE LoadInv'
      OBVIOUS
<1>1. Basics /\ StackOK /\ stack # <<>> /\ ~f.reading /\ f.main # 0
      BY InvParts DEF NextRelation, RelatingNow
<1>2. f \in Frame /\ FrameOK(f)
      BY <1>1, TopIs
<1>3. SetTop(g) /\ heap' = heap /\ data' = data /\ SettingsStay /\ Basics'
      BY <1>1 DEF NextRelation, settingVars, SettingsStay, Basics
<1>4. /\ g \in Frame /\ FrameOK(g)
      /\ g.type = f.type /\ g.list = f.list /\ g.unread = f.unread
      BY <1>1, <1>2, AfterRelationIs
<1>   QED  BY <1>1, <1>3, <1>4, TopStep

LEMMA EndOfEntriesStep ==
    ASSUME LoadInv, EndOfEntries
    PROVE  LoadInv'
<1>   SUFFICES ASSUME NEW f, f = Top, NEW g, g = Relating(f) PROVE LoadInv'
      OBVIOUS
<1>1. /\ Basics /\ HeapInv /\ StackOK /\ DataGood(data)
      /\ stack # <<>> /\ f.reading
      BY InvParts DEF EndOfEntries, Reading
<1>2. f \in Frame /\ FrameOK(f)
      BY <1>1, TopIs
<1>3. SetTop(g) /\ heap' = heap /\ data' = data /\ SettingsStay /\ Basics'
      BY <1>1 DEF EndOfEntries, settingVars, SettingsStay, Basics
<1>4. HeapInv' /\ GrowingHeap
      BY <1>1, <1>3, HeapSame
<1>5. FrameOK(f)'
      BY <1>2, <1>4, FrameKept DEF GrowingHeap
<1>6. /\ g \in Frame /\ FrameOK(g)'
      /\ g.type = f.type /\ g.list = f.list /\ g.unread = f.unread
      BY <1>1, <1>2, <1>3, <1>5, RelatingIs
<1>7. StackOK'
      BY <1>1, <1>3, <1>4, <1>6, TopGoesOn
<1>   QED  BY <1>1, <1>3, <1>4, <1>7, DataSame, InvLater

LEMMA ReadEntryStep ==
    ASSUME LoadInv, ReadEntry
    PROVE  LoadInv'
<1>   SUFFICES ASSUME NEW f, f = Top, NEW e, e = Head(f.unread),
                      NEW list, list = IF e.included THEN AddObject(heap', f.list, Len(heap')) ELSE f.list,
                      NEW g, g = [f EXCEPT !.unread = Tail(@), !.read = @ + 1, !.list = list]
               PROVE  LoadInv'
      OBVIOUS
<1>1. /\ Basics /\ HeapInv /\ StackOK /\ DataGood(data)
      /\ stack # <<>> /\ f.reading /\ f.unread # <<>>
      BY InvParts DEF ReadEntry, Reading
<1>2. f \in Frame /\ FrameOK(f)
      BY <1>1, TopIs
<1>3. heap' = Append(heap, MakeInstance(f.type, e)) /\ data' = data /\ SettingsStay /\ Basics'
      BY <1>1 DEF ReadEntry, settingVars, SettingsStay, Basics
<1>4. SetTop(g)
      BY DEF ReadEntry
<1>5. /\ HeapInv' /\ GrowingHeap /\ g \in Frame /\ FrameOK(g)'
      /\ \A caller : IsCalledBy(f, caller)' => IsCalledBy(g, caller)'
  <2>1. IsReadInto(e, f, list, g)
        BY <1>3 DEF IsReadInto
  <2>   QED  BY <1>1, <1>2, <1>3, <2>1, EntryRead
<1>6. ASSUME NEW caller, Len(stack) > 1, caller = stack[2] PROVE IsCalledBy(g, caller)'
  <2>1. Len(stack) \in Nat /\ f = stack[1]
        BY <1>1, FramesAre
  <2>2. 2 \in 2..Len(stack) /\ 2 \in 1..Len(stack) /\ 2 - 1 = 1
        BY <1>6, <2>1
  <2>3. caller \in Frame /\ FrameOK(caller) /\ IsCalledBy(f, caller)
        BY <1>1, <1>6, <2>1, <2>2, FramesAre
  <2>4. IsCalledBy(f, caller)'
        BY <1>2, <1>5, <2>3, CallKept DEF GrowingHeap
  <2>   QED  BY <1>5, <2>4
<1>7. StackOK'
      BY <1>1, <1>4, <1>5, <1>6, TopReplaced
<1>   QED  BY <1>1, <1>3, <1>5, <1>7, DataSame, InvLater

\* The main object of a list refers to whatever has the value at hand.
IsAtValue(f, r, v) ==
    /\ f.main \in DOMAIN heap /\ heap[f.main].type = f.type
    /\ r.type \in Type /\ r \in RelationsTo(f.type, r.type)
    /\ \A o : v \in o.key => Refers(heap[f.main], r.type, o)

LEMMA AtValueIs ==
    ASSUME Basics, HeapInv, NEW f \in Frame, FrameOK(f), f.main # 0, f.val <= Len(ValuesOf(f))
    PROVE  IsAtValue(f, RelationOf(f), ValuesOf(f)[f.val])
<1>   DEFINE r == RelationOf(f)
             values == ValuesOf(f)
<1>1. f.type \in Type
      BY DEF Frame
<1>2. /\ f.main \in f.list /\ f.list \subseteq DOMAIN heap /\ heap[f.main].type = f.type
      /\ f.rel \in 1..Len(Relations(f.type)) /\ f.val \in Nat \ {0}
      BY DEF FrameOK, IsListOf
<1>3. r \in Relation /\ r \in RelationsTo(f.type, r.type)
      BY <1>1, <1>2, RelationsAre DEF Basics, RelationOf
<1>4. r.type \in Type
      BY <1>3 DEF Relation
<1>5. values = heap[f.main].refs[r.type]
      BY DEF ValuesOf
<1>6. values \in Seq(Value)
      BY <1>2, <1>4, <1>5, ObjectsAre DEF HeapInv
<1>   HIDE DEF r, values
<1>7. f.val \in DOMAIN values
  <2>1. DOMAIN values = 1..Len(values) /\ Len(values) \in Nat
        BY <1>6, LenProperties
  <2>   QED  BY <1>2, <2>1 DEF values
<1>8. \A o : values[f.val] \in o.key => Refers(heap[f.main], r.type, o)
      BY <1>5, <1>7 DEF Refers
<1>9. IsAtValue(f, r, values[f.val])
      BY <1>2, <1>3, <1>4, <1>8 DEF IsAtValue
<1>   QED  BY <1>9 DEF r, values

\* The main object is related to one that has the value at hand.
LEMMA Establishing ==
    ASSUME HeapInv, SettingsStay, NEW f, NEW r, NEW v, IsAtValue(f, r, v),
           NEW j \in DOMAIN heap, heap[j].type = r.type, v \in heap[j].key,
           heap' = Establish(heap, f.main, j)
    PROVE  HeapInv' /\ GrowingHeap /\ Made(f.main, r)'
<1>   DEFINE i == f.main
<1>1. i \in DOMAIN heap /\ heap[i].type = f.type /\ Refers(heap[i], r.type, heap[j])
      BY DEF IsAtValue
<1>2. Related(heap[i].type, heap[i], heap[j].type, heap[j])
      BY <1>1 DEF Related, IsAtValue
<1>   HIDE DEF i
<1>3. HeapInv' /\ HeapGrows /\ Linked(i, j)'
      BY <1>1, <1>2, EstablishIs DEF i
<1>4. j \in DOMAIN heap' /\ heap'[j].type = r.type
      BY <1>3 DEF HeapGrows
<1>5. Refers(heap'[i], r.type, heap'[j])
      BY <1>1, <1>3, RelatedSame DEF HeapGrows
<1>6. Made(i, r)'
      BY <1>3, <1>4, <1>5 DEF Made, Refers
<1>   QED  BY <1>3, <1>6 DEF i, GrowingHeap, HeapInv

\* The list at the top has come to a value.
LEMMA TopAtValue ==
    ASSUME LoadInv, AtValue
    PROVE  /\ stack # <<>> /\ Top \in Frame /\ FrameOK(Top) /\ ~Top.reading /\ Top.main # 0
           /\ Top.val <= Len(ValuesOf(Top))
           /\ CurrentRelation = RelationOf(Top) /\ CurrentValue = ValuesOf(Top)[Top.val]
           /\ IsAtValue(Top, CurrentRelation, CurrentValue)
<1>1. Basics /\ HeapInv /\ StackOK
      BY InvParts
<1>2. stack # <<>> /\ ~Top.reading /\ Top.main # 0 /\ Top.val <= Len(CurrentValues)
      BY DEF AtValue, RelatingNow
<1>3. CurrentRelation = RelationOf(Top) /\ CurrentValues = ValuesOf(Top)
      BY DEF CurrentRelation, CurrentValues, RelationOf, ValuesOf
<1>4. CurrentValue = ValuesOf(Top)[Top.val]
      BY <1>3 DEF CurrentValue
<1>5. Top \in Frame /\ FrameOK(Top)
      BY <1>1, <1>2, TopIs
<1>6. IsAtValue(Top, RelationOf(Top), ValuesOf(Top)[Top.val])
      BY <1>1, <1>2, <1>3, <1>5, AtValueIs
<1>   QED  BY <1>2, <1>3, <1>4, <1>5, <1>6

LEMMA RelateLoadedStep ==
    ASSUME LoadInv, RelateLoaded
    PROVE  LoadInv'
<1>   SUFFICES ASSUME NEW f, f = Top, NEW r, r = CurrentRelation, NEW v, v = CurrentValue,
                      NEW g, g = [f EXCEPT !.val = @ + 1, !.found = TRUE]
               PROVE  LoadInv'
      OBVIOUS
<1>1. Basics /\ HeapInv /\ StackOK /\ DataGood(data)
      BY InvParts
<1>2. /\ stack # <<>> /\ f \in Frame /\ FrameOK(f) /\ f.main # 0
      /\ r = RelationOf(f) /\ IsAtValue(f, r, v)
      BY TopAtValue DEF RelateLoaded
<1>3. PICK j \in Matches : heap' = Establish(heap, f.main, j)
      BY DEF RelateLoaded
<1>4. SetTop(g) /\ data' = data /\ SettingsStay /\ Basics'
      BY <1>1 DEF RelateLoaded, settingVars, SettingsStay, Basics
<1>5. j \in data[r.type] /\ v \in heap[j].key /\ r.type \in Type
      BY <1>2, <1>3 DEF Matches, FindLoaded, IsAtValue
<1>6. j \in DOMAIN heap /\ heap[j].type = r.type
      BY <1>1, <1>5 DEF DataGood, IsListOf
<1>7. HeapInv' /\ GrowingHeap /\ Made(f.main, r)'
      BY <1>1, <1>2, <1>3, <1>4, <1>5, <1>6, Establishing
<1>8. FrameOK(f)'
      BY <1>2, <1>7, FrameKept DEF GrowingHeap
<1>9. IsNextValue(g, f)
  <2>1. f.found \in BOOLEAN /\ f.val \in Nat
        BY <1>2 DEF Frame
  <2>2. g.found = TRUE
        BY <1>2 DEF Frame
  <2>   QED  BY <2>2 DEF IsNextValue
<1>10. Made(f.main, RelationOf(f))'
  <2>1. Relations(f.type)' = Relations(f.type)
        BY <1>4, SettingsSame
  <2>2. RelationOf(f)' = r
        BY <1>2, <2>1 DEF RelationOf
  <2>   QED  BY <1>7, <2>2 DEF Made
<1>11. /\ g \in Frame /\ FrameOK(g)'
       /\ g.type = f.type /\ g.list = f.list /\ g.unread = f.unread
       BY <1>2, <1>4, <1>8, <1>9, <1>10, ValueDone
<1>12. StackOK'
       BY <1>1, <1>2, <1>4, <1>7, <1>11, TopGoesOn
<1>    QED  BY <1>1, <1>4, <1>7, <1>12, DataSame, InvLater

LEMMA NothingLoadedStep ==
    ASSUME LoadInv, NothingLoaded
    PROVE  LoadInv'
<1>   SUFFICES ASSUME NEW f, f = Top, NEW g, g = [f EXCEPT !.val = @ + 1] PROVE LoadInv'
      OBVIOUS
<1>1. Basics /\ HeapInv /\ StackOK /\ DataGood(data)
      BY InvParts
<1>2. stack # <<>> /\ f \in Frame /\ FrameOK(f) /\ f.main # 0
      BY TopAtValue DEF NothingLoaded
<1>3. SetTop(g) /\ heap' = heap /\ data' = data /\ SettingsStay /\ Basics'
      BY <1>1 DEF NothingLoaded, settingVars, SettingsStay, Basics
<1>4. HeapInv' /\ GrowingHeap
      BY <1>1, <1>3, HeapSame
<1>5. FrameOK(f)'
      BY <1>2, <1>4, FrameKept DEF GrowingHeap
<1>6. g.found = f.found /\ IsNextValue(g, f)
  <2>1. f.found \in BOOLEAN
        BY <1>2 DEF Frame
  <2>2. g.found = f.found
        BY <1>2 DEF Frame
  <2>3. g = [f EXCEPT !.val = @ + 1, !.found = f.found]
        BY <1>2 DEF Frame
  <2>   QED  BY <2>1, <2>2, <2>3 DEF IsNextValue
<1>7. /\ g \in Frame /\ FrameOK(g)'
      /\ g.type = f.type /\ g.list = f.list /\ g.unread = f.unread
      BY <1>2, <1>3, <1>5, <1>6, ValueDone
<1>8. StackOK'
      BY <1>1, <1>2, <1>3, <1>4, <1>7, TopGoesOn
<1>   QED  BY <1>1, <1>3, <1>4, <1>8, DataSame, InvLater

LEMMA StartSearchStep ==
    ASSUME LoadInv, StartSearch
    PROVE  LoadInv'
<1>   SUFFICES ASSUME NEW f, f = Top, NEW r, r = CurrentRelation, NEW v, v = CurrentValue,
                      NEW entries, entries = source[r.type],
                      NEW found, found = {n \in DOMAIN entries : v \in entries[n].key},
                      NEW picked, picked = Picked(entries, found),
                      NEW g, g = NewFrame(r.type, picked)
               PROVE  LoadInv'
      OBVIOUS
<1>1. Basics /\ HeapInv /\ StackOK /\ DataGood(data)
      BY InvParts
<1>2. /\ stack # <<>> /\ f \in Frame /\ FrameOK(f) /\ ~f.reading /\ f.main # 0
      /\ f.val <= Len(ValuesOf(f))
      /\ r = RelationOf(f) /\ v = ValuesOf(f)[f.val] /\ r.type \in Type
      BY TopAtValue DEF StartSearch, Searches, IsAtValue
<1>3. stack' = <<g>> \o stack
      BY DEF StartSearch
<1>4. heap' = heap /\ data' = data /\ SettingsStay /\ Basics'
      BY <1>1 DEF StartSearch, settingVars, SettingsStay, Basics
<1>5. HeapInv' /\ GrowingHeap
      BY <1>1, <1>4, HeapSame
<1>6. entries \in Seq(Entry)
      BY <1>1, <1>2, ConfigIs DEF Basics
<1>7. IsPick(picked, entries, found, Entry)
      BY <1>6, PickedIs
<1>8. picked \in Seq(Entry) /\ \A e \in Range(picked) : e \in Entries(r.type) /\ v \in e.key
  <2>1. picked \in Seq(Entry)
        BY <1>7 DEF IsPick
  <2>2. DOMAIN picked = 1..Len(picked)
        BY <2>1, LenProperties
  <2>3. ASSUME NEW k \in 1..Len(picked) PROVE picked[k] \in Entries(r.type) /\ v \in picked[k].key
    <3>1. PICK n \in DOMAIN entries : n \in found /\ picked[k] = entries[n]
          BY <1>7, Zenon DEF IsPick
    <3>   QED  BY <3>1 DEF Entries
  <2>4. ASSUME NEW e \in Range(picked) PROVE e \in Entries(r.type) /\ v \in e.key
    <3>1. PICK k \in 1..Len(picked) : e = picked[k]
          BY <2>2, <2>4, Zenon DEF Range
    <3>   QED  BY <2>3, <3>1
  <2>   QED  BY <2>1, <2>4
<1>9. g \in Frame /\ FrameOK(g)
  <2>1. Range(picked) \subseteq Entries(r.type)
        BY <1>8
  <2>   QED  BY <1>2, <1>8, <2>1, NewFrameIs
<1>10. g.type = r.type /\ g.list = {} /\ g.unread = picked
       BY DEF NewFrame
<1>11. IsCalledBy(g, f)
       BY <1>2, <1>8, <1>10 DEF IsCalledBy
<1>12. FrameOK(g)'
       BY <1>5, <1>9, FrameKept DEF GrowingHeap
<1>13. IsCalledBy(g, f)'
       BY <1>2, <1>5, <1>9, <1>11, CallKept DEF GrowingHeap
<1>14. \A caller : stack # <<>> /\ caller = stack[1] => IsCalledBy(g, caller)'
  <2>1. f = stack[1]
        BY <1>1, <1>2, FramesAre
  <2>   QED  BY <1>13, <2>1
<1>15. StackOK'
       BY <1>1, <1>3, <1>5, <1>9, <1>12, <1>14, Pushed
<1>    QED  BY <1>1, <1>4, <1>5, <1>15, DataSame, InvLater

\* A list that is loaded has what its relations require.
LEMMA LoadedListIs ==
    ASSUME LoadInv, AllRelated, stack # <<>>, NEW f, f = Top
    PROVE  /\ f \in Frame /\ FrameOK(f) /\ f.type \in Type
           /\ IsListOf(f.type, f.list \ f.remove)
           /\ \A i \in f.list \ f.remove : MadeBefore(i, f.type, Len(Relations(f.type)) + 1)
<1>1. f \in Frame /\ FrameOK(f) /\ ~f.reading /\ f.todo = {}
      BY InvParts, TopIs DEF AllRelated, RelatingNow
<1>2. f.type \in Type
      BY <1>1 DEF Frame
<1>3. IsListOf(f.type, f.list \ f.remove)
      BY <1>1 DEF FrameOK, IsListOf
<1>4. \A i \in f.list \ f.remove : MadeBefore(i, f.type, Len(Relations(f.type)) + 1)
      BY <1>1 DEF FrameOK
<1>   QED  BY <1>1, <1>2, <1>3, <1>4

LEMMA ReturnListStep ==
    ASSUME LoadInv, ReturnList
    PROVE  LoadInv'
<1>   SUFFICES ASSUME NEW f, f = Top, NEW objects, objects = AddList(f.type, f.list \ f.remove)
               PROVE  LoadInv'
      OBVIOUS
<1>1. Basics /\ HeapInv /\ StackOK /\ DataGood(data)
      BY InvParts
<1>2. AllRelated /\ stack # <<>>
      BY DEF ReturnList, AllRelated, RelatingNow
<1>3. heap' = heap /\ data' = objects /\ stack' = <<>> /\ SettingsStay
      BY DEF ReturnList, settingVars, SettingsStay
<1>4. Basics'
  <2>1. at' \in Nat \ {0}
        BY <1>1 DEF ReturnList, Basics
  <2>   QED  BY <1>1, <2>1 DEF ReturnList, settingVars, Basics
<1>5. HeapInv' /\ GrowingHeap
      BY <1>1, <1>3, HeapSame
<1>6. /\ f.type \in Type /\ IsListOf(f.type, f.list \ f.remove)
      /\ \A i \in f.list \ f.remove : MadeBefore(i, f.type, Len(Relations(f.type)) + 1)
      BY <1>2, LoadedListIs
<1>7. DataGood(objects)
      BY <1>1, <1>6, ListAdded
<1>8. DataGood(data)'
      BY <1>3, <1>5, <1>7, DataBecomes
<1>9. StackOK'
      BY <1>3, NothingOnStack
<1>   QED  BY <1>4, <1>5, <1>8, <1>9, InvLater

LEMMA WithoutOrphansIs ==
    ASSUME DataGood(data)
    PROVE  DataGood(WithoutOrphans)
<1>1. WithoutOrphans = [t \in Type |-> WithoutOrphans[t]] /\ \A t \in Type : WithoutOrphans[t] \subseteq data[t]
      BY DEF WithoutOrphans
<1>   QED  BY <1>1, LessIsGood

LEMMA LoadSucceedsStep ==
    ASSUME LoadInv, LoadSucceeds
    PROVE  LoadInv'
<1>   SUFFICES ASSUME NEW objects, objects = Filtered PROVE LoadInv'
      OBVIOUS
<1>1. Basics /\ HeapInv /\ StackOK /\ DataGood(data)
      BY InvParts
<1>2. heap' = heap /\ data' = objects /\ stack' = stack /\ SettingsStay /\ Basics'
      BY <1>1 DEF LoadSucceeds, settingVars, SettingsStay, Basics
<1>3. HeapInv' /\ GrowingHeap
      BY <1>1, <1>2, HeapSame
<1>4. DataGood(objects)
      BY <1>1, WithoutOrphansIs DEF Filtered
<1>5. DataGood(data)'
      BY <1>2, <1>3, <1>4, DataBecomes
<1>6. StackOK'
      BY <1>1, <1>2, <1>3, StackSame
<1>   QED  BY <1>2, <1>3, <1>5, <1>6, InvLater

LEMMA ReturnResponseStep ==
    ASSUME LoadInv, ReturnResponse
    PROVE  LoadInv'
<1>   SUFFICES ASSUME NEW f, f = Top, NEW caller, caller = stack[2],
                      NEW response, response = f.list \ f.remove,
                      NEW one \in BOOLEAN, one <=> Cardinality(response) = 1,
                      NEW objects, objects = IF one THEN AddList(f.type, response) ELSE data,
                      NEW j, j = CHOOSE i \in response : TRUE,
                      NEW g, g = [caller EXCEPT !.val = @ + 1, !.found = @ \/ one]
               PROVE  LoadInv'
  <2>   DEFINE b == Cardinality(Top.list \ Top.remove) = 1
  <2>1. b \in BOOLEAN /\ (b <=> Cardinality(Top.list \ Top.remove) = 1)
        OBVIOUS
  <2>   HIDE DEF b
  <2>   QED  BY <2>1
<1>1. Basics /\ HeapInv /\ StackOK /\ DataGood(data)
      BY InvParts
<1>2. AllRelated /\ Len(stack) \in Nat /\ Len(stack) > 1 /\ stack # <<>> /\ f = stack[1]
  <2>1. AllRelated /\ Len(stack) > 1 /\ stack # <<>>
        BY DEF ReturnResponse, AllRelated, RelatingNow
  <2>   QED  BY <1>1, <2>1, FramesAre
<1>3. /\ data' = objects /\ stack' = <<g>> \o SubSeq(stack, 3, Len(stack))
      /\ heap' = IF one THEN Establish(heap, caller.main, j) ELSE heap
      /\ SettingsStay
  <2>1. data' = objects
        BY DEF ReturnResponse
  <2>2. heap' = IF one THEN Establish(heap, caller.main, j) ELSE heap
        BY DEF ReturnResponse
  <2>3. stack' = <<g>> \o SubSeq(stack, 3, Len(stack))
        BY DEF ReturnResponse
  <2>   QED  BY <2>1, <2>2, <2>3 DEF ReturnResponse, settingVars, SettingsStay
<1>4. Basics'
      BY <1>1 DEF ReturnResponse, settingVars, Basics
<1>5. /\ f \in Frame /\ FrameOK(f) /\ f.type \in Type /\ IsListOf(f.type, response)
      /\ \A i \in response : MadeBefore(i, f.type, Len(Relations(f.type)) + 1)
      BY <1>2, LoadedListIs
<1>6. DataGood(objects)
      BY <1>1, <1>5, ListAdded
<1>7. /\ caller \in Frame /\ FrameOK(caller) /\ IsCalledBy(f, caller)
  <2>1. 2 \in 2..Len(stack) /\ 2 \in 1..Len(stack) /\ 2 - 1 = 1
        BY <1>2
  <2>   QED  BY <1>1, <1>2, <2>1, FramesAre
<1>8. caller.main # 0 /\ caller.val <= Len(ValuesOf(caller)) /\ f.type = RelationOf(caller).type
      BY <1>7 DEF IsCalledBy
<1>9. HeapInv' /\ GrowingHeap /\ (one => Made(caller.main, RelationOf(caller))')
  <2>1. CASE one
    <3>   DEFINE v == ValuesOf(caller)[caller.val]
    <3>1. response # {}
      <4>1. Cardinality({}) = 0 /\ Cardinality(response) = 1
            BY <2>1, FS_EmptySet
      <4>2. ASSUME response = {} PROVE FALSE
        <5>1. Cardinality(response) = 0
              BY <4>1, <4>2, Zenon
        <5>   QED  BY <4>1, <5>1
      <4>   QED  BY <4>2
    <3>2. j \in response
          BY <3>1
    <3>3. j \in DOMAIN heap /\ heap[j].type = f.type
          BY <1>5, <3>2 DEF IsListOf
    <3>4. v \in heap[j].key
          BY <1>7, <3>2 DEF IsCalledBy
    <3>   HIDE DEF v
    <3>5. SUFFICES ASSUME NEW r, r = RelationOf(caller)
                   PROVE  HeapInv' /\ GrowingHeap /\ Made(caller.main, RelationOf(caller))'
          BY <2>1
    <3>6. IsAtValue(caller, r, v)
          BY <1>1, <1>7, <1>8, <3>5, AtValueIs DEF v
    <3>7. heap' = Establish(heap, caller.main, j)
          BY <1>3, <2>1
    <3>8. HeapInv' /\ GrowingHeap /\ Made(caller.main, r)'
          BY <1>1, <1>3, <1>8, <3>3, <3>4, <3>5, <3>6, <3>7, Establishing
    <3>9. RelationOf(caller)' = r
      <4>1. Relations(caller.type)' = Relations(caller.type)
            BY <1>3, SettingsSame
      <4>   QED  BY <3>5, <4>1 DEF RelationOf
    <3>   QED  BY <3>8, <3>9 DEF Made
  <2>2. CASE ~one
    <3>1. heap' = heap
          BY <1>3, <2>2
    <3>   QED  BY <1>1, <1>3, <2>2, <3>1, HeapSame
  <2>   QED  BY <2>1, <2>2
<1>10. DataGood(data)'
       BY <1>3, <1>6, <1>9, DataBecomes
<1>11. FrameOK(caller)'
       BY <1>7, <1>9, FrameKept DEF GrowingHeap
<1>12. IsNextValue(g, caller) /\ (g.found => caller.found \/ one)
  <2>1. g.found = (caller.found \/ one)
        BY <1>7 DEF Frame
  <2>2. g = [caller EXCEPT !.val = @ + 1, !.found = caller.found \/ one]
        OBVIOUS
  <2>3. (caller.found \/ one) \in BOOLEAN
        OBVIOUS
  <2>   QED  BY <2>1, <2>2, <2>3 DEF IsNextValue
<1>13. /\ g \in Frame /\ FrameOK(g)'
       /\ g.type = caller.type /\ g.list = caller.list /\ g.unread = caller.unread
       BY <1>3, <1>7, <1>8, <1>9, <1>11, <1>12, ValueDone
<1>14. ASSUME NEW next, Len(stack) > 2, next = stack[3] PROVE IsCalledBy(g, next)'
  <2>1. 3 \in 2..Len(stack) /\ 3 \in 1..Len(stack) /\ 3 - 1 = 2
        BY <1>2, <1>14
  <2>2. next \in Frame /\ FrameOK(next) /\ IsCalledBy(caller, next)
        BY <1>1, <1>14, <2>1, FramesAre
  <2>3. IsCalledBy(caller, next)'
        BY <1>7, <1>9, <2>2, CallKept DEF GrowingHeap
  <2>   QED  BY <1>13, <2>3 DEF IsCalledBy
<1>15. StackOK'
       BY <1>1, <1>2, <1>3, <1>9, <1>13, <1>14, Popped
<1>    QED  BY <1>4, <1>9, <1>10, <1>15, InvLater

-----------------------------------------------------------------------------
\* Generated objects.

\* A master, a value and a remote object, of which there are only so many.
LEMMA CombinationsAre ==
    ASSUME Basics, HeapInv, NEW objects, DataGood(objects)
    PROVE  /\ IsFiniteSet(Combinations(objects))
           /\ \A c \in Combinations(objects) :
                 /\ c[2] \in Value /\ c[1] \in DOMAIN heap /\ c[3] \in DOMAIN heap
                 /\ heap[c[1]].type = config.master /\ heap[c[3]].type = config.remote
<1>   DEFINE l == Len(heap)
             A == 1..l
             master == config.master
             remote == config.remote
             values == [i \in A |-> Range(heap[i].refs[remote])]
             V == UNION {values[i] : i \in A}
             P == (A \X V) \X A
             S == Combinations(objects)
             g == [p \in P |-> <<p[1][1], p[1][2], p[2]>>]
<1>1. l \in Nat /\ DOMAIN heap = A /\ \A i \in A : \A t \in Type : heap[i].refs[t] \in Seq(Value)
      BY ObjectsAre DEF HeapInv
<1>2. master \in Type /\ remote \in Type
      BY ConfigIs DEF Basics, Sourced
<1>3. /\ objects[master] \subseteq A /\ objects[remote] \subseteq A
      /\ \A i \in objects[master] : heap[i].type = master
      /\ \A i \in objects[remote] : heap[i].type = remote
      BY <1>1, <1>2 DEF DataGood, IsListOf
<1>4. S = {c \in objects[master] \X Value \X objects[remote] :
              /\ \E k \in DOMAIN heap[c[1]].refs[remote] : heap[c[1]].refs[remote][k] = c[2]
              /\ c[2] \in heap[c[3]].key}
      BY DEF Combinations
<1>5. IsFiniteSet(A)
      BY <1>1, FS_Interval
<1>6. ASSUME NEW i \in A PROVE IsFiniteSet(values[i])
  <2>   DEFINE s == heap[i].refs[remote]
  <2>1. DOMAIN s = 1..Len(s) /\ Len(s) \in Nat
        BY <1>1, <1>2, LenProperties
  <2>   HIDE DEF s
  <2>2. IsFiniteSet(DOMAIN s)
        BY <2>1, FS_Interval
  <2>3. IsFiniteSet({s[k] : k \in DOMAIN s})
        BY <2>2, FiniteImage
  <2>   QED  BY <2>3 DEF Range, s
<1>   HIDE DEF A, values, S
<1>7. IsFiniteSet(V)
  <2>1. IsFiniteSet({values[i] : i \in A})
        BY <1>5, FiniteImage
  <2>2. \A T \in {values[i] : i \in A} : IsFiniteSet(T)
        BY <1>6
  <2>   QED  BY <2>1, <2>2, FS_UNION
<1>8. ASSUME NEW c \in S
      PROVE  c[1] \in A /\ c[2] \in V /\ c[3] \in A /\ c = <<c[1], c[2], c[3]>>
  <2>1. /\ c[1] \in objects[master] /\ c[3] \in objects[remote] /\ c = <<c[1], c[2], c[3]>>
        /\ \E k \in DOMAIN heap[c[1]].refs[remote] : heap[c[1]].refs[remote][k] = c[2]
        BY <1>4, <1>8
  <2>2. c[2] \in values[c[1]]
        BY <1>3, <2>1 DEF values, Range
  <2>   QED  BY <1>3, <2>1, <2>2
<1>   HIDE DEF V
<1>9. IsFiniteSet(P)
  <2>1. IsFiniteSet(A \X V)
        BY <1>5, <1>7, FS_Product
  <2>   HIDE DEF P
  <2>2. IsFiniteSet((A \X V) \X A)
    <3>   DEFINE Q == A \X V
    <3>   HIDE DEF Q
    <3>1. IsFiniteSet(Q \X A)
          BY <1>5, <2>1, FS_Product DEF Q
    <3>   QED  BY <3>1 DEF Q
  <2>   QED  BY <2>2 DEF P
<1>10. S \subseteq {g[p] : p \in P}
  <2>1. SUFFICES ASSUME NEW c \in S PROVE c \in {g[p] : p \in P}
        OBVIOUS
  <2>2. <<<<c[1], c[2]>>, c[3]>> \in P /\ g[<<<<c[1], c[2]>>, c[3]>>] = <<c[1], c[2], c[3]>>
        BY <1>8
  <2>   HIDE DEF g, P
  <2>   QED  BY <1>8, <2>2
<1>11. IsFiniteSet(S)
  <2>   HIDE DEF g, P
  <2>1. IsFiniteSet({g[p] : p \in P})
        BY <1>9, FiniteImage
  <2>   QED  BY <1>10, <2>1, FS_Subset
<1>12. \A c \in S : c[1] \in objects[master] /\ c[2] \in Value /\ c[3] \in objects[remote]
       BY <1>4
<1>    QED  BY <1>1, <1>3, <1>11, <1>12 DEF S, A

LEMMA EmploymentIs ==
    ASSUME LoadInv, InOrder, config.kind[CurrentType] = "generated", NEW c, c[2] \in Value,
           c[1] \in DOMAIN heap, c[3] \in DOMAIN heap,
           heap[c[1]].type = config.master, heap[c[3]].type = config.remote
    PROVE  /\ Employment(c) \in Instance /\ IsFromSource(Employment(c))
           /\ Employment(c).links = {} /\ Employment(c).type = CurrentType
<1>1. Basics /\ HeapInv
      BY InvParts
<1>2. CurrentType \in Type
      BY TypeInOrder
<1>3. ASSUME NEW i \in DOMAIN heap, heap[i].type \in Sourced PROVE heap[i].id \in Id
  <2>1. PICK e \in Entries(heap[i].type) : heap[i].id = e.id
        BY <1>1, <1>3 DEF HeapInv, IsFromSource
  <2>2. heap[i].type \in Type
        BY <1>3 DEF Sourced
  <2>3. source[heap[i].type] \in Seq(Entry)
        BY <1>1, <2>2, ConfigIs DEF Basics
  <2>4. e \in Entry
    <3>1. PICK k \in DOMAIN source[heap[i].type] : e = source[heap[i].type][k]
          BY <2>1 DEF Entries
    <3>2. DOMAIN source[heap[i].type] = 1..Len(source[heap[i].type])
          BY <2>3, LenProperties
    <3>   QED  BY <2>3, <3>1, <3>2, ElementOfSeq
  <2>   QED  BY <2>1, <2>4 DEF Entry
<1>4. heap[c[1]].id \in Id /\ heap[c[3]].id \in Id
      BY <1>1, <1>3, ConfigIs DEF Basics
<1>   DEFINE refs == [t \in Type |-> IF t = config.remote THEN <<c[2]>> ELSE <<>>]
             id == <<heap[c[3]].id, heap[c[1]].id>>
<1>5. refs \in [Type -> Seq(Value)]
  <2>1. <<c[2]>> \in Seq(Value) /\ <<>> \in Seq(Value)
        OBVIOUS
  <2>   QED  BY <2>1
<1>6. id \in Uid
      BY <1>4 DEF Uid
<1>7. Employment(c) = [type |-> CurrentType, id |-> id, key |-> {}, links |-> {}, refs |-> refs]
      BY DEF Employment
<1>   HIDE DEF refs, id
<1>8. Employment(c) \in Instance
      BY <1>2, <1>5, <1>6, <1>7 DEF Instance
<1>9. Employment(c).links = {} /\ Employment(c).type = CurrentType
      BY <1>7
<1>10. IsFromSource(Employment(c))
       BY <1>9 DEF IsFromSource, Sourced
<1>    QED  BY <1>8, <1>9, <1>10

LEMMA EmploymentsAre ==
    ASSUME LoadInv, InOrder, config.kind[CurrentType] = "generated", NEW objects, DataGood(objects)
    PROVE  /\ Employments(objects) \in Seq(Instance)
           /\ \A k \in 1..Len(Employments(objects)) :
                 /\ Employments(objects)[k].links = {} /\ Employments(objects)[k].type = CurrentType
                 /\ IsFromSource(Employments(objects)[k])
<1>   DEFINE S == Combinations(objects)
             n == Cardinality(S)
             seq == SetToSeq(S)
<1>1. /\ IsFiniteSet(S)
      /\ \A c \in S : /\ c[2] \in Value /\ c[1] \in DOMAIN heap /\ c[3] \in DOMAIN heap
                      /\ heap[c[1]].type = config.master /\ heap[c[3]].type = config.remote
      BY InvParts, CombinationsAre
<1>   HIDE DEF S
<1>2. n \in Nat /\ seq \in [1..n -> S]
  <2>1. n \in Nat /\ ExistsBijection(1..n, S)
        BY <1>1, FS_CardinalityType
  <2>2. \E f \in [1..n -> S] : IsInjective(f)
        BY <2>1 DEF ExistsBijection, Bijection, Injection
  <2>   QED  BY <2>1, <2>2 DEF SetToSeq
<1>   HIDE DEF n, seq
<1>3. Employments(objects) = [k \in 1..n |-> Employment(seq[k])]
      BY <1>2 DEF Employments, seq, S
<1>4. ASSUME NEW k \in 1..n
      PROVE  /\ Employment(seq[k]) \in Instance /\ IsFromSource(Employment(seq[k]))
             /\ Employment(seq[k]).links = {} /\ Employment(seq[k]).type = CurrentType
  <2>1. seq[k] \in S
        BY <1>2
  <2>   QED  BY <1>1, <2>1, EmploymentIs
<1>5. Employments(objects) \in [1..n -> Instance]
      BY <1>3, <1>4
<1>6. Employments(objects) \in Seq(Instance) /\ Len(Employments(objects)) = n
      BY <1>2, <1>5
<1>   QED  BY <1>3, <1>4, <1>6

LEMMA GenerateEmploymentsStep ==
    ASSUME LoadInv, GenerateEmployments
    PROVE  LoadInv'
<1>   SUFFICES ASSUME NEW t, t = CurrentType, NEW objects, objects = BeforeGenerating,
                      NEW new, new = Employments(objects), NEW kept, kept = LastOfEachId(new),
                      NEW f, f = Relating([NewFrame(t, <<>>) EXCEPT
                                               !.list = {Len(heap) + k : k \in kept}])
               PROVE  LoadInv'
      OBVIOUS
<1>1. Basics /\ HeapInv /\ StackOK /\ DataGood(data)
      BY InvParts
<1>2. InOrder /\ config.kind[t] = "generated" /\ data' = objects /\ SettingsStay
      BY DEF GenerateEmployments, settingVars, SettingsStay
<1>3. heap' = heap \o new /\ stack' = <<f>>
      BY <1>2 DEF GenerateEmployments
<1>4. Basics'
  <2>1. filtered' \in BOOLEAN
        BY DEF GenerateEmployments
  <2>   QED  BY <1>1, <2>1 DEF GenerateEmployments, settingVars, Basics
<1>5. t \in Type
      BY <1>2, TypeInOrder
<1>6. DataGood(objects)
      BY <1>1, WithoutOrphansIs DEF BeforeGenerating
<1>7. /\ new \in Seq(Instance)
      /\ \A k \in 1..Len(new) : new[k].links = {} /\ new[k].type = t /\ IsFromSource(new[k])
      BY <1>2, <1>6, EmploymentsAre
<1>8. /\ kept \in SUBSET (1..Len(new))
      /\ \A j, k \in kept : new[j].id = new[k].id => j = k
      BY <1>7, LastOfEach
<1>9. HeapInv' /\ GrowingHeap /\ f \in Frame /\ FrameOK(f)'
  <2>1. IsReadAsWhole(f, t, kept)
        BY DEF IsReadAsWhole
  <2>2. IsNewList(new, t, kept)
        BY <1>7, <1>8, Zenon DEF IsNewList
  <2>   QED  BY <1>1, <1>2, <1>3, <1>5, <2>1, <2>2, ListRead, Zenon
<1>10. StackOK'
       BY <1>2, <1>3, <1>9, ListBegun
<1>11. DataGood(data)'
       BY <1>2, <1>6, <1>9, DataBecomes
<1>    QED  BY <1>4, <1>9, <1>10, <1>11, InvLater

-----------------------------------------------------------------------------
\* The invariant holds.

LEMMA LoadInitially ==
    ASSUME LoadInit
    PROVE  LoadInv
<1>1. Basics
  <2>1. MaxFaults \in Nat
        BY LoadAssumption
  <2>2. 0 \in 0..MaxFaults /\ 1 \in Nat \ {0}
        BY <2>1
  <2>   QED  BY <2>2 DEF LoadInit, Basics
<1>2. heap = <<>> /\ stack = <<>> /\ data = [t \in Type |-> {}]
      BY DEF LoadInit
<1>3. DOMAIN heap = {} /\ heap \in Seq(Instance) /\ DOMAIN stack = {} /\ stack \in Seq(Frame)
      BY <1>2
<1>4. HeapInv /\ StackOK
      BY <1>3 DEF HeapInv, StackOK
<1>5. DataGood(data)
      BY <1>2 DEF DataGood, IsListOf
<1>   QED  BY <1>1, <1>4, <1>5, InvParts

LEMMA OneMoreFault ==
    ASSUME LoadInv, faults < MaxFaults, faults' = faults + 1
    PROVE  faults' \in 0..MaxFaults
<1>1. faults \in 0..MaxFaults /\ MaxFaults \in Nat
      BY InvParts, LoadAssumption DEF Basics
<1>   QED  BY <1>1

LEMMA SameFaults ==
    ASSUME LoadInv, UNCHANGED faults
    PROVE  faults' \in 0..MaxFaults
BY InvParts DEF Basics

LEMMA LoadPreserved ==
    ASSUME LoadInv, [LoadNext]_vars
    PROVE  LoadInv'
<1>1. CASE LoadTable
      BY <1>1, LoadTableStep
<1>2. CASE TableHasDuplicates
      BY <1>2, SameFaults, FailureStep DEF TableHasDuplicates
<1>3. CASE TableFails
      BY <1>3, OneMoreFault, FailureStep DEF TableFails
<1>4. CASE LoadLdap
      BY <1>4, LoadLdapStep
<1>5. CASE NothingToLoad
      BY <1>5, NothingToLoadStep
<1>6. CASE GenerateEmployments
      BY <1>6, GenerateEmploymentsStep
<1>7. CASE EmploymentsCollide
      BY <1>7, SameFaults, FailureStep DEF EmploymentsCollide
<1>8. CASE ReadEntry
      BY <1>8, ReadEntryStep
<1>9. CASE NextPageFails
      BY <1>9, TruncateStep DEF NextPageFails
<1>10. CASE EntryFails
       BY <1>10, TruncateStep DEF EntryFails
<1>11. CASE EndOfEntries
       BY <1>11, EndOfEntriesStep
<1>12. CASE PickMain
       BY <1>12, PickMainStep
<1>13. CASE RelateLoaded
       BY <1>13, RelateLoadedStep
<1>14. CASE NothingLoaded
       BY <1>14, NothingLoadedStep
<1>15. CASE StartSearch
       BY <1>15, StartSearchStep
<1>16. CASE SearchFails
       BY <1>16, OneMoreFault, FailureStep DEF SearchFails
<1>17. CASE NextRelation
       BY <1>17, NextRelationStep
<1>18. CASE ReturnResponse
       BY <1>18, ReturnResponseStep
<1>19. CASE ReturnList
       BY <1>19, ReturnListStep
<1>20. CASE LoadSucceeds
       BY <1>20, LoadSucceedsStep
<1>21. CASE DuplicatesFound
       BY <1>21, SameFaults, FailureStep DEF DuplicatesFound
<1>22. CASE UNCHANGED vars
  <2>1. Basics
        BY InvParts
  <2>2. Basics' /\ SettingsStay /\ heap' = heap /\ data' = data /\ stack' = stack
        BY <1>22, <2>1 DEF vars, settingVars, Basics, SettingsStay
  <2>   QED  BY <2>2, Quiet
<1>    QED  BY <1>1, <1>2, <1>3, <1>4, <1>5, <1>6, <1>7, <1>8, <1>9, <1>10, <1>11, <1>12, <1>13,
               <1>14, <1>15, <1>16, <1>17, <1>18, <1>19, <1>20, <1>21, <1>22
            DEF LoadNext, LoadStep, Ended

LEMMA LoadAlways == LoadSpec => []LoadInv
BY LoadInitially, LoadPreserved, PTL DEF LoadSpec

\* At every moment of a load, whatever fails and however deep the searches are
\* nested: the data server and every list that is being loaded hold objects that
\* there are, each list of one type, none with two objects of the same id
\* (model/object_list.cpp), and what is to be related or removed is in the list.
THEOREM LoadTypeCorrect == LoadSpec => []LoadTypeOK
<1>1. LoadInv => LoadTypeOK
      BY DEF LoadInv
<1>   QED  BY <1>1, LoadAlways, PTL

\* At no time are two loaded objects related that the settings do not relate,
\* although a relation names the other object by its id only, and the object may
\* have been loaded again since (load_common.cpp:64).
THEOREM LinkedOnlyAsConfigured == LoadSpec => []LinkedAreRelated
<1>1. ASSUME LoadInv PROVE LinkedAreRelated
  <2>   SUFFICES ASSUME SourceIsSound, NEW s \in Sourced, NEW t \in Sourced,
                        NEW i \in data[s], NEW j \in data[t], Linked(i, j)
                 PROVE  Related(s, heap[i], t, heap[j])
        BY DEF LinkedAreRelated
  <2>1. Basics /\ HeapInv /\ DataGood(data) /\ s \in Type /\ t \in Type
        BY <1>1, InvParts DEF Sourced
  <2>2. i \in DOMAIN heap /\ heap[i].type = s /\ j \in DOMAIN heap /\ heap[j].type = t
        BY <2>1 DEF DataGood, IsListOf
  <2>3. PICK k \in DOMAIN heap :
            /\ <<heap[j].type, heap[j].id>> = <<heap[k].type, heap[k].id>>
            /\ Related(heap[i].type, heap[i], heap[k].type, heap[k])
        BY <2>1, <2>2 DEF HeapInv, LinksAreMeant, Linked
  <2>4. heap[k].type = t /\ heap[k].id = heap[j].id
        BY <2>2, <2>3
  <2>5. PICK d \in Entries(t) : heap[j].id = d.id /\ heap[j].key = d.key /\ heap[j].refs = d.refs
        BY <2>1, <2>2 DEF HeapInv, IsFromSource
  <2>6. PICK e \in Entries(t) : heap[k].id = e.id /\ heap[k].key = e.key /\ heap[k].refs = e.refs
        BY <2>1, <2>4 DEF HeapInv, IsFromSource
  <2>7. d = e
    <3>1. PICK m \in DOMAIN source[t] : d = source[t][m]
          BY DEF Entries
    <3>2. PICK n \in DOMAIN source[t] : e = source[t][n]
          BY DEF Entries
    <3>3. source[t][m].id = source[t][n].id
          BY <2>4, <2>5, <2>6, <3>1, <3>2
    <3>4. m = n
          BY <2>1, <3>3 DEF SourceIsSound
    <3>   QED  BY <3>1, <3>2, <3>4
  <2>8. heap[j].key = heap[k].key /\ heap[j].refs = heap[k].refs
        BY <2>5, <2>6, <2>7
  <2>   QED  BY <2>2, <2>3, <2>4, <2>8, RelatedSame
<1>   QED  BY <1>1, LoadAlways, PTL

\* At no time does the data server hold an object that was not related to one
\* that it refers to by each relation that its type requires
\* (load_common.cpp:203), whatever failed and whatever was cut short.
THEOREM RequiredAlwaysLinked == LoadSpec => []RequiredAreLinked
<1>1. ASSUME LoadInv PROVE RequiredAreLinked
  <2>   SUFFICES ASSUME NEW s \in Type, NEW t \in Type, NEW i \in data[s],
                        NEW r \in RelationsTo(s, t), r.require
                 PROVE  \E j \in DOMAIN heap :
                            heap[j].type = t /\ Linked(i, j) /\ Refers(heap[i], t, heap[j])
        BY DEF RequiredAreLinked
  <2>1. Basics /\ DataGood(data)
        BY <1>1, InvParts
  <2>2. PICK k \in 1..Len(Relations(s)) : Relations(s)[k] = r
        BY <2>1, RelationsAre DEF Basics
  <2>3. k \in 1..(Len(Relations(s)) + 1) - 1
    <3>1. Relations(s) \in Seq(Relation)
          BY <2>1, RelationsAre DEF Basics
    <3>2. Len(Relations(s)) \in Nat
          BY <3>1, LenProperties
    <3>   QED  BY <3>2
  <2>4. MadeBefore(i, s, Len(Relations(s)) + 1)
        BY <2>1 DEF DataGood
  <2>5. Made(i, r)
        BY <2>2, <2>3, <2>4 DEF MadeBefore
  <2>6. r.type = t
        BY DEF RelationsTo
  <2>   QED  BY <2>5, <2>6 DEF Made
<1>   QED  BY <1>1, LoadAlways, PTL
=============================================================================
