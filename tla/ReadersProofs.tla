---------------------------- MODULE ReadersProofs ----------------------------
(***************************************************************************)
(* For every endpoint and every page size, a query that nobody disturbs    *)
(* finds all there is; for every list of objects and every place where its *)
(* file is cut off, a cache file is read as a whole or not at all; for all *)
(* settings, LDAP is asked for every attribute that they need; for all     *)
(* limiters and lists, a type is limited as its own limiter and the        *)
(* blacklist mean; for all users and specifications, generated groups have *)
(* the members that the values of the users give them; for all templates   *)
(* and objects, what is rendered is what the template means.               *)
(***************************************************************************)
EXTENDS ScimQuery, CacheFormat, AttributeLists, GeneratedGroups, Templates, FoldLemmas

-----------------------------------------------------------------------------
\* Queries.

\* A page that starts where the query asks on, from 1..Len(listed), is the rest
\* of the list from there to some end.
LEMMA PageIs ==
    ASSUME NEW answer \in Answers, listed \in Seq(Object),
           start_index \in 1..Len(listed)
    PROVE  /\ answer.totalResults = Len(listed)
           /\ \E end \in start_index..Len(listed) :
                 answer.Resources = SubSeq(listed, start_index, end)
<1>1. PICK size \in PageSizes :
          answer = [totalResults |-> Len(listed),
                    Resources |-> SubSeq(listed, start_index,
                        IF start_index + size - 1 < Len(listed) THEN start_index + size - 1
                        ELSE Len(listed))]
      BY DEF Answers
<1>2. size \in Nat /\ size >= 1 /\ Len(listed) \in Nat
      BY QueryAssumption
<1>   DEFINE end == IF start_index + size - 1 < Len(listed) THEN start_index + size - 1
                    ELSE Len(listed)
<1>3. end \in start_index..Len(listed)
      BY <1>2
<1>4. answer.Resources = SubSeq(listed, start_index, end)
      BY <1>1
<1>   HIDE DEF end
<1>   QED  BY <1>1, <1>3, <1>4

\* An object that is put into the list moves each one that was there to the same
\* place or to the next.
LEMMA InsertMovesDown ==
    ASSUME listed \in Seq(Object), NEW o \in Object, NEW n \in 1..Len(listed) + 1
    PROVE  /\ InsertAt(listed, n, o) \in Seq(Object)
           /\ Len(InsertAt(listed, n, o)) = Len(listed) + 1
           /\ \A k \in 1..Len(listed) + 1 :
                 InsertAt(listed, n, o)[k] =
                     IF k < n THEN listed[k] ELSE IF k = n THEN o ELSE listed[k - 1]
<1>   DEFINE before == SubSeq(listed, 1, n - 1)
             after == SubSeq(listed, n, Len(listed))
<1>1. n \in Nat /\ n >= 1 /\ n <= Len(listed) + 1 /\ Len(listed) \in Nat
      OBVIOUS
<1>2. /\ before \in Seq(Object)
      /\ Len(before) = n - 1
      /\ \A k \in 1..n - 1 : before[k] = listed[k]
      BY <1>1
<1>3. /\ after \in Seq(Object)
      /\ Len(after) = Len(listed) - n + 1
      /\ \A k \in 1..Len(listed) - n + 1 : after[k] = listed[n + k - 1]
      BY <1>1
<1>4. InsertAt(listed, n, o) = before \o <<o>> \o after
      BY DEF InsertAt
<1>   HIDE DEF before, after
<1>5. /\ before \o <<o>> \in Seq(Object)
      /\ Len(before \o <<o>>) = n
      /\ \A k \in 1..n : (before \o <<o>>)[k] = IF k < n THEN before[k] ELSE o
      BY <1>1, <1>2
<1>   DEFINE first == before \o <<o>>
<1>   HIDE DEF first
<1>6. first \in Seq(Object) /\ Len(first) = n /\ InsertAt(listed, n, o) = first \o after
      BY <1>4, <1>5 DEF first
<1>7. /\ first \o after \in Seq(Object)
      /\ Len(first \o after) = Len(listed) + 1
      BY <1>1, <1>3, <1>6
<1>8. ASSUME NEW k \in 1..Len(listed) + 1
      PROVE  (first \o after)[k] = IF k < n THEN listed[k] ELSE IF k = n THEN o ELSE listed[k - 1]
  <2>1. (first \o after)[k] = IF k <= n THEN first[k] ELSE after[k - n]
        BY <1>1, <1>3, <1>6
  <2>2. k <= n => first[k] = IF k < n THEN listed[k] ELSE o
        BY <1>1, <1>2, <1>5 DEF first
  <2>3. k > n => after[k - n] = listed[k - 1]
    <3>1. k > n => k - n \in 1..Len(listed) - n + 1 /\ n + (k - n) - 1 = k - 1
          BY <1>1
    <3>   QED  BY <1>3, <3>1
  <2>   QED  BY <1>1, <2>1, <2>2, <2>3
<1>   QED  BY <1>6, <1>7, <1>8

LEMMA QueryInitially == QueryInit => QueryInv
<1>   SUFFICES ASSUME QueryInit PROVE QueryInv
      OBVIOUS
<1>1. listed \in Seq(Object)
      BY QueryAssumption DEF QueryInit, SeqOf
<1>   QED  BY <1>1 DEF QueryInit, QueryInv, StillAhead, QueryFindsAll, Asking, Range

\* Others that create objects do not bring what is still to be found behind the query.
LEMMA CreationKeepsQuery == QueryInv /\ OthersCreate => QueryInv'
<1>   SUFFICES ASSUME QueryInv, OthersCreate, ~deleted PROVE StillAhead'
      BY DEF QueryInv, QueryFindsAll, OthersCreate, Asking
<1>1. StillAhead
      BY DEF QueryInv, OthersCreate
<1>2. PICK o \in Object \ Range(listed), n \in 1..Len(listed) + 1 :
          listed' = InsertAt(listed, n, o)
      BY DEF OthersCreate
<1>3. UNCHANGED <<resources, start_index, present>>
      BY DEF OthersCreate
<1>4. listed \in Seq(Object)
      BY <1>1 DEF StillAhead
<1>5. /\ listed' \in Seq(Object)
      /\ Len(listed') = Len(listed) + 1
      /\ \A k \in 1..Len(listed) + 1 :
            listed'[k] = IF k < n THEN listed[k] ELSE IF k = n THEN o ELSE listed[k - 1]
      BY <1>2, <1>4, InsertMovesDown
<1>6. o \notin present
      BY <1>1, <1>2 DEF StillAhead
<1>7. present' \subseteq Range(listed')
  <2>1. SUFFICES ASSUME NEW k \in 1..Len(listed)
                 PROVE  listed[k] \in Range(listed')
    <3>1. present' \subseteq Range(listed) /\ DOMAIN listed = 1..Len(listed)
          BY <1>1, <1>3, <1>4 DEF StillAhead
    <3>   QED  BY <3>1 DEF Range
  <2>2. CASE k < n
    <3>1. k \in DOMAIN listed' /\ listed'[k] = listed[k]
          BY <2>2, <1>4, <1>5
    <3>   QED  BY <3>1 DEF Range
  <2>3. CASE k >= n
    <3>1. k + 1 \in 1..Len(listed) + 1 /\ ~(k + 1 < n) /\ k + 1 # n /\ (k + 1) - 1 = k
          BY <2>3, <1>4
    <3>2. k + 1 \in DOMAIN listed' /\ listed'[k + 1] = listed[k]
          BY <3>1, <1>4, <1>5
    <3>   QED  BY <3>2 DEF Range
  <2>4. n \in Nat
        BY <1>2, <1>4
  <2>   QED  BY <2>2, <2>3, <2>4
<1>8. ASSUME NEW k \in DOMAIN listed', k < start_index', listed'[k] \in present'
      PROVE  listed'[k] \in Range(resources')
  <2>1. k \in 1..Len(listed) + 1
        BY <1>5
  <2>2. start_index \in Nat
        BY <1>1 DEF StillAhead
  <2>3. k # n
        BY <2>1, <1>3, <1>5, <1>6, <1>8
  <2>4. PICK m \in 1..Len(listed) : m <= k /\ listed'[k] = listed[m]
    <3>1. CASE k < n
      <4>1. k \in 1..Len(listed) /\ listed'[k] = listed[k] /\ k <= k
            BY <3>1, <2>1, <1>2, <1>4, <1>5
      <4>   QED  BY <4>1
    <3>2. CASE k > n
      <4>1. k - 1 \in 1..Len(listed) /\ listed'[k] = listed[k - 1] /\ k - 1 <= k
            BY <3>2, <2>1, <1>2, <1>4, <1>5
      <4>   QED  BY <4>1
    <3>   QED  BY <3>1, <3>2, <2>1, <2>3, <1>2, <1>4
  <2>   QED  BY <2>1, <2>2, <2>4, <1>1, <1>3, <1>4, <1>8 DEF StillAhead
<1>   QED  BY <1>1, <1>3, <1>4, <1>5, <1>7, <1>8 DEF StillAhead

\* A page is added to what was found, and the query asks on behind it or ends.
LEMMA PageKeepsQuery == QueryInv /\ GetPage => QueryInv'
<1>   SUFFICES ASSUME QueryInv, GetPage, ~deleted
               PROVE  /\ query' = "asking" => StillAhead'
                      /\ query' = "done" => present \subseteq Range(resources')
      BY DEF QueryInv, QueryFindsAll, GetPage, Asking
<1>1. StillAhead
      BY DEF QueryInv, GetPage
<1>2. PICK answer \in Answers :
          /\ answer.totalResults # 0
          /\ resources' = resources \o answer.Resources
          /\ IF Len(resources \o answer.Resources) >= answer.totalResults
             THEN query' = "done" /\ UNCHANGED start_index
             ELSE start_index' = start_index + Len(answer.Resources) /\ UNCHANGED query
      BY DEF GetPage, Enough, NextPage
<1>3. UNCHANGED <<listed, present>>
      BY DEF GetPage
<1>4. /\ listed \in Seq(Object) /\ Len(listed) \in Nat
      /\ resources \in Seq(Object) /\ Len(resources) \in Nat
      /\ start_index = Len(resources) + 1
      BY <1>1 DEF StillAhead
<1>5. answer.totalResults = Len(listed)
      BY <1>2 DEF Answers
<1>6. start_index \in 1..Len(listed)
      BY <1>1, <1>2, <1>4, <1>5 DEF StillAhead
<1>7. PICK end \in start_index..Len(listed) : answer.Resources = SubSeq(listed, start_index, end)
      BY <1>4, <1>6, PageIs
<1>   DEFINE page == SubSeq(listed, start_index, end)
<1>8. /\ page \in Seq(Object)
      /\ Len(page) = end - start_index + 1
      /\ \A k \in 1..Len(page) : page[k] = listed[start_index + k - 1]
      BY <1>4, <1>6
<1>9. resources' = resources \o page
      BY <1>2, <1>7
<1>   HIDE DEF page
<1>10. /\ resources' \in Seq(Object)
       /\ Len(resources') = end
       /\ \A k \in 1..Len(resources) : resources'[k] = resources[k]
       /\ \A k \in 1..Len(page) : resources'[Len(resources) + k] = page[k]
      BY <1>4, <1>6, <1>7, <1>8, <1>9
<1>11. ASSUME NEW n \in 1..end, listed[n] \in present
       PROVE  listed[n] \in Range(resources')
  <2>1. CASE n < start_index
    <3>1. listed[n] \in Range(resources)
          BY <2>1, <1>1, <1>4, <1>6, <1>7, <1>11 DEF StillAhead
    <3>2. PICK k \in DOMAIN resources : resources[k] = listed[n]
          BY <3>1 DEF Range
    <3>3. k \in 1..Len(resources)
          BY <1>4
    <3>4. k \in 1..end
          BY <3>3, <1>4, <1>6, <1>7
    <3>5. k \in DOMAIN resources' /\ resources'[k] = listed[n]
          BY <3>2, <3>3, <3>4, <1>10
    <3>   QED  BY <3>5 DEF Range
  <2>2. CASE n >= start_index
    <3>   DEFINE k == n - start_index + 1
    <3>1. k \in 1..Len(page) /\ start_index + k - 1 = n /\ Len(resources) + k = n
          BY <2>2, <1>4, <1>6, <1>7, <1>8
    <3>2. resources'[n] = listed[n]
          BY <3>1, <1>8, <1>10
    <3>3. n \in DOMAIN resources'
          BY <1>6, <1>7, <1>10
    <3>   QED  BY <3>2, <3>3 DEF Range
  <2>   QED  BY <2>1, <2>2, <1>6, <1>7
<1>12. CASE end >= Len(listed)
  <2>1. end = Len(listed)
        BY <1>12, <1>6, <1>7
  <2>2. query' = "done"
        BY <2>1, <1>2, <1>4, <1>5, <1>9, <1>10
  <2>3. present \subseteq Range(resources')
    <3>1. present \subseteq Range(listed) /\ DOMAIN listed = 1..end
          BY <2>1, <1>1, <1>4 DEF StillAhead
    <3>   QED  BY <3>1, <1>11 DEF Range
  <2>   QED  BY <2>2, <2>3
<1>13. CASE end < Len(listed)
  <2>1. start_index' = end + 1 /\ query' = query
        BY <1>13, <1>2, <1>4, <1>5, <1>6, <1>7, <1>8, <1>9, <1>10 DEF page
  <2>2. query = "asking"
        BY DEF GetPage, Asking
  <2>   QED  BY <2>1, <2>2, <1>1, <1>3, <1>4, <1>6, <1>7, <1>10, <1>11, <1>13 DEF StillAhead
<1>   QED  BY <1>12, <1>13, <1>4, <1>6, <1>7

LEMMA QueryPreserved == QueryInv /\ [QueryNext]_queryVars => QueryInv'
<1>   SUFFICES ASSUME QueryInv, [QueryNext]_queryVars PROVE QueryInv'
      OBVIOUS
<1>1. CASE NothingThere
  <2>1. ~deleted => present = {}
        BY <1>1 DEF QueryInv, NothingThere, StillAhead, Range
  <2>   QED  BY <2>1, <1>1 DEF QueryInv, QueryFindsAll, NothingThere, Asking
<1>2. CASE GetPage
      BY <1>2, PageKeepsQuery
<1>3. CASE QueryThrows
      BY <1>3 DEF QueryInv, QueryFindsAll, QueryThrows, Asking
<1>4. CASE OthersCreate
      BY <1>4, CreationKeepsQuery
<1>5. CASE OthersDelete
      BY <1>5 DEF QueryInv, QueryFindsAll, OthersDelete, Asking
<1>6. CASE UNCHANGED queryVars
      BY <1>6 DEF QueryInv, QueryFindsAll, StillAhead, Asking, queryVars
<1>   QED  BY <1>1, <1>2, <1>3, <1>4, <1>5, <1>6 DEF QueryNext, QueryStep

\* However many objects the endpoint has, whatever the sizes of its pages and
\* however often others create objects in between, a query that ends has found
\* all that was there all the time (simplescim_query_impl).
THEOREM QueryComplete == QuerySpec => []QueryFindsAll
<1>1. QueryInv => QueryFindsAll
      BY DEF QueryInv
<1>   QED  BY <1>1, QueryInitially, QueryPreserved, PTL DEF QuerySpec

-----------------------------------------------------------------------------
\* The cache file.

\* What a reader gives: nothing, or a value and the place after it.
Gots(T) == {NothingRead} \cup [ok: {TRUE}, value: T, next: Place]

\* The text is in the file from n on, as far as the file goes.
Starts(n, text) ==
    \A k \in 1..Len(text) : n + k - 1 <= Len(file) => file[n + k - 1] = text[k]

ReadsAs(got, n, text, value) == got = NothingRead \/ got = Got(value, n + Len(text))

\* Where the text is, the reader gives the value or nothing.
Reads(reader, text, value) ==
    \A n \in Place : Starts(n, text) => ReadsAs(reader[n], n, text, value)

LEMMA GotIs ==
    /\ \A v, n : Got(v, n).ok /\ Got(v, n).value = v /\ Got(v, n).next = n
    /\ ~NothingRead.ok
BY DEF Got, NothingRead

LEMMA GotsAre ==
    ASSUME NEW T, NEW got \in Gots(T)
    PROVE  got = NothingRead \/ \E v \in T, n \in Place : got = Got(v, n)
BY DEF Gots, Got

LEMMA GotType ==
    ASSUME NEW T
    PROVE  /\ NothingRead \in Gots(T)
           /\ \A v \in T, n \in Place : Got(v, n) \in Gots(T)
BY DEF Gots, Got

LEMMA StartsSplit ==
    ASSUME NEW n \in Place, NEW a \in CacheText, NEW b \in CacheText, Starts(n, a \o b)
    PROVE  Starts(n, a) /\ Starts(n + Len(a), b) /\ n + Len(a) \in Place
<1>1. /\ Len(a) \in Nat /\ Len(b) \in Nat /\ Len(a \o b) = Len(a) + Len(b)
      /\ \A k \in 1..Len(a) : (a \o b)[k] = a[k]
      /\ \A k \in 1..Len(b) : (a \o b)[Len(a) + k] = b[k]
      BY DEF CacheText
<1>2. \A k \in 1..Len(a) : k \in 1..Len(a \o b)
      BY <1>1
<1>3. \A k \in 1..Len(b) : Len(a) + k \in 1..Len(a \o b) /\ n + Len(a) + k - 1 = n + (Len(a) + k) - 1
      BY <1>1 DEF Place
<1>4. Starts(n, a)
      BY <1>1, <1>2 DEF Starts
<1>5. Starts(n + Len(a), b)
  <2>   SUFFICES ASSUME NEW k \in 1..Len(b), n + Len(a) + k - 1 <= Len(file)
                 PROVE  file[n + Len(a) + k - 1] = b[k]
        BY DEF Starts
  <2>1. file[n + (Len(a) + k) - 1] = (a \o b)[Len(a) + k]
        BY <1>3 DEF Starts
  <2>   QED  BY <1>1, <1>3, <2>1
<1>   QED  BY <1>1, <1>4, <1>5 DEF Place

LEMMA StringIsText ==
    ASSUME NEW s \in CacheText
    PROVE  /\ WriteString(s) \in CacheText /\ Len(WriteString(s)) = Len(s) + 1 /\ Len(s) \in Nat
           /\ WriteString(s)[1] = Len(s)
           /\ \A k \in 1..Len(s) : WriteString(s)[k + 1] = s[k]
BY DEF WriteString, CacheText

LEMMA StringReads ==
    ASSUME file \in CacheText, NEW s \in CacheText
    PROVE  Reads(read_string, WriteString(s), s)
<1>   SUFFICES ASSUME NEW n \in Place, Starts(n, WriteString(s))
               PROVE  ReadsAs(read_string[n], n, WriteString(s), s)
      BY DEF Reads
<1>0. n \in Nat \ {0}
      BY DEF Place
<1>   DEFINE text == WriteString(s)
<1>1. /\ text \in CacheText /\ Len(text) = Len(s) + 1 /\ Len(s) \in Nat
      /\ text[1] = Len(s)
      /\ \A k \in 1..Len(s) : text[k + 1] = s[k]
      BY StringIsText, Zenon
<1>2. \A k \in 1..Len(text) : n + k - 1 <= Len(file) => file[n + k - 1] = text[k]
      BY Zenon DEF Starts
<1>   HIDE DEF text
<1>3. Len(file) \in Nat /\ \A k \in 1..Len(file) : file[k] \in Nat
      BY DEF CacheText
<1>4. CASE n > Len(file)
      BY <1>4 DEF read_string, ReadsAs
<1>5. CASE n <= Len(file)
  <2>1. file[n] = Len(s)
    <3>1. 1 \in 1..Len(text) /\ n + 1 - 1 = n
          BY <1>0, <1>1
    <3>2. file[n + 1 - 1] = text[1]
          BY <1>2, <1>5, <3>1
    <3>   QED  BY <1>1, <3>1, <3>2
  <2>2. CASE n + Len(s) > Len(file)
        BY <2>1, <2>2 DEF read_string, ReadsAs
  <2>3. CASE n + Len(s) <= Len(file)
    <3>1. \A k \in n + 1..n + Len(s) : file[k] \in Nat
      <4>1. \A k \in n + 1..n + Len(s) : k \in 1..Len(file)
            BY <1>0, <1>1, <1>3, <2>3
      <4>   QED  BY <1>3, <4>1
    <3>2. SubSeq(file, n + 1, n + Len(s)) \in CacheText /\ Len(SubSeq(file, n + 1, n + Len(s))) = Len(s)
          /\ \A k \in 1..Len(s) : SubSeq(file, n + 1, n + Len(s))[k] = file[n + k]
      <4>   DEFINE from == n + 1
                   to == n + Len(s)
                   part == SubSeq(file, from, to)
      <4>1. /\ from \in Nat \ {0} /\ to \in Nat /\ from <= to + 1 /\ to - from + 1 = Len(s)
            /\ \A k \in 1..Len(s) : from + k - 1 = n + k
            BY <1>0, <1>1
      <4>2. file \in Seq(Nat) /\ \A k \in from..to : file[k] \in Nat
            BY <3>1 DEF CacheText
      <4>   HIDE DEF from, to
      <4>3. /\ part \in Seq(Nat) /\ Len(part) = to - from + 1
            /\ \A k \in 1..to - from + 1 : part[k] = file[from + k - 1]
            BY <4>1, <4>2, SubSeqProperties
      <4>   HIDE DEF part
      <4>4. /\ part \in Seq(Nat) /\ Len(part) = Len(s)
            /\ \A k \in 1..Len(s) : part[k] = file[n + k]
            BY <4>1, <4>3
      <4>   QED  BY <4>4 DEF part, from, to, CacheText
    <3>3. \A k \in 1..Len(s) : file[n + k] = s[k]
      <4>   TAKE k \in 1..Len(s)
      <4>   DEFINE i == k + 1
      <4>1. i \in 1..Len(text) /\ n + i - 1 = n + k /\ n + k <= Len(file)
            BY <1>0, <1>1, <1>3, <2>3
      <4>2. text[i] = s[k]
            BY <1>1
      <4>   HIDE DEF i
      <4>   QED  BY <1>2, <4>1, <4>2
    <3>4. SubSeq(file, n + 1, n + Len(s)) = s
          BY <3>2, <3>3, SeqEqual DEF CacheText
    <3>5. read_string[n] = Got(s, n + Len(s) + 1)
      <4>1. ~(n > Len(file) \/ n + file[n] > Len(file))
            BY <1>0, <1>1, <1>3, <1>5, <2>1, <2>3
      <4>2. read_string[n] = Got(SubSeq(file, n + 1, n + file[n]), n + file[n] + 1)
            BY <4>1 DEF read_string
      <4>   QED  BY <2>1, <3>4, <4>2, Zenon
    <3>6. n + Len(text) = n + Len(s) + 1
          BY <1>0, <1>1
    <3>7. read_string[n] = Got(s, n + Len(text))
          BY <3>5, <3>6
    <3>   QED  BY <3>7, Zenon DEF ReadsAs, text
  <2>   QED  BY <1>0, <1>1, <1>3, <2>2, <2>3
<1>   QED  BY <1>0, <1>3, <1>4, <1>5

LEMMA ReadStringType ==
    ASSUME file \in CacheText
    PROVE  read_string \in [Place -> Gots(CacheText)]
<1>   SUFFICES ASSUME NEW n \in Place PROVE read_string[n] \in Gots(CacheText)
      BY DEF read_string
<1>0. n \in Nat \ {0}
      BY DEF Place
<1>1. Len(file) \in Nat /\ \A k \in 1..Len(file) : file[k] \in Nat
      BY DEF CacheText
<1>2. CASE n > Len(file) \/ n + file[n] > Len(file)
      BY <1>2 DEF read_string, Gots
<1>3. CASE ~(n > Len(file) \/ n + file[n] > Len(file))
  <2>1. n \in 1..Len(file) /\ file[n] \in Nat /\ n + file[n] <= Len(file)
        BY <1>0, <1>1, <1>3
  <2>2. \A k \in n + 1..n + file[n] : file[k] \in Nat
        BY <1>1, <2>1
  <2>3. SubSeq(file, n + 1, n + file[n]) \in CacheText
        BY <2>1, <2>2, SubSeqProperties DEF CacheText
  <2>4. read_string[n] = Got(SubSeq(file, n + 1, n + file[n]), n + file[n] + 1)
        BY <1>3 DEF read_string
  <2>5. n + file[n] + 1 \in Nat \ {0}
        BY <2>1
  <2>   QED  BY <2>3, <2>4, <2>5, GotType DEF Place
<1>   QED  BY <1>2, <1>3

-----------------------------------------------------------------------------
\* One value after the other.

LEMMA ThenReads ==
    ASSUME NEW first, NEW v, NEW n \in Place, NEW reader, NEW text, NEW x,
           first = NothingRead \/ first = Got(v, n), Starts(n, text), Reads(reader, text, x)
    PROVE  AndThen(first, reader) = NothingRead
           \/ AndThen(first, reader) = Got(Append(v, x), n + Len(text))
<1>1. CASE first = NothingRead
      BY <1>1, GotIs DEF AndThen
<1>2. CASE first = Got(v, n)
  <2>1. first.ok /\ first.value = v /\ first.next = n
        BY <1>2, GotIs
  <2>2. reader[n] = NothingRead \/ reader[n] = Got(x, n + Len(text))
        BY DEF Reads, ReadsAs
  <2>   QED  BY <2>1, <2>2, GotIs DEF AndThen
<1>   QED  BY <1>1, <1>2

LEMMA ThenType ==
    ASSUME NEW T, NEW reader \in [Place -> Gots(T)], NEW first \in Gots(Seq(T))
    PROVE  AndThen(first, reader) \in Gots(Seq(T))
<1>1. CASE first = NothingRead
      BY <1>1, GotIs, GotType DEF AndThen
<1>2. ASSUME NEW v \in Seq(T), NEW n \in Place, first = Got(v, n)
      PROVE  AndThen(first, reader) \in Gots(Seq(T))
  <2>1. first.ok /\ first.value = v /\ first.next = n /\ reader[n] \in Gots(T)
        BY <1>2, GotIs
  <2>2. CASE reader[n] = NothingRead
        BY <2>1, <2>2, GotIs, GotType DEF AndThen
  <2>3. ASSUME NEW x \in T, NEW m \in Place, reader[n] = Got(x, m)
        PROVE  AndThen(first, reader) \in Gots(Seq(T))
    <3>1. AndThen(first, reader) = Got(Append(v, x), m)
          BY <2>1, <2>3, GotIs DEF AndThen
    <3>2. Append(v, x) \in Seq(T)
          OBVIOUS
    <3>   QED  BY <3>1, <3>2, GotType
  <2>   QED  BY <2>1, <2>2, <2>3, GotsAre
<1>   QED  BY <1>1, <1>2, GotsAre

\* Reading a number of times: what is read after each time.
IsReading(f, times, n, reader, T) ==
    /\ f \in [0..times -> Gots(Seq(T))]
    /\ f[0] = Nothing(n)
    /\ \A k \in 0..times - 1 : f[k + 1] = AndThen(f[k], reader)

LEMMA ReadTimesChain ==
    ASSUME NEW T, NEW reader \in [Place -> Gots(T)], NEW times \in Nat, NEW n \in Place
    PROVE  \E f : IsReading(f, times, n, reader, T) /\ ReadTimes(times, n, reader) = f[times]
<1>   DEFINE seq == [k \in 1..times |-> k]
             D == DOMAIN seq
             A == Gots(Seq(T))
             s == Nothing(n)
             Iter(it) == it = [x \in SUBSET D |->
                                 IF x = {} THEN s ELSE AndThen(it[x \ {Max(x)}], reader)]
             iter == CHOOSE it : Iter(it)
<1>1. D = 1..times
      OBVIOUS
<1>2. ReadTimes(times, n, reader) = iter[D]
      BY DEF ReadTimes, FoldLeft, MapThenFoldSet
<1>3. s \in A
  <2>1. <<>> \in Seq(T)
        OBVIOUS
  <2>   QED  BY <2>1, GotType DEF Nothing
<1>4. \A got \in A : AndThen(got, reader) \in A
      BY ThenType
<1>   HIDE DEF A, s
<1>5. \E it : Iter(it)
  <2>   DEFINE g == [p \in (1..times) \X A |-> AndThen(p[2], reader)]
  <2>1. g \in [(1..times) \X A -> A]
        BY <1>4
  <2>2. PICK it \in [SUBSET (1..times) -> A] : FoldsTo(it, times, s, g)
    <3>   HIDE DEF g
    <3>   QED  BY <1>3, <2>1, FoldExists
  <2>3. ASSUME NEW x \in SUBSET (1..times)
        PROVE  it[x] = IF x = {} THEN s ELSE AndThen(it[x \ {Max(x)}], reader)
    <3>1. it[x] = IF x = {} THEN s ELSE g[<<Max(x), it[x \ {Max(x)}]>>]
          BY <2>2 DEF FoldsTo
    <3>2. ASSUME x # {} PROVE g[<<Max(x), it[x \ {Max(x)}]>>] = AndThen(it[x \ {Max(x)}], reader)
      <4>1. Max(x) \in 1..times
            BY <3>2, MaxOf
      <4>2. it[x \ {Max(x)}] \in A
            OBVIOUS
      <4>   QED  BY <4>1, <4>2
    <3>   HIDE DEF g
    <3>   QED  BY <3>1, <3>2
  <2>4. it = [x \in SUBSET (1..times) |-> it[x]]
        OBVIOUS
  <2>5. Iter(it)
        BY <1>1, <2>3, <2>4
  <2>   QED  BY <2>5
<1>6. Iter(iter)
  <2>   HIDE DEF Iter
  <2>   QED  BY <1>5
<1>   HIDE DEF iter, D
<1>   DEFINE f == [k \in 0..times |-> iter[1..k]]
<1>7. f[0] = s /\ iter[D] = f[times]
      BY <1>1, <1>6
<1>8. ASSUME NEW k \in 0..times - 1 PROVE f[k + 1] = AndThen(f[k], reader)
  <2>1. /\ 1..k + 1 \in SUBSET (1..times) /\ 1..k + 1 # {}
        /\ Max(1..k + 1) = k + 1
        /\ (1..k + 1) \ {k + 1} = 1..k
        BY PlacesUpTo
  <2>2. iter[1..k + 1] = AndThen(iter[1..k], reader)
        BY <1>1, <1>6, <2>1
  <2>   QED  BY <2>2
<1>   DEFINE S == {k \in 0..times : f[k] \in A}
<1>9. \A k \in 0..times : k \in S
  <2>1. 0 \in S
        BY <1>3, <1>7
  <2>2. ASSUME NEW k \in 0..times - 1, k \in S PROVE k + 1 \in S
    <3>1. k + 1 \in 0..times /\ f[k] \in A
          BY <2>2
    <3>   HIDE DEF f
    <3>   QED  BY <1>4, <1>8, <3>1
  <2>   HIDE DEF S
  <2>   QED  BY <2>1, <2>2, UpTo
<1>10. f \in [0..times -> A]
      BY <1>9
<1>   HIDE DEF f
<1>11. IsReading(f, times, n, reader, T)
      BY <1>7, <1>8, <1>10 DEF IsReading, s, A
<1>   QED  BY <1>2, <1>7, <1>11

LEMMA ReadTimesType ==
    ASSUME NEW T, NEW reader \in [Place -> Gots(T)], NEW times \in Nat, NEW n \in Place
    PROVE  ReadTimes(times, n, reader) \in Gots(Seq(T))
<1>1. PICK f : IsReading(f, times, n, reader, T) /\ ReadTimes(times, n, reader) = f[times]
      BY ReadTimesChain
<1>2. times \in 0..times
      OBVIOUS
<1>   QED  BY <1>1, <1>2 DEF IsReading

LEMMA ReadListType ==
    ASSUME file \in CacheText, NEW T, NEW reader \in [Place -> Gots(T)]
    PROVE  ReadList(reader) \in [Place -> Gots(Seq(T))]
<1>   SUFFICES ASSUME NEW n \in Place PROVE ReadList(reader)[n] \in Gots(Seq(T))
      BY DEF ReadList
<1>1. CASE n > Len(file)
      BY <1>1, GotType DEF ReadList
<1>2. CASE ~(n > Len(file))
  <2>1. file[n] \in Nat /\ n + 1 \in Place
        BY <1>2 DEF Place, CacheText
  <2>2. ReadTimes(file[n], n + 1, reader) \in Gots(Seq(T))
        BY <2>1, ReadTimesType
  <2>   QED  BY <1>2, <2>2 DEF ReadList
<1>   QED  BY <1>1, <1>2

-----------------------------------------------------------------------------
\* Lists of values.

LEMMA PlaceEnds ==
    ASSUME NEW texts \in Seq(CacheText)
    PROVE  PlaceAfter(texts, 0) = 0 /\ PlaceAfter(texts, Len(texts)) = Len(FlattenSeq(texts))
<1>1. SubSeq(texts, 1, 0) = <<>>
      BY SubSeqEmpty
<1>2. FlattenSeq(<<>>) = <<>>
      BY DEF FlattenSeq
<1>3. Len(<<>>) = 0
      OBVIOUS
<1>4. PlaceAfter(texts, 0) = 0
      BY <1>1, <1>2, <1>3, Zenon DEF PlaceAfter
<1>5. SubSeq(texts, 1, Len(texts)) = texts
      BY SubSeqFull
<1>6. PlaceAfter(texts, Len(texts)) = Len(FlattenSeq(texts))
      BY <1>5, Zenon DEF PlaceAfter
<1>   QED  BY <1>4, <1>6

LEMMA PartStarts ==
    ASSUME NEW texts \in Seq(CacheText), NEW m \in Place, Starts(m, FlattenSeq(texts)),
           NEW k \in 0..Len(texts) - 1
    PROVE  LET at == m + PlaceAfter(texts, k)
           IN  /\ at \in Place /\ Starts(at, texts[k + 1])
               /\ m + PlaceAfter(texts, k + 1) = at + Len(texts[k + 1])
<1>   DEFINE before == FlattenSeq(SubSeq(texts, 1, k))
             part   == texts[k + 1]
             whole  == FlattenSeq(texts)
             more   == FlattenSeq(SubSeq(texts, 1, k + 1))
             at     == m + Len(before)
<1>1. /\ before \in Seq(Nat) /\ part \in Seq(Nat) /\ whole \in Seq(Nat)
      /\ Len(before) + Len(part) <= Len(whole)
      /\ \A i \in 1..Len(part) : whole[Len(before) + i] = part[i]
      /\ more = before \o part
      BY FlattenParts DEF CacheText
<1>2. \A i \in 1..Len(whole) : m + i - 1 <= Len(file) => file[m + i - 1] = whole[i]
      BY Zenon DEF Starts
<1>3. PlaceAfter(texts, k) = Len(before) /\ PlaceAfter(texts, k + 1) = Len(more)
      BY Zenon DEF PlaceAfter
<1>   HIDE DEF before, part, whole, more
<1>4. at \in Place /\ Len(before) \in Nat /\ m \in Nat /\ Len(part) \in Nat
      BY <1>1 DEF Place
<1>5. Starts(at, part)
  <2>   SUFFICES ASSUME NEW i \in 1..Len(part), at + i - 1 <= Len(file)
                 PROVE  file[at + i - 1] = part[i]
        BY DEF Starts
  <2>   DEFINE j == Len(before) + i
  <2>1. j \in 1..Len(whole) /\ m + j - 1 = at + i - 1 /\ whole[j] = part[i]
        BY <1>1, <1>4
  <2>   HIDE DEF j, at
  <2>   QED  BY <1>2, <2>1
<1>6. m + Len(more) = at + Len(part)
      BY <1>1, <1>4
<1>   QED  BY <1>3, <1>4, <1>5, <1>6 DEF part

LEMMA ListIsText ==
    ASSUME NEW texts \in Seq(CacheText)
    PROVE  /\ FlattenSeq(texts) \in CacheText
           /\ WriteList(texts) \in CacheText /\ Len(WriteList(texts)) = Len(FlattenSeq(texts)) + 1
<1>1. FlattenSeq(texts) \in Seq(Nat)
      BY FlattenType DEF CacheText
<1>2. Len(texts) \in Nat
      OBVIOUS
<1>3. <<Len(texts)>> \in Seq(Nat) /\ Len(<<Len(texts)>>) = 1
      BY <1>2
<1>   QED  BY <1>1, <1>3 DEF WriteList, CacheText

LEMMA ListStarts ==
    ASSUME file \in CacheText, NEW texts \in Seq(CacheText), NEW n \in Place, Starts(n, WriteList(texts))
    PROVE  /\ n + 1 \in Place /\ Starts(n + 1, FlattenSeq(texts))
           /\ n <= Len(file) => file[n] = Len(texts)
<1>   DEFINE head == <<Len(texts)>>
<1>1. head \in CacheText /\ Len(head) = 1 /\ head[1] = Len(texts)
      BY DEF CacheText
<1>2. FlattenSeq(texts) \in CacheText
      BY ListIsText
<1>3. Starts(n, head \o FlattenSeq(texts))
      BY DEF WriteList
<1>   HIDE DEF head
<1>4. Starts(n, head) /\ Starts(n + Len(head), FlattenSeq(texts)) /\ n + Len(head) \in Place
      BY <1>1, <1>2, <1>3, StartsSplit
<1>5. n <= Len(file) => file[n] = Len(texts)
  <2>   DEFINE one == 1
  <2>1. one \in 1..Len(head) /\ n + one - 1 = n /\ head[one] = Len(texts)
        BY <1>1 DEF Place
  <2>   HIDE DEF one
  <2>   QED  BY <1>4, <2>1 DEF Starts
<1>   QED  BY <1>1, <1>4, <1>5

LEMMA ListReads ==
    ASSUME file \in CacheText, NEW T, NEW reader \in [Place -> Gots(T)],
           NEW values \in Seq(T), NEW texts \in Seq(CacheText), Len(texts) = Len(values),
           \A k \in 1..Len(texts) : Reads(reader, texts[k], values[k])
    PROVE  Reads(ReadList(reader), WriteList(texts), values)
<1>   SUFFICES ASSUME NEW n \in Place, Starts(n, WriteList(texts))
               PROVE  ReadsAs(ReadList(reader)[n], n, WriteList(texts), values)
      BY DEF Reads
<1>   DEFINE N == Len(texts)
             m == n + 1
<1>1. m \in Place /\ Starts(m, FlattenSeq(texts)) /\ (n <= Len(file) => file[n] = N)
      BY ListStarts
<1>2. N \in Nat /\ n \in Nat /\ Len(file) \in Nat
      BY DEF Place, CacheText
<1>3. CASE n > Len(file)
      BY <1>3 DEF ReadList, ReadsAs
<1>4. CASE ~(n > Len(file))
  <2>1. ReadList(reader)[n] = ReadTimes(N, m, reader)
        BY <1>1, <1>2, <1>4 DEF ReadList
  <2>2. PICK f : IsReading(f, N, m, reader, T) /\ ReadTimes(N, m, reader) = f[N]
        BY <1>1, <1>2, ReadTimesChain
  <2>   DEFINE Right(k) == \/ f[k] = NothingRead
                           \/ f[k] = Got(SubSeq(values, 1, k), m + PlaceAfter(texts, k))
               S == {k \in 0..N : Right(k)}
  <2>   HIDE DEF m, N
  <2>3. Right(0)
    <3>1. SubSeq(values, 1, 0) = <<>>
          BY SubSeqEmpty
    <3>2. PlaceAfter(texts, 0) = 0
          BY PlaceEnds
    <3>3. m + 0 = m
          BY <1>1 DEF Place
    <3>   QED  BY <2>2, <3>1, <3>2, <3>3 DEF IsReading, Nothing
  <2>4. ASSUME NEW k \in 0..N - 1, Right(k) PROVE Right(k + 1)
    <3>   DEFINE at == m + PlaceAfter(texts, k)
                 v  == SubSeq(values, 1, k)
                 i  == k + 1
    <3>1. at \in Place /\ Starts(at, texts[i]) /\ m + PlaceAfter(texts, i) = at + Len(texts[i])
          BY <1>1, PartStarts DEF N
    <3>2. SubSeq(values, 1, i) = Append(v, values[i])
          BY SubSeqGrows DEF N
    <3>3. i \in 1..N
          BY <1>2
    <3>4. Reads(reader, texts[i], values[i])
          BY <3>3 DEF N
    <3>5. f[i] = AndThen(f[k], reader)
          BY <2>2 DEF IsReading
    <3>6. f[k] = NothingRead \/ f[k] = Got(v, at)
          BY <2>4
    <3>   HIDE DEF at, v, i
    <3>7. f[i] = NothingRead \/ f[i] = Got(Append(v, values[i]), at + Len(texts[i]))
      <4>1. \/ AndThen(f[k], reader) = NothingRead
            \/ AndThen(f[k], reader) = Got(Append(v, values[i]), at + Len(texts[i]))
        <5>   DEFINE got  == f[k]
                     text == texts[i]
                     x    == values[i]
        <5>1. /\ at \in Place /\ Starts(at, text) /\ Reads(reader, text, x)
              /\ got = NothingRead \/ got = Got(v, at)
              BY <3>1, <3>4, <3>6
        <5>   HIDE DEF got, text, x
        <5>2. AndThen(got, reader) = NothingRead \/ AndThen(got, reader) = Got(Append(v, x), at + Len(text))
              BY <5>1, ThenReads
        <5>   QED  BY <5>2 DEF got, text, x
      <4>   QED  BY <3>5, <4>1
    <3>8. Right(i)
          BY <3>1, <3>2, <3>7
    <3>   QED  BY <3>8 DEF i
  <2>5. Right(N)
    <3>1. 0 \in S
          BY <1>2, <2>3
    <3>2. ASSUME NEW k \in 0..N - 1, k \in S PROVE k + 1 \in S
      <4>1. k + 1 \in 0..N /\ Right(k)
            BY <1>2, <3>2
      <4>   HIDE DEF Right
      <4>   QED  BY <2>4, <4>1
    <3>   HIDE DEF S
    <3>3. \A k \in 0..N : k \in S
          BY <1>2, <3>1, <3>2, UpTo
    <3>4. N \in 0..N
          BY <1>2
    <3>5. N \in S
          BY <3>3, <3>4
    <3>   QED  BY <3>5 DEF S
  <2>6. SubSeq(values, 1, N) = values
        BY SubSeqFull DEF N
  <2>7. m + PlaceAfter(texts, N) = n + Len(WriteList(texts))
    <3>1. Len(FlattenSeq(texts)) \in Nat /\ Len(WriteList(texts)) = Len(FlattenSeq(texts)) + 1
          BY ListIsText DEF CacheText
    <3>2. PlaceAfter(texts, N) = Len(FlattenSeq(texts))
          BY PlaceEnds DEF N
    <3>   QED  BY <1>2, <3>1, <3>2 DEF m
  <2>   QED  BY <2>1, <2>2, <2>5, <2>6, <2>7 DEF ReadsAs
<1>   QED  BY <1>3, <1>4

-----------------------------------------------------------------------------
\* Two and three values.

LEMMA AppendTuple ==
    ASSUME NEW x, NEW y, NEW z
    PROVE  /\ Append(<<>>, x) = <<x>>
           /\ Append(<<x>>, y) = <<x, y>>
           /\ Append(<<x, y>>, z) = <<x, y, z>>
<1>   DEFINE S == {x, y, z}
<1>1. x \in S /\ y \in S /\ z \in S
      OBVIOUS
<1>   HIDE DEF S
<1>2. /\ <<>> \in Seq(S) /\ Len(<<>>) = 0
      /\ <<x>> \in Seq(S) /\ Len(<<x>>) = 1 /\ <<x>>[1] = x
      /\ <<x, y>> \in Seq(S) /\ Len(<<x, y>>) = 2 /\ <<x, y>>[1] = x /\ <<x, y>>[2] = y
      /\ <<x, y, z>> \in Seq(S) /\ Len(<<x, y, z>>) = 3
      /\ <<x, y, z>>[1] = x /\ <<x, y, z>>[2] = y /\ <<x, y, z>>[3] = z
      BY <1>1
<1>   DEFINE s0 == <<>>
             s1 == <<x>>
             s2 == <<x, y>>
             s3 == <<x, y, z>>
<1>   HIDE DEF s0, s1, s2, s3
<1>3. /\ s0 \in Seq(S) /\ Len(s0) = 0
      /\ s1 \in Seq(S) /\ Len(s1) = 1 /\ s1[1] = x
      /\ s2 \in Seq(S) /\ Len(s2) = 2 /\ s2[1] = x /\ s2[2] = y
      /\ s3 \in Seq(S) /\ Len(s3) = 3 /\ s3[1] = x /\ s3[2] = y /\ s3[3] = z
      BY <1>2 DEF s0, s1, s2, s3
<1>4. Append(s0, x) = s1
  <2>1. /\ Append(s0, x) \in Seq(S) /\ Len(Append(s0, x)) = 1 /\ Append(s0, x)[1] = x
        BY <1>1, <1>3, AppendProperties
  <2>   QED  BY <1>3, <2>1, SeqEqual
<1>5. Append(s1, y) = s2
  <2>1. /\ Append(s1, y) \in Seq(S) /\ Len(Append(s1, y)) = 2
        /\ Append(s1, y)[1] = x /\ Append(s1, y)[2] = y
    <3>1. /\ Append(s1, y) \in Seq(S) /\ Len(Append(s1, y)) = Len(s1) + 1
          /\ \A i \in 1..Len(s1) : Append(s1, y)[i] = s1[i]
          /\ Append(s1, y)[Len(s1) + 1] = y
      <4>1. s1 \in Seq(S) /\ y \in S
            BY <1>1, <1>3
      <4>   QED  BY <4>1, AppendProperties
    <3>2. 1 \in 1..1 /\ 1 + 1 = 2
          OBVIOUS
    <3>   QED  BY <1>3, <3>1, <3>2
  <2>2. \A i \in 1..2 : i = 1 \/ i = 2
        OBVIOUS
  <2>3. \A i \in 1..2 : Append(s1, y)[i] = s2[i]
        BY <1>3, <2>1, <2>2
  <2>   QED  BY <1>3, <2>1, <2>3, SeqEqual
<1>6. Append(s2, z) = s3
  <2>1. /\ Append(s2, z) \in Seq(S) /\ Len(Append(s2, z)) = 3
        /\ Append(s2, z)[1] = x /\ Append(s2, z)[2] = y /\ Append(s2, z)[3] = z
    <3>1. /\ Append(s2, z) \in Seq(S) /\ Len(Append(s2, z)) = Len(s2) + 1
          /\ \A i \in 1..Len(s2) : Append(s2, z)[i] = s2[i]
          /\ Append(s2, z)[Len(s2) + 1] = z
          BY <1>1, <1>3, AppendProperties
    <3>2. 1 \in 1..2 /\ 2 \in 1..2 /\ 2 + 1 = 3
          OBVIOUS
    <3>   QED  BY <1>3, <3>1, <3>2
  <2>2. \A i \in 1..3 : i = 1 \/ i = 2 \/ i = 3
        OBVIOUS
  <2>3. \A i \in 1..3 : Append(s2, z)[i] = s3[i]
        BY <1>3, <2>1, <2>2
  <2>   QED  BY <1>3, <2>1, <2>3, SeqEqual
<1>   QED  BY <1>4, <1>5, <1>6 DEF s0, s1, s2, s3

LEMMA TwoRead ==
    ASSUME NEW n \in Place, NEW a \in CacheText, NEW b \in CacheText, NEW r, NEW q, NEW x, NEW y,
           Reads(r, a, x), Reads(q, b, y), Starts(n, a \o b)
    PROVE  ReadsAs(AndThen(AndThen(Nothing(n), r), q), n, a \o b, <<x, y>>)
<1>   DEFINE one == AndThen(Nothing(n), r)
             at  == n + Len(a)
<1>1. Starts(n, a) /\ Starts(at, b) /\ at \in Place
      BY StartsSplit
<1>2. one = NothingRead \/ one = Got(Append(<<>>, x), at)
  <2>   DEFINE v     == <<>>
               first == Nothing(n)
  <2>1. first = Got(v, n)
        BY DEF Nothing
  <2>   HIDE DEF v, first
  <2>2. \/ AndThen(first, r) = NothingRead
        \/ AndThen(first, r) = Got(Append(v, x), n + Len(a))
        BY <1>1, <2>1, ThenReads
  <2>   QED  BY <2>2 DEF v, first
<1>3. Append(<<>>, x) = <<x>> /\ Append(<<x>>, y) = <<x, y>>
      BY AppendTuple
<1>   HIDE DEF one
<1>4. at + Len(b) = n + Len(a \o b)
      BY DEF Place, CacheText
<1>   HIDE DEF at
<1>5. one = NothingRead \/ one = Got(<<x>>, at)
      BY <1>2, <1>3
<1>6. AndThen(one, q) = NothingRead \/ AndThen(one, q) = Got(Append(<<x>>, y), at + Len(b))
      BY <1>1, <1>5, ThenReads
<1>7. AndThen(one, q) = NothingRead \/ AndThen(one, q) = Got(<<x, y>>, n + Len(a \o b))
      BY <1>3, <1>4, <1>6
<1>   QED  BY <1>7, Zenon DEF ReadsAs, one

LEMMA ThreeRead ==
    ASSUME NEW n \in Place, NEW a \in CacheText, NEW b \in CacheText, NEW c \in CacheText,
           NEW r, NEW q, NEW p, NEW x, NEW y, NEW z,
           Reads(r, a, x), Reads(q, b, y), Reads(p, c, z), Starts(n, a \o b \o c)
    PROVE  ReadsAs(AndThen(AndThen(AndThen(Nothing(n), r), q), p), n, a \o b \o c, <<x, y, z>>)
<1>   DEFINE ab  == a \o b
             two == AndThen(AndThen(Nothing(n), r), q)
             at  == n + Len(ab)
<1>1. ab \in CacheText
      BY DEF CacheText
<1>2. Starts(n, ab) /\ Starts(at, c) /\ at \in Place
      BY <1>1, StartsSplit
<1>3. two = NothingRead \/ two = Got(<<x, y>>, at)
      BY <1>2, TwoRead DEF ReadsAs
<1>4. Append(<<x, y>>, z) = <<x, y, z>>
      BY AppendTuple
<1>5. at + Len(c) = n + Len(ab \o c)
      BY <1>1 DEF Place, CacheText
<1>   HIDE DEF two, at, ab
<1>6. AndThen(two, p) = NothingRead \/ AndThen(two, p) = Got(Append(<<x, y>>, z), at + Len(c))
      BY <1>2, <1>3, ThenReads
<1>7. AndThen(two, p) = NothingRead \/ AndThen(two, p) = Got(<<x, y, z>>, n + Len(ab \o c))
      BY <1>4, <1>5, <1>6
<1>   QED  BY <1>7, Zenon DEF ReadsAs, two, ab

LEMMA PairType ==
    ASSUME NEW A, NEW B, NEW r \in [Place -> Gots(A)], NEW q \in [Place -> Gots(B)],
           NEW n \in Place
    PROVE  AndThen(AndThen(Nothing(n), r), q) \in Gots(A \X B)
<1>   DEFINE one == AndThen(Nothing(n), r)
             two == AndThen(one, q)
<1>1. r[n] = NothingRead \/ \E x \in A, m \in Place : r[n] = Got(x, m)
      BY GotsAre
<1>2. Nothing(n).ok /\ Nothing(n).value = <<>> /\ Nothing(n).next = n
      BY GotIs DEF Nothing
<1>3. one = NothingRead \/ \E x \in A, m \in Place : one = Got(<<x>>, m)
  <2>1. CASE r[n] = NothingRead
        BY <1>2, <2>1, GotIs DEF AndThen
  <2>2. ASSUME NEW x \in A, NEW m \in Place, r[n] = Got(x, m)
        PROVE  one = Got(<<x>>, m)
    <3>1. one = Got(Append(<<>>, x), m)
          BY <1>2, <2>2, GotIs DEF AndThen
    <3>2. Append(<<>>, x) = <<x>>
          BY AppendTuple
    <3>   QED  BY <3>1, <3>2
  <2>   QED  BY <1>1, <2>1, <2>2
<1>   HIDE DEF one
<1>4. CASE one = NothingRead
  <2>1. two = NothingRead
        BY <1>4, GotIs DEF AndThen
  <2>2. NothingRead \in Gots(A \X B)
        BY GotType, Zenon
  <2>   QED  BY <2>1, <2>2, Zenon DEF one
<1>5. ASSUME NEW x \in A, NEW m \in Place, one = Got(<<x>>, m)
      PROVE  two \in Gots(A \X B)
  <2>1. one.ok /\ one.value = <<x>> /\ one.next = m
        BY <1>5, GotIs
  <2>2. q[m] = NothingRead \/ \E y \in B, k \in Place : q[m] = Got(y, k)
        BY GotsAre
  <2>3. CASE q[m] = NothingRead
        BY <2>1, <2>3, GotIs, GotType DEF AndThen
  <2>4. ASSUME NEW y \in B, NEW k \in Place, q[m] = Got(y, k)
        PROVE  two \in Gots(A \X B)
    <3>1. two = Got(Append(<<x>>, y), k)
          BY <2>1, <2>4, GotIs DEF AndThen
    <3>2. Append(<<x>>, y) = <<x, y>> /\ <<x, y>> \in A \X B
          BY AppendTuple
    <3>   QED  BY <3>1, <3>2, GotType
  <2>   QED  BY <2>2, <2>3, <2>4
<1>   QED  BY <1>3, <1>4, <1>5 DEF one

-----------------------------------------------------------------------------
\* What is written is text.

LEMMA StringsAreText ==
    ASSUME NEW list \in Seq(CacheText)
    PROVE  /\ [n \in DOMAIN list |-> WriteString(list[n])] \in Seq(CacheText)
           /\ WriteStrings(list) \in CacheText
<1>   DEFINE texts == [n \in DOMAIN list |-> WriteString(list[n])]
<1>1. \A n \in 1..Len(list) : texts[n] \in CacheText
  <2>1. \A n \in 1..Len(list) : list[n] \in CacheText /\ texts[n] = WriteString(list[n])
        OBVIOUS
  <2>   QED  BY <2>1, StringIsText
<1>2. texts = [n \in 1..Len(list) |-> texts[n]] /\ Len(list) \in Nat
      OBVIOUS
<1>3. WriteStrings(list) = WriteList(texts)
      BY DEF WriteStrings
<1>   HIDE DEF texts
<1>4. texts \in Seq(CacheText)
      BY <1>1, <1>2
<1>   QED  BY <1>3, <1>4, ListIsText DEF texts

LEMMA AttributeIsText ==
    ASSUME NEW a \in OldAttribute
    PROVE  WriteAttribute(a) \in CacheText
<1>1. a[1] \in CacheText /\ a[2] \in Seq(CacheText)
      BY DEF OldAttribute
<1>2. WriteString(a[1]) \in CacheText /\ WriteStrings(a[2]) \in CacheText
      BY <1>1, StringIsText, StringsAreText
<1>   QED  BY <1>2 DEF WriteAttribute, CacheText

LEMMA AttributesAreText ==
    ASSUME NEW list \in Seq(OldAttribute)
    PROVE  /\ [n \in DOMAIN list |-> WriteAttribute(list[n])] \in Seq(CacheText)
           /\ WriteAttributes(list) \in CacheText
<1>   DEFINE texts == [n \in DOMAIN list |-> WriteAttribute(list[n])]
<1>1. \A n \in 1..Len(list) : texts[n] \in CacheText
  <2>1. \A n \in 1..Len(list) : list[n] \in OldAttribute /\ texts[n] = WriteAttribute(list[n])
        OBVIOUS
  <2>   QED  BY <2>1, AttributeIsText
<1>2. texts = [n \in 1..Len(list) |-> texts[n]] /\ Len(list) \in Nat
      OBVIOUS
<1>3. WriteAttributes(list) = WriteList(texts)
      BY DEF WriteAttributes
<1>   HIDE DEF texts
<1>4. texts \in Seq(CacheText)
      BY <1>1, <1>2
<1>   QED  BY <1>3, <1>4, ListIsText DEF texts

LEMMA ObjectIsText ==
    ASSUME NEW o \in CacheText \X CacheText \X CacheText
    PROVE  write_object(o) \in CacheText
<1>1. o[1] \in CacheText /\ o[2] \in CacheText /\ o[3] \in CacheText
      OBVIOUS
<1>2. WriteString(o[1]) \in CacheText /\ WriteString(o[2]) \in CacheText /\ WriteString(o[3]) \in CacheText
      BY <1>1, StringIsText
<1>   QED  BY <1>2 DEF write_object, CacheText

LEMMA OldObjectIsText ==
    ASSUME NEW o \in CacheText \X CacheText \X Seq(OldAttribute)
    PROVE  WriteOldObject(o) \in CacheText
<1>1. o[1] \in CacheText /\ o[2] \in CacheText /\ o[3] \in Seq(OldAttribute)
      OBVIOUS
<1>2. WriteString(o[1]) \in CacheText /\ WriteString(o[2]) \in CacheText /\ WriteAttributes(o[3]) \in CacheText
      BY <1>1, StringIsText, AttributesAreText
<1>   QED  BY <1>2 DEF WriteOldObject, CacheText

LEMMA RenderedAreTexts ==
    ASSUME NEW list \in Rendered
    PROVE  /\ list \in Seq(CacheText \X CacheText \X CacheText) /\ Len(list) \in Nat
           /\ RenderedTexts(list) = [n \in 1..Len(list) |-> write_object(list[n])]
           /\ RenderedTexts(list) \in Seq(CacheText) /\ Len(RenderedTexts(list)) = Len(list)
<1>   DEFINE texts == RenderedTexts(list)
<1>1. list \in Seq(CacheText \X CacheText \X CacheText)
      BY FormatAssumption
<1>2. texts = [n \in 1..Len(list) |-> write_object(list[n])] /\ Len(list) \in Nat
      BY <1>1 DEF RenderedTexts
<1>   HIDE DEF texts
<1>3. ASSUME NEW k \in 1..Len(list) PROVE texts[k] \in CacheText
  <2>1. list[k] \in CacheText \X CacheText \X CacheText /\ texts[k] = write_object(list[k])
        BY <1>1, <1>2
  <2>   QED  BY <2>1, ObjectIsText
<1>4. texts \in Seq(CacheText) /\ Len(texts) = Len(list)
      BY <1>2, <1>3
<1>   QED  BY <1>1, <1>2, <1>4 DEF texts

LEMMA UnrenderedAreTexts ==
    ASSUME NEW list \in Unrendered
    PROVE  /\ list \in Seq(CacheText \X CacheText \X Seq(OldAttribute)) /\ Len(list) \in Nat
           /\ Len(list) < MAGIC_NUMBER
           /\ OldTexts(list) = [n \in 1..Len(list) |-> WriteOldObject(list[n])]
           /\ OldTexts(list) \in Seq(CacheText) /\ Len(OldTexts(list)) = Len(list)
<1>   DEFINE texts == OldTexts(list)
<1>1. list \in Seq(CacheText \X CacheText \X Seq(OldAttribute)) /\ Len(list) < MAGIC_NUMBER
      BY FormatAssumption
<1>2. texts = [n \in 1..Len(list) |-> WriteOldObject(list[n])] /\ Len(list) \in Nat
      BY <1>1 DEF OldTexts
<1>   HIDE DEF texts
<1>3. ASSUME NEW k \in 1..Len(list) PROVE texts[k] \in CacheText
  <2>1. list[k] \in CacheText \X CacheText \X Seq(OldAttribute) /\ texts[k] = WriteOldObject(list[k])
        BY <1>1, <1>2
  <2>   QED  BY <2>1, OldObjectIsText
<1>4. texts \in Seq(CacheText) /\ Len(texts) = Len(list)
      BY <1>2, <1>3
<1>   QED  BY <1>1, <1>2, <1>4 DEF texts

-----------------------------------------------------------------------------
\* What was written is read.

LEMMA StringsRead ==
    ASSUME file \in CacheText, NEW list \in Seq(CacheText)
    PROVE  Reads(read_value_list, WriteStrings(list), list)
<1>   DEFINE texts == [n \in DOMAIN list |-> WriteString(list[n])]
<1>1. ASSUME NEW n \in 1..Len(list)
      PROVE  Reads(read_string, texts[n], list[n])
  <2>1. list[n] \in CacheText /\ texts[n] = WriteString(list[n])
        OBVIOUS
  <2>   QED  BY <2>1, StringReads
<1>2. texts \in Seq(CacheText) /\ Len(texts) = Len(list)
      BY StringsAreText
<1>3. WriteStrings(list) = WriteList(texts)
      BY DEF WriteStrings
<1>   HIDE DEF texts
<1>   QED  BY <1>1, <1>2, <1>3, ListReads, ReadStringType DEF read_value_list

LEMMA AttributeReads ==
    ASSUME file \in CacheText, NEW a \in OldAttribute
    PROVE  Reads(read_attribute, WriteAttribute(a), a)
<1>   DEFINE name == WriteString(a[1])
             vals == WriteStrings(a[2])
<1>1. a[1] \in CacheText /\ a[2] \in Seq(CacheText) /\ a = <<a[1], a[2]>>
      BY DEF OldAttribute
<1>2. /\ name \in CacheText /\ Reads(read_string, name, a[1])
      /\ vals \in CacheText /\ Reads(read_value_list, vals, a[2])
      BY <1>1, StringIsText, StringReads, StringsAreText, StringsRead
<1>3. WriteAttribute(a) = name \o vals
      BY DEF WriteAttribute
<1>   HIDE DEF name, vals
<1>4. ASSUME NEW n \in Place, Starts(n, WriteAttribute(a))
      PROVE  ReadsAs(read_attribute[n], n, WriteAttribute(a), a)
  <2>1. ReadsAs(AndThen(AndThen(Nothing(n), read_string), read_value_list), n, name \o vals,
                <<a[1], a[2]>>)
        BY <1>2, <1>3, <1>4, TwoRead
  <2>2. read_attribute[n] = AndThen(AndThen(Nothing(n), read_string), read_value_list)
        BY DEF read_attribute
  <2>   QED  BY <1>1, <1>3, <2>1, <2>2, Zenon
<1>   QED  BY <1>4 DEF Reads

LEMMA ReadAttributeType ==
    ASSUME file \in CacheText
    PROVE  read_attribute \in [Place -> Gots(OldAttribute)]
<1>1. read_value_list \in [Place -> Gots(Seq(CacheText))]
      BY ReadListType, ReadStringType DEF read_value_list
<1>2. \A n \in Place : AndThen(AndThen(Nothing(n), read_string), read_value_list) \in Gots(OldAttribute)
      BY <1>1, ReadStringType, PairType DEF OldAttribute
<1>   QED  BY <1>2 DEF read_attribute

LEMMA AttributesRead ==
    ASSUME file \in CacheText, NEW list \in Seq(OldAttribute)
    PROVE  Reads(read_attributes, WriteAttributes(list), list)
<1>   DEFINE texts == [n \in DOMAIN list |-> WriteAttribute(list[n])]
<1>1. ASSUME NEW n \in 1..Len(list)
      PROVE  Reads(read_attribute, texts[n], list[n])
  <2>1. list[n] \in OldAttribute /\ texts[n] = WriteAttribute(list[n])
        OBVIOUS
  <2>   QED  BY <2>1, AttributeReads
<1>2. texts \in Seq(CacheText) /\ Len(texts) = Len(list)
      BY AttributesAreText
<1>3. WriteAttributes(list) = WriteList(texts)
      BY DEF WriteAttributes
<1>   HIDE DEF texts
<1>   QED  BY <1>1, <1>2, <1>3, ListReads, ReadAttributeType DEF read_attributes

LEMMA ObjectReads ==
    ASSUME file \in CacheText, NEW o \in CacheText \X CacheText \X CacheText
    PROVE  Reads(read_object, write_object(o), o)
<1>   DEFINE a == WriteString(o[1])
             b == WriteString(o[2])
             c == WriteString(o[3])
<1>1. o[1] \in CacheText /\ o[2] \in CacheText /\ o[3] \in CacheText /\ o = <<o[1], o[2], o[3]>>
      OBVIOUS
<1>2. /\ a \in CacheText /\ Reads(read_string, a, o[1])
      /\ b \in CacheText /\ Reads(read_string, b, o[2])
      /\ c \in CacheText /\ Reads(read_string, c, o[3])
      BY <1>1, StringIsText, StringReads
<1>3. write_object(o) = a \o b \o c
      BY DEF write_object
<1>   HIDE DEF a, b, c
<1>4. ASSUME NEW n \in Place, Starts(n, write_object(o))
      PROVE  ReadsAs(read_object[n], n, write_object(o), o)
  <2>1. ReadsAs(AndThen(AndThen(AndThen(Nothing(n), read_string), read_string), read_string),
                n, a \o b \o c, <<o[1], o[2], o[3]>>)
        BY <1>2, <1>3, <1>4, ThreeRead
  <2>2. read_object[n]
            = AndThen(AndThen(AndThen(Nothing(n), read_string), read_string), read_string)
        BY DEF read_object
  <2>   QED  BY <1>1, <1>3, <2>1, <2>2, Zenon
<1>   QED  BY <1>4 DEF Reads

LEMMA OldObjectReads ==
    ASSUME file \in CacheText, NEW o \in CacheText \X CacheText \X Seq(OldAttribute)
    PROVE  Reads(read_old_object, WriteOldObject(o), o)
<1>   DEFINE a == WriteString(o[1])
             b == WriteString(o[2])
             c == WriteAttributes(o[3])
<1>1. o[1] \in CacheText /\ o[2] \in CacheText /\ o[3] \in Seq(OldAttribute) /\ o = <<o[1], o[2], o[3]>>
      OBVIOUS
<1>2. /\ a \in CacheText /\ Reads(read_string, a, o[1])
      /\ b \in CacheText /\ Reads(read_string, b, o[2])
      /\ c \in CacheText /\ Reads(read_attributes, c, o[3])
      BY <1>1, StringIsText, StringReads, AttributesAreText, AttributesRead
<1>3. WriteOldObject(o) = a \o b \o c
      BY DEF WriteOldObject
<1>   HIDE DEF a, b, c
<1>4. ASSUME NEW n \in Place, Starts(n, WriteOldObject(o))
      PROVE  ReadsAs(read_old_object[n], n, WriteOldObject(o), o)
  <2>1. ReadsAs(AndThen(AndThen(AndThen(Nothing(n), read_string), read_string), read_attributes),
                n, a \o b \o c, <<o[1], o[2], o[3]>>)
        BY <1>2, <1>3, <1>4, ThreeRead
  <2>2. read_old_object[n]
            = AndThen(AndThen(AndThen(Nothing(n), read_string), read_string), read_attributes)
        BY DEF read_old_object
  <2>   QED  BY <1>1, <1>3, <2>1, <2>2, Zenon
<1>   QED  BY <1>4 DEF Reads

-----------------------------------------------------------------------------
\* The cut file.

LEMMA CutStarts ==
    ASSUME NEW text \in CacheText, file \in Prefixes(text)
    PROVE  file \in CacheText /\ Starts(1, text) /\ (file # <<>> => Len(file) >= 1)
<1>1. PICK n \in 0..Len(text) : file = SubSeq(text, 1, n)
      BY DEF Prefixes
<1>2. Len(text) \in Nat /\ \A k \in 1..Len(text) : text[k] \in Nat
      BY DEF CacheText
<1>3. file \in Seq(Nat) /\ Len(file) = n /\ \A k \in 1..n : file[k] = text[k]
  <2>1. \A k \in 1..n : text[k] \in Nat
        BY <1>2
  <2>   QED  BY <1>1, <2>1, SubSeqProperties
<1>4. Starts(1, text)
  <2>   SUFFICES ASSUME NEW k \in 1..Len(text), 1 + k - 1 <= Len(file)
                 PROVE  file[1 + k - 1] = text[k]
        BY DEF Starts
  <2>1. 1 + k - 1 = k /\ k \in 1..n
        BY <1>2, <1>3
  <2>   QED  BY <1>3, <2>1
<1>   QED  BY <1>3, <1>4 DEF CacheText

LEMMA RenderedAreRead ==
    ASSUME file \in CacheText, NEW list \in Rendered, NEW k \in 1..Len(list)
    PROVE  Reads(read_object, RenderedTexts(list)[k], list[k])
<1>1. list[k] \in CacheText \X CacheText \X CacheText /\ RenderedTexts(list)[k] = write_object(list[k])
      BY RenderedAreTexts
<1>   QED  BY <1>1, ObjectReads

LEMMA UnrenderedAreRead ==
    ASSUME file \in CacheText, NEW list \in Unrendered, NEW k \in 1..Len(list)
    PROVE  Reads(read_old_object, OldTexts(list)[k], list[k])
<1>1. /\ list[k] \in CacheText \X CacheText \X Seq(OldAttribute)
      /\ OldTexts(list)[k] = WriteOldObject(list[k])
      BY UnrenderedAreTexts
<1>   QED  BY <1>1, OldObjectReads

\* What a cut file of the new format starts with.
LEMMA NewFile ==
    ASSUME NEW list \in Rendered, NEW version \in Versions, file \in Prefixes(save(list, version))
    PROVE  /\ file \in CacheText
           /\ file # <<>> => file[1] = MAGIC_NUMBER
           /\ Len(file) >= 3 => file[2] = version /\ file[3] = Len(list)
           /\ 4 \in Place /\ Starts(4, FlattenSeq(RenderedTexts(list)))
<1>   DEFINE head  == <<MAGIC_NUMBER, version>>
             texts == RenderedTexts(list)
             text  == WriteList(texts)
<1>1. /\ head \in CacheText /\ Len(head) = 2 /\ head[1] = MAGIC_NUMBER /\ head[2] = version
      BY FormatAssumption DEF CacheText, MAGIC_NUMBER
<1>2. texts \in Seq(CacheText) /\ Len(texts) = Len(list) /\ text \in CacheText
      BY RenderedAreTexts, ListIsText
<1>3. save(list, version) = head \o text
      BY DEF save, write_objects
<1>   HIDE DEF head, text, texts
<1>4. head \o text \in CacheText
      BY <1>1, <1>2 DEF CacheText
<1>5. file \in CacheText /\ Starts(1, head \o text) /\ (file # <<>> => Len(file) >= 1)
      BY <1>3, <1>4, CutStarts
<1>6. 1 \in Place /\ 3 \in Place /\ 4 \in Place /\ 1 + 2 = 3 /\ 3 + 1 = 4
      BY DEF Place
<1>7. Starts(1, head) /\ Starts(3, text)
  <2>1. Starts(1, head) /\ Starts(1 + Len(head), text)
        BY <1>1, <1>2, <1>5, <1>6, StartsSplit
  <2>   QED  BY <1>1, <1>6, <2>1
<1>8. Starts(4, FlattenSeq(texts)) /\ (3 <= Len(file) => file[3] = Len(list))
  <2>   DEFINE n == 3
  <2>1. n \in Place /\ Starts(n, WriteList(texts)) /\ n + 1 = 4
        BY <1>6, <1>7 DEF text
  <2>   HIDE DEF n
  <2>2. Starts(n + 1, FlattenSeq(texts)) /\ (n <= Len(file) => file[n] = Len(texts))
        BY <1>2, <1>5, <2>1, ListStarts
  <2>   QED  BY <1>2, <2>1, <2>2 DEF n
<1>9. (Len(file) >= 1 => file[1] = MAGIC_NUMBER) /\ (Len(file) >= 3 => file[2] = version)
  <2>1. \A k \in 1..2 : 1 + k - 1 <= Len(file) => file[1 + k - 1] = head[k]
        BY <1>1, <1>7 DEF Starts
  <2>2. \A k \in 1..2 : 1 + k - 1 = k
        OBVIOUS
  <2>3. \A k \in 1..2 : k <= Len(file) => file[k] = head[k]
        BY <2>1, <2>2
  <2>4. Len(file) \in Nat
        BY <1>5 DEF CacheText
  <2>   QED  BY <1>1, <2>3, <2>4
<1>   QED  BY <1>5, <1>6, <1>8, <1>9 DEF texts

LEMMA OldFile ==
    ASSUME NEW list \in Unrendered, file \in Prefixes(WriteOld(list))
    PROVE  /\ file \in CacheText
           /\ file # <<>> => file[1] = Len(list) /\ file[1] # MAGIC_NUMBER
           /\ 2 \in Place /\ Starts(2, FlattenSeq(OldTexts(list)))
<1>   DEFINE texts == OldTexts(list)
             text  == WriteList(texts)
<1>1. /\ texts \in Seq(CacheText) /\ Len(texts) = Len(list) /\ text \in CacheText
      /\ Len(list) \in Nat /\ Len(list) < MAGIC_NUMBER
      BY UnrenderedAreTexts, ListIsText
<1>2. WriteOld(list) = text
      BY DEF WriteOld
<1>   HIDE DEF text, texts
<1>3. file \in CacheText /\ Starts(1, text) /\ (file # <<>> => Len(file) >= 1)
      BY <1>1, <1>2, CutStarts
<1>   DEFINE n == 1
<1>4. n \in Place /\ Starts(n, WriteList(texts)) /\ n + 1 = 2
      BY <1>3 DEF text, Place
<1>   HIDE DEF n
<1>5. /\ n + 1 \in Place /\ Starts(n + 1, FlattenSeq(texts))
      /\ n <= Len(file) => file[n] = Len(texts)
      BY <1>1, <1>3, <1>4, ListStarts
<1>6. file # <<>> => file[1] = Len(list) /\ file[1] # MAGIC_NUMBER
      BY <1>1, <1>3, <1>5 DEF n, MAGIC_NUMBER
<1>   QED  BY <1>3, <1>4, <1>5, <1>6 DEF texts

-----------------------------------------------------------------------------
\* The steps of the cache file's reader.

LEMMA NothingSoFar ==
    ASSUME NEW T, NEW list \in Seq(T), NEW texts \in Seq(CacheText), NEW first \in Nat
    PROVE  <<>> = SubSeq(list, 1, 0) /\ first = first + PlaceAfter(texts, 0)
BY PlaceEnds, SubSeqEmpty

LEMMA ReadOne ==
    ASSUME file \in CacheText, NEW T, written \in Seq(T),
           NEW texts \in Seq(CacheText), Len(texts) = Len(written),
           NEW first \in Place, Starts(first, FlattenSeq(texts)),
           NEW reader, \A k \in 1..Len(written) : Reads(reader, texts[k], written[k]),
           ReadSoFar(texts, first), left > 0, Take(reader[ifs])
    PROVE  /\ Len(objects') \in 0..Len(written)
           /\ objects' = SubSeq(written, 1, Len(objects'))
           /\ left' = Len(written) - Len(objects')
           /\ ifs' = first + PlaceAfter(texts, Len(objects'))
<1>   DEFINE k == Len(objects)
             i == k + 1
<1>1. /\ k \in 0..Len(written) /\ objects = SubSeq(written, 1, k)
      /\ left = Len(written) - k /\ ifs = first + PlaceAfter(texts, k)
      BY Zenon DEF ReadSoFar
<1>2. /\ Len(written) \in Nat /\ k \in 0..Len(written) - 1 /\ k \in Nat
      /\ i \in 1..Len(written) /\ left - 1 = Len(written) - i
      BY <1>1
<1>3. /\ ifs \in Place /\ Starts(ifs, texts[i])
      /\ first + PlaceAfter(texts, i) = ifs + Len(texts[i])
      BY <1>1, <1>2, PartStarts
<1>4. SubSeq(written, 1, i) = Append(objects, written[i])
      BY <1>1, <1>2, SubSeqGrows
<1>5. Len(SubSeq(written, 1, i)) = i
  <2>1. \A j \in 1..i : written[j] \in T
        BY <1>2
  <2>   QED  BY <1>2, <2>1, SubSeqProperties
<1>   HIDE DEF i
<1>6. /\ reader[ifs].ok
      /\ objects' = Append(objects, reader[ifs].value)
      /\ ifs' = reader[ifs].next
      /\ left' = left - 1
      BY DEF Take
<1>7. reader[ifs] = Got(written[i], ifs + Len(texts[i]))
  <2>1. reader[ifs] = NothingRead \/ reader[ifs] = Got(written[i], ifs + Len(texts[i]))
        BY <1>2, <1>3 DEF Reads, ReadsAs
  <2>   QED  BY <1>6, <2>1, GotIs
<1>8. reader[ifs].value = written[i] /\ reader[ifs].next = ifs + Len(texts[i])
      BY <1>7, GotIs
<1>9. objects' = SubSeq(written, 1, i) /\ Len(objects') = i
      BY <1>4, <1>5, <1>6, <1>8
<1>10. ifs' = first + PlaceAfter(texts, i) /\ left' = Len(written) - i
      BY <1>2, <1>3, <1>6, <1>8
<1>11. i \in 0..Len(written)
      BY <1>2
<1>   QED  BY <1>9, <1>10, <1>11, Zenon

LEMMA FormatInitially == FormatInit => FormatInv
<1>   SUFFICES ASSUME FormatInit PROVE FormatInv
      OBVIOUS
<1>1. NewFormat \/ OldFormat
      BY Zenon DEF FormatInit, NewFormat, OldFormat
<1>   QED  BY <1>1 DEF FormatInit, FormatInv

LEMMA NewFormatPreserved ==
    ASSUME NewFormat, FormatInv, [FormatNext]_formatVars
    PROVE  NewFormat'
<1>1. PICK version \in Versions : file \in Prefixes(save(written, version))
      BY DEF NewFormat
<1>   DEFINE texts == RenderedTexts(written)
<1>2. /\ file \in CacheText
      /\ file # <<>> => file[1] = MAGIC_NUMBER
      /\ Len(file) >= 3 => file[2] = version /\ file[3] = Len(written)
      /\ 4 \in Place /\ Starts(4, FlattenSeq(texts))
      BY <1>1, NewFile DEF NewFormat
<1>3. /\ written \in Seq(CacheText \X CacheText \X CacheText) /\ Len(written) \in Nat
      /\ texts \in Seq(CacheText) /\ Len(texts) = Len(written)
      BY RenderedAreTexts DEF NewFormat
<1>4. \A k \in 1..Len(written) : Reads(read_object, texts[k], written[k])
      BY <1>2, RenderedAreRead DEF NewFormat
<1>   DEFINE Same == file' = file /\ written' = written
             Rest == /\ cacheReading' # "old"
                     /\ cacheReading' \in {"objects", "done"} =>
                           /\ Len(file) >= 3 /\ file[1] = MAGIC_NUMBER
                           /\ file[2] <= CURRENT_VERSION
                           /\ Len(objects') \in 0..Len(written)
                           /\ objects' = SubSeq(written, 1, Len(objects'))
                           /\ left' = Len(written) - Len(objects')
                           /\ ifs' = 4 + PlaceAfter(texts, Len(objects'))
                     /\ cacheReading' = "done" => left' = 0
<1>5. SUFFICES Same /\ Rest
  <2>1. ASSUME Same, Rest PROVE NewFormat'
        BY <2>1 DEF NewFormat, ReadSoFar
  <2>   QED  BY <2>1
<1>6. cacheReading \in {"objects", "done"} =>
          /\ Len(file) >= 3 /\ file[1] = MAGIC_NUMBER /\ file[2] <= CURRENT_VERSION
          /\ ReadSoFar(texts, 4)
      BY DEF NewFormat
<1>7. cacheReading # "old" /\ (cacheReading = "done" => left = 0)
      BY DEF NewFormat
<1>   HIDE DEF texts
<1>8. CASE get_rendered_contents
  <2>1. CASE Throw
        BY <2>1 DEF Throw
  <2>2. CASE ~(Len(file) < 3 \/ ~VersionIsKnown(file[2]))
    <3>1. /\ cacheReading' = "objects" /\ left' = file[3] /\ ifs' = 4
          /\ objects' = objects /\ Same
          BY <1>8, <2>2 DEF get_rendered_contents
    <3>2. Len(file) >= 3 /\ file[2] <= CURRENT_VERSION /\ file # <<>>
      <4>1. Len(file) \in Nat /\ (file = <<>> => Len(file) = 0)
            BY <1>2 DEF CacheText
      <4>   QED  BY <2>2, <4>1 DEF VersionIsKnown
    <3>3. objects = <<>>
          BY <1>8 DEF get_rendered_contents, FormatInv
    <3>4. /\ Len(objects') = 0 /\ objects' = SubSeq(written, 1, 0)
          /\ 4 = 4 + PlaceAfter(texts, 0)
          BY <1>3, <3>1, <3>3, NothingSoFar
    <3>5. left' = Len(written) - 0 /\ 0 \in 0..Len(written)
          BY <1>2, <1>3, <3>1, <3>2
    <3>   QED  BY <1>2, <3>1, <3>2, <3>4, <3>5
  <2>   QED  BY <1>8, <2>1, <2>2 DEF get_rendered_contents
<1>9. CASE get_old_contents
      BY <1>2, <1>9 DEF get_old_contents
<1>10. CASE ReadRendered
  <2>1. CASE Throw
        BY <2>1 DEF Throw
  <2>2. CASE Take(read_object[ifs])
    <3>1. cacheReading = "objects" /\ left > 0 /\ ReadSoFar(texts, 4)
          BY <1>6, <1>10 DEF ReadRendered
    <3>2. /\ Len(objects') \in 0..Len(written)
          /\ objects' = SubSeq(written, 1, Len(objects'))
          /\ left' = Len(written) - Len(objects')
          /\ ifs' = 4 + PlaceAfter(texts, Len(objects'))
          BY <1>2, <1>3, <1>4, <2>2, <3>1, ReadOne
    <3>3. cacheReading' = "objects" /\ Same
          BY <2>2, <3>1 DEF Take
    <3>   QED  BY <1>6, <3>1, <3>2, <3>3
  <2>   QED  BY <1>10, <2>1, <2>2 DEF ReadRendered
<1>11. CASE ReadOld
      BY <1>7, <1>11 DEF ReadOld
<1>12. CASE AllRead
      BY <1>6, <1>7, <1>12 DEF AllRead, ReadSoFar
<1>13. CASE UNCHANGED formatVars
      BY <1>6, <1>7, <1>13 DEF formatVars, ReadSoFar
<1>   QED  BY <1>8, <1>9, <1>10, <1>11, <1>12, <1>13 DEF FormatNext

LEMMA OldFormatPreserved ==
    ASSUME OldFormat, FormatInv, [FormatNext]_formatVars
    PROVE  OldFormat'
<1>   DEFINE texts == OldTexts(written)
<1>1. /\ file \in CacheText
      /\ file # <<>> => file[1] = Len(written) /\ file[1] # MAGIC_NUMBER
      /\ 2 \in Place /\ Starts(2, FlattenSeq(texts))
      BY OldFile DEF OldFormat
<1>2. /\ written \in Seq(CacheText \X CacheText \X Seq(OldAttribute)) /\ Len(written) \in Nat
      /\ texts \in Seq(CacheText) /\ Len(texts) = Len(written)
      BY UnrenderedAreTexts DEF OldFormat
<1>3. \A k \in 1..Len(written) : Reads(read_old_object, texts[k], written[k])
      BY <1>1, UnrenderedAreRead DEF OldFormat
<1>   DEFINE Same  == file' = file /\ written' = written
             Right == /\ file[1] # MAGIC_NUMBER
                      /\ Len(objects') \in 0..Len(written)
                      /\ objects' = SubSeq(written, 1, Len(objects'))
                      /\ left' = Len(written) - Len(objects')
                      /\ ifs' = 2 + PlaceAfter(texts, Len(objects'))
             Rest  == /\ cacheReading' # "objects"
                      /\ cacheReading' = "old" => Right
                      /\ cacheReading' = "done" => objects' = <<>> \/ (left' = 0 /\ Right)
<1>4. SUFFICES Same /\ Rest
  <2>1. ASSUME Same, Rest PROVE OldFormat'
        BY <2>1 DEF OldFormat, ReadSoFar
  <2>   QED  BY <2>1
<1>5. /\ cacheReading = "old" => file[1] # MAGIC_NUMBER /\ ReadSoFar(texts, 2)
      /\ cacheReading = "done" =>
            objects = <<>> \/ (left = 0 /\ file[1] # MAGIC_NUMBER /\ ReadSoFar(texts, 2))
      /\ cacheReading # "objects"
      BY DEF OldFormat
<1>   HIDE DEF texts
<1>6. CASE get_rendered_contents
  <2>1. file = <<>>
        BY <1>1, <1>6 DEF get_rendered_contents
  <2>2. Throw
        BY <1>6, <2>1 DEF get_rendered_contents
  <2>   QED  BY <2>2 DEF Throw
<1>7. CASE get_old_contents
  <2>1. /\ cacheReading' = "old" /\ left' = file[1] /\ ifs' = 2
        /\ objects' = objects /\ Same /\ file # <<>> /\ file[1] # MAGIC_NUMBER
        BY <1>7 DEF get_old_contents
  <2>2. objects = <<>>
        BY <1>7 DEF get_old_contents, FormatInv
  <2>3. /\ Len(objects') = 0 /\ objects' = SubSeq(written, 1, 0)
        /\ 2 = 2 + PlaceAfter(texts, 0)
        BY <1>2, <2>1, <2>2, NothingSoFar
  <2>4. left' = Len(written) - 0 /\ 0 \in 0..Len(written)
        BY <1>1, <1>2, <2>1
  <2>   QED  BY <2>1, <2>3, <2>4
<1>8. CASE ReadRendered
      BY <1>5, <1>8 DEF ReadRendered
<1>9. CASE ReadOld
  <2>1. CASE GiveUpOld
        BY <2>1 DEF GiveUpOld
  <2>2. CASE Take(read_old_object[ifs])
    <3>1. cacheReading = "old" /\ left > 0 /\ ReadSoFar(texts, 2) /\ file[1] # MAGIC_NUMBER
          BY <1>5, <1>9 DEF ReadOld
    <3>2. /\ Len(objects') \in 0..Len(written)
          /\ objects' = SubSeq(written, 1, Len(objects'))
          /\ left' = Len(written) - Len(objects')
          /\ ifs' = 2 + PlaceAfter(texts, Len(objects'))
          BY <1>1, <1>2, <1>3, <2>2, <3>1, ReadOne
    <3>3. cacheReading' = "old" /\ Same
          BY <2>2, <3>1 DEF Take
    <3>   QED  BY <3>1, <3>2, <3>3
  <2>   QED  BY <1>9, <2>1, <2>2 DEF ReadOld
<1>10. CASE AllRead
      BY <1>5, <1>10 DEF AllRead, ReadSoFar
<1>11. CASE UNCHANGED formatVars
      BY <1>5, <1>11 DEF formatVars, ReadSoFar
<1>   QED  BY <1>6, <1>7, <1>8, <1>9, <1>10, <1>11 DEF FormatNext

LEMMA FormatPreserved == FormatInv /\ [FormatNext]_formatVars => FormatInv'
<1>   SUFFICES ASSUME FormatInv, [FormatNext]_formatVars PROVE FormatInv'
      OBVIOUS
<1>1. (NewFormat \/ OldFormat)'
      BY NewFormatPreserved, OldFormatPreserved DEF FormatInv
<1>2. /\ cacheReading' \in {"magic", "objects", "old", "done", "failed"}
      /\ cacheReading' = "magic" => objects' = <<>>
      BY DEF FormatInv, FormatNext, formatVars, get_rendered_contents, get_old_contents,
             ReadRendered, ReadOld, AllRead, Throw, GiveUpOld, Take
<1>   QED  BY <1>1, <1>2 DEF FormatInv

\* Whatever lists were written, in whichever version, and wherever the file was
\* cut off, its objects are read all or none (rendered_cache_file::get_contents,
\* cache_file::read_objects).
THEOREM CutFilesAreNotRead == FormatSpec => []CutFileIsNotRead
<1>1. FormatInv => CutFileIsNotRead
  <2>   SUFFICES ASSUME FormatInv, cacheReading = "done" PROVE CutFileIsNotRead
        BY DEF CutFileIsNotRead
  <2>1. CASE NewFormat
    <3>1. /\ ReadSoFar(RenderedTexts(written), 4) /\ left = 0 /\ file[2] <= CURRENT_VERSION
          /\ written \in Rendered
          BY <2>1 DEF NewFormat
    <3>2. objects = written
          BY <3>1, RenderedAreTexts, SubSeqFull DEF ReadSoFar
    <3>   QED  BY <3>1, <3>2 DEF CutFileIsNotRead
  <2>2. CASE OldFormat
    <3>1. CASE objects = <<>>
          BY <2>2, <3>1 DEF CutFileIsNotRead, OldFormat
    <3>2. CASE left = 0 /\ file[1] # MAGIC_NUMBER /\ ReadSoFar(OldTexts(written), 2)
      <4>1. objects = written
            BY <2>2, <3>2, UnrenderedAreTexts, SubSeqFull DEF ReadSoFar, OldFormat
      <4>   QED  BY <3>2, <4>1 DEF CutFileIsNotRead
    <3>   QED  BY <2>2, <3>1, <3>2 DEF OldFormat
  <2>   QED  BY <2>1, <2>2 DEF FormatInv
<1>   QED  BY <1>1, FormatInitially, FormatPreserved, PTL DEF FormatSpec
-----------------------------------------------------------------------------
\* Lists of attributes.

LEMMA OneElement ==
    ASSUME NEW S, NEW x \in S
    PROVE  <<x>> \in Seq(S)
OBVIOUS

\* Settings are what the assumption says.
LEMMA SettingsAre ==
    ASSUME NEW s \in ListSettings
    PROVE  /\ IsFiniteSet(s.used) /\ IsFiniteSet(s.transformed)
           /\ \A name \in s.used \cup s.transformed : IsName(name)
           /\ s.hidden \in Seq(Seq(STRING)) /\ IsText(s.hidden)
           /\ IsFiniteSet(DOMAIN s.relations)
           /\ \A n \in DOMAIN s.relations :
                 /\ s.relations[n].type \in ListTypes
                 /\ IsAttribute(s.relations[n].local_attribute)
                 /\ IsAttribute(s.relations[n].remote_attribute)
<1>1. s.relations \in Seq([type : ListTypes, local_attribute : STRING, remote_attribute : STRING])
      BY ListAssumption
<1>2. DOMAIN s.relations = 1..Len(s.relations) /\ Len(s.relations) \in Nat
      BY <1>1, LenProperties
<1>3. \A n \in DOMAIN s.relations : s.relations[n].type \in ListTypes
  <2>1. \A n \in DOMAIN s.relations :
            s.relations[n] \in [type : ListTypes, local_attribute : STRING, remote_attribute : STRING]
        BY <1>1, <1>2, ElementOfSeq
  <2>   QED  BY <2>1
<1>4. IsFiniteSet(DOMAIN s.relations)
      BY <1>2, FS_Interval
<1>   QED  BY <1>3, <1>4, ListAssumption

\* A name is not empty, and LDAP is asked for its last part.
LEMMA NamesAre ==
    ASSUME NEW name, IsName(name)
    PROVE  /\ name \notin {<<>>, <<"">>} /\ Len(name) \in {1, 2}
           /\ ~HasComma(name)
           /\ LdapName(name) = <<name[Len(name)]>>
           /\ LdapName(name) \notin {Comma, Space, <<"">>}
           /\ Len(name) = 2 => name[1] \in ListTypes /\ <<name[2]>> \notin {<<>>, <<"">>}
           /\ Len(name) = 1 => <<name[1]>> = name
<1>1. /\ name \in Seq(STRING) /\ Len(name) \in {1, 2} /\ DOMAIN name = 1..Len(name)
      /\ \A n \in DOMAIN name : name[n] \notin {"", ",", " "}
      /\ Len(name) = 2 => name[1] \in ListTypes
      BY LenProperties DEF IsName
<1>2. 1 \in DOMAIN name /\ Len(name) \in DOMAIN name
  <2>   DEFINE L == Len(name)
  <2>1. L \in {1, 2} /\ DOMAIN name = 1..L
        BY <1>1
  <2>   HIDE DEF L
  <2>2. 1 \in 1..L /\ L \in 1..L
        BY <2>1
  <2>   QED  BY <2>1, <2>2 DEF L
<1>3. ~HasComma(name)
      BY <1>1 DEF HasComma
<1>4. name # <<>> /\ name # <<"">>
  <2>1. Len(<<>>) = 0 /\ <<"">>[1] = ""
        OBVIOUS
  <2>2. Len(name) # 0
    <3>1. 0 \notin {1, 2}
          OBVIOUS
    <3>   QED  BY <1>1, <3>1, Zenon
  <2>3. name[1] # ""
        BY <1>1, <1>2, Zenon
  <2>   QED  BY <2>1, <2>2, <2>3, Zenon
<1>5. <<name[Len(name)]>> \notin {Comma, Space, <<"">>}
      BY <1>1, <1>2 DEF Comma, Space
<1>6. Len(name) = 2 => <<name[2]>> \notin {<<>>, <<"">>}
  <2>1. Len(name) = 2 => name[2] # ""
        BY <1>1, <1>2, Zenon
  <2>2. \A x : <<x>> # <<>> /\ (<<x>> = <<"">> => x = "")
        OBVIOUS
  <2>   QED  BY <2>1, <2>2, Zenon
<1>7. ASSUME Len(name) = 1 PROVE <<name[1]>> = name
  <2>   DEFINE x == name[1]
  <2>1. name \in Seq(STRING) /\ x \in STRING
        BY <1>1, <1>2, <1>7, ElementOfSeq
  <2>   HIDE DEF x
  <2>2. Len(<<x>>) = 1 /\ <<x>>[1] = x
        OBVIOUS
  <2>2a. <<x>> \in Seq(STRING)
        BY <2>1, OneElement, Zenon
  <2>3. \A i \in 1..Len(<<x>>) : <<x>>[i] = name[i]
        BY <2>2 DEF x
  <2>   HIDE DEF x
  <2>4. <<x>> = name
        BY <1>7, <2>1, <2>2, <2>2a, <2>3, SeqEqual
  <2>   QED  BY <2>4 DEF x
<1>   QED  BY <1>1, <1>3, <1>4, <1>5, <1>6, <1>7 DEF LdapName

\* Cut at its blanks, a tidy text gives every name that is written in it.
LEMMA VectorHas ==
    ASSUME NEW text \in Seq(Seq(STRING)), IsText(text), Tidy(text)
    PROVE  Listed(text) \subseteq string_to_vector(text)
<1>   DEFINE L == Len(text)
             starts == {1} \cup {n + 1 : n \in {k \in DOMAIN text : text[k] = Space}}
             Stops(n) == {m \in n..L + 1 : m > L \/ text[m] = Space}
             StopOf(n) == Min(Stops(n))
             Piece(n) == SubSeq(text, n, StopOf(n) - 1)
             Cut(piece) == IF piece = <<>> \/ piece[1] = Comma THEN <<>> ELSE piece[1]
             Rest(piece) == IF Len(piece) = 1 THEN piece[1] ELSE FlattenSeq(piece)
<1>1. L \in Nat /\ DOMAIN text = 1..L
      BY LenProperties
<1>2. SUFFICES ASSUME NEW n \in 1..L, text[n] \notin {Comma, Space}
               PROVE  text[n] \in string_to_vector(text)
      BY <1>1 DEF Listed
<1>3. n \in starts
  <2>1. CASE n = 1
        BY <2>1
  <2>2. CASE n # 1
    <3>1. n - 1 \in 1..L /\ n - 1 + 1 = n /\ n \in DOMAIN text \ {1}
          BY <1>1, <2>2
    <3>2. text[n - 1] \in {Comma, Space}
          BY <1>1, <1>2, <3>1 DEF IsText
    <3>3. text[n - 1] # Comma
          BY <1>1, <1>2, <3>1 DEF Tidy
    <3>   QED  BY <1>1, <3>1, <3>2, <3>3
  <2>   QED  BY <2>1, <2>2
<1>4. StopOf(n) \in Stops(n) /\ \A m \in Stops(n) : StopOf(n) <= m
  <2>1. L + 1 \in Stops(n) /\ Stops(n) \in SUBSET Nat
        BY <1>1
  <2>   HIDE DEF Stops
  <2>2. PICK m \in Stops(n) : \A k \in Stops(n) : m <= k
        BY <2>1, LeastNumber
  <2>   QED  BY <2>2 DEF Min
<1>5. StopOf(n) \in n + 1..L + 1 /\ \A m \in n..StopOf(n) - 1 : m \in 1..L /\ text[m] # Space
  <2>   DEFINE stop == StopOf(n)
  <2>1. stop \in n..L + 1 /\ (stop > L \/ text[stop] = Space)
        BY <1>4
  <2>2. \A m \in n..L + 1 : m > L \/ text[m] = Space => stop <= m
        BY <1>4
  <2>   HIDE DEF stop
  <2>3. stop # n
        BY <1>1, <1>2, <2>1
  <2>4. stop \in n + 1..L + 1
        BY <1>1, <2>1, <2>3
  <2>5. ASSUME NEW m \in n..stop - 1 PROVE m \in 1..L /\ text[m] # Space
    <3>1. m \in n..L + 1 /\ m \in 1..L /\ ~(stop <= m) /\ ~(m > L)
          BY <1>1, <2>4
    <3>   QED  BY <2>2, <3>1
  <2>   QED  BY <2>4, <2>5 DEF stop
<1>   DEFINE stop == StopOf(n)
<1>   HIDE DEF StopOf
<1>6. /\ Len(Piece(n)) = stop - n /\ Len(Piece(n)) \in Nat \ {0}
      /\ Piece(n)[1] = text[n] /\ Piece(n) # <<>>
      /\ \A m \in 1..stop - n : Piece(n)[m] = text[n + m - 1]
  <2>1. stop \in n + 1..L + 1
        BY <1>5
  <2>   HIDE DEF stop
  <2>2. Len(SubSeq(text, n, stop - 1)) = stop - n
        BY <1>1, <2>1
  <2>3. \A m \in 1..stop - n : SubSeq(text, n, stop - 1)[m] = text[n + m - 1]
        BY <1>1, <2>1
  <2>4. stop - n \in Nat \ {0} /\ 1 \in 1..stop - n /\ n + 1 - 1 = n
        BY <1>1, <2>1
  <2>5. Piece(n) = SubSeq(text, n, stop - 1)
        BY DEF stop
  <2>   HIDE DEF Piece
  <2>6. Len(Piece(n)) = stop - n /\ \A m \in 1..stop - n : Piece(n)[m] = text[n + m - 1]
        BY <2>2, <2>3, <2>5, Zenon
  <2>7. Piece(n)[1] = text[n]
        BY <2>4, <2>6
  <2>8. Piece(n) # <<>>
        BY <2>4, <2>6
  <2>   QED  BY <2>4, <2>6, <2>7, <2>8
<1>7. CASE stop > L
  <2>1. Len(Piece(n)) = 1
    <3>1. SUFFICES ASSUME stop # n + 1 PROVE FALSE
      <4>   HIDE DEF Piece
      <4>   QED  BY <1>5, <1>6
    <3>2. n + 1 \in n..stop - 1 /\ n + 1 \in 1..L /\ n + 1 \in DOMAIN text \ {1}
          /\ (n + 1) - 1 = n
          BY <1>1, <1>5, <3>1
    <3>3. text[n + 1] = Comma
          BY <1>2, <1>5, <3>2 DEF IsText
    <3>4. n + 1 < L /\ text[n + 1 + 1] = Space
          BY <1>1, <3>2, <3>3 DEF Tidy
    <3>5. n + 1 + 1 \in n..stop - 1
          BY <1>1, <1>5, <1>7, <3>4
    <3>   QED  BY <1>5, <3>4, <3>5
  <2>2. Rest(Piece(n)) = text[n]
        BY <1>6, <2>1
  <2>3. text # <<>>
        BY <1>1
  <2>   HIDE DEF starts, Piece, Rest
  <2>4. text[n] \in {IF StopOf(m) > L THEN Rest(Piece(m)) ELSE Cut(Piece(m)) : m \in starts}
        BY <1>3, <1>7, <2>2
  <2>   QED  BY <2>3, <2>4 DEF string_to_vector, starts, Piece, Rest, StopOf
<1>8. CASE ~(stop > L)
  <2>1. Cut(Piece(n)) = text[n]
        BY <1>2, <1>6
  <2>3. text # <<>>
        BY <1>1
  <2>   HIDE DEF starts, Piece, Cut
  <2>4. text[n] \in {IF StopOf(m) > L THEN Rest(Piece(m)) ELSE Cut(Piece(m)) : m \in starts}
        BY <1>3, <1>8, <2>1
  <2>   QED  BY <2>3, <2>4 DEF string_to_vector, starts, Piece, Cut, StopOf
<1>   QED  BY <1>7, <1>8

LEMMA VectorFinite ==
    ASSUME NEW text \in Seq(Seq(STRING))
    PROVE  IsFiniteSet(string_to_vector(text))
<1>   DEFINE L == Len(text)
             starts == {1} \cup {n + 1 : n \in {k \in DOMAIN text : text[k] = Space}}
             StopOf(n) == Min({m \in n..L + 1 : m > L \/ text[m] = Space})
             Piece(n) == SubSeq(text, n, StopOf(n) - 1)
             Cut(piece) == IF piece = <<>> \/ piece[1] = Comma THEN <<>> ELSE piece[1]
             Rest(piece) == IF Len(piece) = 1 THEN piece[1] ELSE FlattenSeq(piece)
             f == [n \in starts |-> IF StopOf(n) > L THEN Rest(Piece(n)) ELSE Cut(Piece(n))]
<1>1. L \in Nat /\ DOMAIN text = 1..L
      BY LenProperties
<1>2. starts \in SUBSET (1..L + 1)
  <2>1. \A k \in DOMAIN text : k + 1 \in 1..L + 1
        BY <1>1
  <2>2. 1 \in 1..L + 1
        BY <1>1
  <2>   DEFINE after == {n + 1 : n \in {k \in DOMAIN text : text[k] = Space}}
  <2>3. after \in SUBSET (1..L + 1)
        BY <2>1, Zenon
  <2>4. starts = {1} \cup after
        OBVIOUS
  <2>   HIDE DEF after, starts, L
  <2>   QED  BY <2>2, <2>3, <2>4
<1>3. IsFiniteSet(starts)
  <2>   HIDE DEF starts, L
  <2>1. IsFiniteSet(1..L + 1)
        BY <1>1, FS_Interval
  <2>   QED  BY <1>2, <2>1, FS_Subset
<1>4. IsFiniteSet({f[n] : n \in starts})
  <2>   HIDE DEF f, starts
  <2>   QED  BY <1>3, FiniteImage
<1>5. {f[n] : n \in starts} =
          {IF StopOf(n) > L THEN Rest(Piece(n)) ELSE Cut(Piece(n)) : n \in starts}
  <2>   HIDE DEF starts, StopOf, Rest, Cut, Piece
  <2>   QED  OBVIOUS
<1>6. IsFiniteSet({IF StopOf(n) > L THEN Rest(Piece(n)) ELSE Cut(Piece(n)) : n \in starts})
  <2>   HIDE DEF f, starts, StopOf, Rest, Cut, Piece
  <2>   QED  BY <1>4, <1>5
<1>   QED  BY <1>6, FS_EmptySet DEF string_to_vector

\* A name that is put at the end of a text is in it, with all that was there.
JoinedTo(text, y, x) == IF text = <<>> THEN <<x>> ELSE text \o <<y, x>>

JoinedWell(A, text, y, x) ==
    /\ JoinedTo(text, y, x) \in Seq(A)
    /\ \E n \in DOMAIN JoinedTo(text, y, x) : JoinedTo(text, y, x)[n] = x
    /\ \A k \in DOMAIN text :
          \E n \in DOMAIN JoinedTo(text, y, x) : JoinedTo(text, y, x)[n] = text[k]

LEMMA JoinedHas ==
    ASSUME NEW A, NEW x \in A, NEW y \in A, NEW text \in Seq(A)
    PROVE  JoinedWell(A, text, y, x)
<1>   DEFINE joined == JoinedTo(text, y, x)
<1>0. joined = IF text = <<>> THEN <<x>> ELSE text \o <<y, x>>
      BY DEF JoinedTo
<1>   HIDE DEF joined
<1>   SUFFICES /\ joined \in Seq(A)
               /\ \E n \in DOMAIN joined : joined[n] = x
               /\ \A k \in DOMAIN text : \E n \in DOMAIN joined : joined[n] = text[k]
      BY DEF joined, JoinedWell
<1>1. CASE text = <<>>
  <2>1. joined = <<x>> /\ joined \in Seq(A)
        BY <1>0, <1>1, OneElement
  <2>2. 1 \in DOMAIN joined /\ joined[1] = x
        BY <2>1
  <2>3. DOMAIN text = {}
        BY <1>1
  <2>   QED  BY <2>1, <2>2, <2>3
<1>2. CASE text # <<>>
  <2>   DEFINE L == Len(text)
             tail == <<y, x>>
  <2>1. /\ tail \in Seq(A) /\ Len(tail) = 2 /\ tail[2] = x /\ joined = text \o tail
        /\ L \in Nat /\ DOMAIN text = 1..L
        BY <1>0, <1>2, LenProperties
  <2>   HIDE DEF tail
  <2>2. /\ joined \in Seq(A) /\ Len(joined) = L + Len(tail)
        /\ \A n \in 1..L + Len(tail) : joined[n] = IF n <= L THEN text[n] ELSE tail[n - L]
    <3>1. /\ text \o tail \in Seq(A) /\ Len(text \o tail) = L + Len(tail)
          /\ \A n \in 1..L + Len(tail) : (text \o tail)[n] = IF n <= L THEN text[n] ELSE tail[n - L]
          BY <2>1, ConcatProperties
    <3>   HIDE DEF L
    <3>   QED  BY <2>1, <3>1, Zenon
  <2>3. joined \in Seq(A) /\ DOMAIN joined = 1..L + 2
    <3>1. DOMAIN joined = 1..Len(joined)
          BY <2>2, LenProperties
    <3>   HIDE DEF L
    <3>   QED  BY <2>1, <2>2, <3>1
  <2>   HIDE DEF L
  <2>4. L + 2 \in 1..L + 2 /\ L + 2 - L = 2 /\ ~(L + 2 <= L)
        /\ \A k \in 1..L : k \in 1..L + 2 /\ k <= L
        BY <2>1
  <2>5. joined[L + 2] = x
        BY <2>1, <2>2, <2>4
  <2>6. \A k \in 1..L : joined[k] = text[k]
        BY <2>1, <2>2, <2>4
  <2>   QED  BY <2>1, <2>3, <2>4, <2>5, <2>6
<1>   QED  BY <1>1, <1>2

\* Every name in the list of all types is in the text that LDAP is asked with.
LEMMA TextHas ==
    ASSUME IsFiniteSet(scim_variables_of["all"]), NEW name \in scim_variables_of["all"]
    PROVE  \E n \in DOMAIN ldap_attrs : ldap_attrs[n] = LdapName(name)
<1>   DEFINE S == {LdapName(v) : v \in scim_variables_of["all"]}
             A == Seq(S \cup {Comma})
             Joined(x, text) == IF text = <<>> THEN <<x>> ELSE text \o <<Comma, x>>
             g == [p \in S \X A |-> Joined(p[1], p[2])]
             Iter(it) == it = [s \in SUBSET S |->
                                  IF s = {} THEN <<>>
                                  ELSE LET x == CHOOSE y \in s : TRUE IN Joined(x, it[s \ {x}])]
             iter == CHOOSE it : Iter(it)
             R == {s \in SUBSET S :
                      iter[s] \in A /\ \A y \in s : \E n \in DOMAIN iter[s] : iter[s][n] = y}
<1>1. IsFiniteSet(S)
  <2>   DEFINE f == [v \in scim_variables_of["all"] |-> LdapName(v)]
  <2>1. S = {f[v] : v \in scim_variables_of["all"]}
        OBVIOUS
  <2>   HIDE DEF S, f
  <2>   QED  BY <2>1, FiniteImage
<1>2. ldap_attrs = iter[S]
      BY DEF ldap_attrs, FoldSet, MapThenFoldSet
<1>3. ASSUME NEW x \in S, NEW text \in A
      PROVE  /\ Joined(x, text) \in A
             /\ \E n \in DOMAIN Joined(x, text) : Joined(x, text)[n] = x
             /\ \A k \in DOMAIN text : \E n \in DOMAIN Joined(x, text) : Joined(x, text)[n] = text[k]
  <2>   DEFINE B == S \cup {Comma}
  <2>1. x \in B /\ Comma \in B /\ text \in Seq(B)
        OBVIOUS
  <2>2. Joined(x, text) = JoinedTo(text, Comma, x)
        BY DEF JoinedTo
  <2>   HIDE DEF S, B, Joined
  <2>3. /\ JoinedTo(text, Comma, x) \in Seq(B)
        /\ \E n \in DOMAIN JoinedTo(text, Comma, x) : JoinedTo(text, Comma, x)[n] = x
        /\ \A k \in DOMAIN text :
              \E n \in DOMAIN JoinedTo(text, Comma, x) : JoinedTo(text, Comma, x)[n] = text[k]
    <3>1. JoinedWell(B, text, Comma, x)
          BY <2>1, JoinedHas
    <3>   QED  BY <3>1 DEF JoinedWell
  <2>4. Joined(x, text) \in Seq(B)
        BY <2>2, <2>3
  <2>5. /\ \E n \in DOMAIN Joined(x, text) : Joined(x, text)[n] = x
        /\ \A k \in DOMAIN text : \E n \in DOMAIN Joined(x, text) : Joined(x, text)[n] = text[k]
        BY <2>2, <2>3, Zenon
  <2>   QED  BY <2>4, <2>5 DEF B
<1>4. <<>> \in A
      BY EmptySeq
<1>   HIDE DEF S, A, Joined
<1>5. g \in [S \X A -> A]
      BY <1>3
<1>6. PICK it \in [SUBSET S -> A] : FoldsOver(it, S, <<>>, g)
  <2>   HIDE DEF g
  <2>   QED  BY <1>1, <1>4, <1>5, FoldSetExists
<1>7. Iter(it)
  <2>1. ASSUME NEW s \in SUBSET S
        PROVE  it[s] = IF s = {} THEN <<>>
                       ELSE LET x == CHOOSE y \in s : TRUE IN Joined(x, it[s \ {x}])
    <3>   DEFINE x == CHOOSE y \in s : TRUE
                 t == s \ {x}
    <3>1. it[s] = IF s = {} THEN <<>> ELSE g[<<x, it[t]>>]
          BY <1>6 DEF FoldsOver, ChosenOf
    <3>2. ASSUME s # {} PROVE g[<<x, it[t]>>] = Joined(x, it[t])
      <4>1. x \in S
            BY <3>2
      <4>2. t \in SUBSET S
            OBVIOUS
      <4>   HIDE DEF x, t
      <4>3. it[t] \in A
            BY <4>2
      <4>   QED  BY <4>1, <4>3
    <3>   HIDE DEF g
    <3>   QED  BY <3>1, <3>2
  <2>2. it = [s \in SUBSET S |-> it[s]]
        OBVIOUS
  <2>   QED  BY <2>1, <2>2
<1>8. Iter(iter)
  <2>   HIDE DEF Iter
  <2>   QED  BY <1>7
<1>   HIDE DEF iter
<1>9. ASSUME NEW s \in SUBSET S
      PROVE  iter[s] = IF s = {} THEN <<>> ELSE Joined(ChosenOf(s), iter[s \ {ChosenOf(s)}])
      BY <1>8 DEF ChosenOf
<1>10. {} \in R
      BY <1>4, <1>9
<1>11. ASSUME NEW s \in SUBSET S, s # {}, s \ {ChosenOf(s)} \in R PROVE s \in R
  <2>   DEFINE x == ChosenOf(s)
               text == iter[s \ {ChosenOf(s)}]
  <2>1. x \in s /\ x \in S
        BY <1>11 DEF ChosenOf
  <2>2. text \in A /\ \A y \in s \ {x} : \E n \in DOMAIN text : text[n] = y
        BY <1>11
  <2>3. iter[s] = Joined(x, text)
        BY <1>9, <1>11
  <2>   HIDE DEF x, text
  <2>4. /\ iter[s] \in A
        /\ \E n \in DOMAIN iter[s] : iter[s][n] = x
        /\ \A k \in DOMAIN text : \E n \in DOMAIN iter[s] : iter[s][n] = text[k]
        BY <1>3, <2>1, <2>2, <2>3
  <2>5. \A y \in s : \E n \in DOMAIN iter[s] : iter[s][n] = y
        BY <2>2, <2>4
  <2>   QED  BY <2>4, <2>5
<1>12. S \in R
  <2>   HIDE DEF R
  <2>1. \A s \in SUBSET S : s \in R
        BY <1>1, <1>10, <1>11, SetsUpTo
  <2>   QED  BY <2>1
<1>13. LdapName(name) \in S
      BY DEF S
<1>   QED  BY <1>2, <1>12, <1>13

\* Types that are loaded are types that settings speak of.
LEMMA OrderIs ==
    /\ Len(TypeOrder) \in Nat
    /\ \A k \in 1..Len(TypeOrder) : TypeOrder[k] \in Range(TypeOrder)
    /\ \A t \in Range(TypeOrder) :
          t \in ListTypes /\ \E k \in 1..Len(TypeOrder) : TypeOrder[k] = t
<1>1. /\ Len(TypeOrder) \in Nat /\ DOMAIN TypeOrder = 1..Len(TypeOrder)
      /\ TypeOrder \in Seq(ListTypes)
      BY ListAssumption, LenProperties
<1>2. \A k \in 1..Len(TypeOrder) : TypeOrder[k] \in ListTypes
      BY <1>1, ElementOfSeq
<1>   QED  BY <1>1, <1>2 DEF Range

\* The names that a type uses: finitely many, none of them empty.
LEMMA NamesOfIs ==
    ASSUME NEW s \in ListSettings
    PROVE  /\ IsFiniteSet(NamesOf(s))
           /\ <<>> \notin NamesOf(s) /\ <<"">> \notin NamesOf(s)
           /\ \A name \in s.used \cup s.transformed : name \in NamesOf(s)
           /\ Tidy(s.hidden) => Listed(s.hidden) \subseteq NamesOf(s)
           /\ \A n \in DOMAIN s.relations :
                 s.relations[n].local_attribute # "" => <<s.relations[n].local_attribute>> \in NamesOf(s)
<1>   DEFINE local == [n \in DOMAIN s.relations |-> <<s.relations[n].local_attribute>>]
             locals == {local[n] : n \in DOMAIN s.relations}
             all == s.used \cup string_to_vector(s.hidden) \cup s.transformed \cup locals
<1>1. /\ IsFiniteSet(s.used) /\ IsFiniteSet(s.transformed)
      /\ \A name \in s.used \cup s.transformed : IsName(name)
      /\ s.hidden \in Seq(Seq(STRING)) /\ IsText(s.hidden)
      /\ IsFiniteSet(DOMAIN s.relations)
      BY SettingsAre
<1>2. NamesOf(s) = all \ {<<>>, <<"">>}
  <2>1. locals = {<<s.relations[n].local_attribute>> : n \in DOMAIN s.relations}
        OBVIOUS
  <2>   HIDE DEF locals
  <2>   QED  BY <2>1 DEF NamesOf
<1>3. IsFiniteSet(locals)
  <2>   HIDE DEF local
  <2>   QED  BY <1>1, FiniteImage
<1>4. \A n \in DOMAIN s.relations : <<s.relations[n].local_attribute>> \in locals
      OBVIOUS
<1>5. IsFiniteSet(string_to_vector(s.hidden))
      BY <1>1, VectorFinite
<1>   HIDE DEF locals
<1>6. IsFiniteSet(all)
      BY <1>1, <1>3, <1>5, FS_Union
<1>7. ASSUME Tidy(s.hidden) PROVE Listed(s.hidden) \subseteq NamesOf(s)
  <2>1. Listed(s.hidden) \subseteq string_to_vector(s.hidden)
        BY <1>1, <1>7, VectorHas
  <2>2. \A name \in Listed(s.hidden) : IsName(name)
        BY <1>1 DEF Listed, IsText
  <2>3. \A name \in Listed(s.hidden) : name \notin {<<>>, <<"">>}
        BY <2>2, NamesAre
  <2>   QED  BY <1>2, <2>1, <2>3
<1>8. \A name \in s.used \cup s.transformed : name \notin {<<>>, <<"">>}
      BY <1>1, NamesAre
<1>9. \A x : x # "" => <<x>> \notin {<<>>, <<"">>}
  <2>1. \A x : <<x>>[1] = x /\ <<x>> # <<>>
        OBVIOUS
  <2>   QED  BY <2>1
<1>10. IsFiniteSet(NamesOf(s))
      BY <1>2, <1>6, FS_Difference
<1>   QED  BY <1>2, <1>4, <1>7, <1>8, <1>9, <1>10

LEMMA FiniteUnion ==
    ASSUME NEW S, IsFiniteSet(S), NEW f, \A x \in S : IsFiniteSet(f[x])
    PROVE  IsFiniteSet(UNION {f[x] : x \in S})
<1>1. IsFiniteSet({f[x] : x \in S})
      BY FiniteImage
<1>   QED  BY <1>1, FS_UNION

\* What the settings of a type give to the lists: its names to its own and to
\* that of all types, each other type what it is related by.
LEMMA TemplateGives ==
    ASSUME settings \in [Range(TypeOrder) -> ListSettings], NEW type \in Range(TypeOrder)
    PROVE  /\ IsFiniteSet(load_template_of(type, "all"))
           /\ NamesOf(settings[type]) \subseteq load_template_of(type, type)
           /\ NamesOf(settings[type]) \subseteq load_template_of(type, "all")
           /\ \A name \in NamesOf(settings[type]) :
                 IsName(name) /\ Len(name) = 2 =>
                     <<name[2]>> \in load_template_of(type, name[1])
           /\ \A n \in DOMAIN settings[type].relations :
                 LET r == settings[type].relations[n]
                 IN  /\ <<r.remote_attribute>> \in load_template_of(type, r.type)
                     /\ <<r.remote_attribute>> \in load_template_of(type, "all")
<1>   DEFINE s == settings[type]
             needs(list) == UNION {RelationNeeds(s.relations[n], list) : n \in DOMAIN s.relations}
             keys(list) == UNION {ForeignKey(name, list) : name \in NamesOf(s)}
             own(list) == IF list \in {type, "all"} THEN NamesOf(s) ELSE {}
<1>1. s \in ListSettings
      OBVIOUS
<1>2. \A list : load_template_of(type, list) = needs(list) \cup keys(list) \cup own(list)
      BY DEF load_template_of
<1>3. ASSUME NEW name \in NamesOf(s), IsName(name), Len(name) = 2
      PROVE  <<name[2]>> \in keys(name[1])
  <2>1. ~HasComma(name)
        BY <1>3, NamesAre
  <2>2. <<name[2]>> \in ForeignKey(name, name[1])
        BY <1>3, <2>1 DEF ForeignKey
  <2>   QED  BY <2>2
<1>4. ASSUME NEW n \in DOMAIN s.relations, NEW list \in {s.relations[n].type, "all"}
      PROVE  <<s.relations[n].remote_attribute>> \in needs(list)
  <2>1. <<s.relations[n].remote_attribute>> \in RelationNeeds(s.relations[n], list)
        BY DEF RelationNeeds
  <2>   QED  BY <2>1
<1>5. IsFiniteSet(needs("all"))
  <2>   DEFINE f == [n \in DOMAIN s.relations |-> RelationNeeds(s.relations[n], "all")]
               D == DOMAIN s.relations
  <2>1. needs("all") = UNION {f[n] : n \in D}
        OBVIOUS
  <2>2. \A n \in D : IsFiniteSet(f[n])
    <3>1. \A n \in D : f[n] = {<<s.relations[n].remote_attribute>>}
          BY DEF RelationNeeds
    <3>   HIDE DEF f
    <3>   QED  BY <3>1, FS_Singleton
  <2>3. IsFiniteSet(D)
        BY <1>1, SettingsAre
  <2>   HIDE DEF f, D, needs
  <2>   QED  BY <2>1, <2>2, <2>3, FiniteUnion
<1>6. IsFiniteSet(NamesOf(s))
      BY <1>1, NamesOfIs
<1>7. IsFiniteSet(keys("all"))
  <2>   DEFINE f == [name \in NamesOf(s) |-> ForeignKey(name, "all")]
               D == NamesOf(s)
  <2>1. keys("all") = UNION {f[name] : name \in D}
        OBVIOUS
  <2>2. \A name \in D : IsFiniteSet(f[name])
    <3>1. \A name \in D : f[name] = {} \/ f[name] = {<<name[2]>>}
      <4>1. \A name : ForeignKey(name, "all") = {} \/ ForeignKey(name, "all") = {<<name[2]>>}
            BY DEF ForeignKey
      <4>2. \A name \in D : f[name] = ForeignKey(name, "all")
            OBVIOUS
      <4>   HIDE DEF f
      <4>   QED  BY <4>1, <4>2, Zenon
    <3>   HIDE DEF f
    <3>2. \A x : IsFiniteSet({x})
          BY FS_Singleton
    <3>   QED  BY <3>1, <3>2, FS_EmptySet
  <2>   HIDE DEF f, keys
  <2>   QED  BY <1>6, <2>1, <2>2, FiniteUnion
<1>8. own("all") = NamesOf(s) /\ own(type) = NamesOf(s)
      OBVIOUS
<1>   HIDE DEF needs, keys, own
<1>9. IsFiniteSet(load_template_of(type, "all"))
  <2>1. \A S, T : IsFiniteSet(S) /\ IsFiniteSet(T) => IsFiniteSet(S \cup T)
        BY FS_Union, Zenon
  <2>2. IsFiniteSet(needs("all") \cup keys("all"))
        BY <1>5, <1>7, <2>1, Zenon
  <2>3. IsFiniteSet((needs("all") \cup keys("all")) \cup own("all"))
        BY <1>6, <1>8, <2>1, <2>2, Zenon
  <2>   QED  BY <1>2, <2>3, Zenon
<1>   QED  BY <1>2, <1>3, <1>4, <1>8, <1>9

\* What is in the lists stays there.
LEMMA AreListedStays ==
    ASSUME ListsTyped, settings' = settings, NEW t \in Range(TypeOrder), AreListed(t),
           \A list \in ListTypes \cup {"all"} : scim_variables_of[list] \subseteq scim_variables_of'[list]
    PROVE  AreListed(t)'
<1>   DEFINE s == settings[t]
<1>1. t \in ListTypes /\ s \in ListSettings
      BY OrderIs DEF ListsTyped
<1>2. \A name \in NamesOf(s) : IsName(name) /\ Len(name) = 2 => name[1] \in ListTypes
      BY NamesAre
<1>3. \A n \in DOMAIN s.relations : s.relations[n].type \in ListTypes
      BY <1>1, SettingsAre
<1>   DEFINE old == scim_variables_of
             new == scim_variables_of'
<1>4. /\ NamesOf(s) \subseteq old[t] \cap old["all"]
      /\ \A name \in NamesOf(s) : IsName(name) /\ Len(name) = 2 => <<name[2]>> \in old[name[1]]
      /\ \A n \in DOMAIN s.relations :
            <<s.relations[n].remote_attribute>> \in
                (old[s.relations[n].type] \cap old["all"]) \cup {<<"">>}
      BY DEF AreListed
<1>5. \A list \in ListTypes \cup {"all"} : old[list] \subseteq new[list]
      OBVIOUS
<1>   HIDE DEF old, new, s
<1>6. /\ NamesOf(s) \subseteq new[t] \cap new["all"]
      /\ \A name \in NamesOf(s) : IsName(name) /\ Len(name) = 2 => <<name[2]>> \in new[name[1]]
      /\ \A n \in DOMAIN s.relations :
            <<s.relations[n].remote_attribute>> \in
                (new[s.relations[n].type] \cap new["all"]) \cup {<<"">>}
  <2>1. NamesOf(s) \subseteq new[t] \cap new["all"]
        BY <1>1, <1>4, <1>5
  <2>2. ASSUME NEW name \in NamesOf(s), IsName(name), Len(name) = 2
        PROVE  <<name[2]>> \in new[name[1]]
    <3>1. name[1] \in ListTypes
          BY <1>2, <2>2
    <3>2. <<name[2]>> \in old[name[1]]
          BY <1>4, <2>2
    <3>   QED  BY <1>5, <3>1, <3>2
  <2>3. ASSUME NEW n \in DOMAIN s.relations
        PROVE  <<s.relations[n].remote_attribute>> \in
                   (new[s.relations[n].type] \cap new["all"]) \cup {<<"">>}
    <3>1. s.relations[n].type \in ListTypes
          BY <1>3
    <3>2. <<s.relations[n].remote_attribute>> \in
              (old[s.relations[n].type] \cap old["all"]) \cup {<<"">>}
          BY <1>4
    <3>   QED  BY <1>5, <3>1, <3>2
  <2>   QED  BY <2>1, <2>2, <2>3
<1>   QED  BY <1>6 DEF AreListed, s, new

LEMMA ListsInitially == ListsInit => ListsInv
<1>   SUFFICES ASSUME ListsInit PROVE ListsInv
      OBVIOUS
<1>1. Len(TypeOrder) \in Nat
      BY OrderIs
<1>2. ListsTyped
  <2>1. scim_variables_of["all"] = {} /\ DOMAIN scim_variables_of = ListTypes \cup {"all"}
        BY DEF ListsInit, NoLists
  <2>2. next \in 1..Len(TypeOrder) + 1
        BY <1>1 DEF ListsInit
  <2>   QED  BY <2>1, <2>2, FS_EmptySet DEF ListsInit, ListsTyped
<1>3. loadingLists = "templates" /\ 1..next - 1 = {}
      BY DEF ListsInit
<1>   QED  BY <1>2, <1>3 DEF ListsInv

\* The lists only grow, by what is added and is not empty.
LEMMA LoadTemplatesKeeps ==
    ASSUME ListsInv, load_templates
    PROVE  ListsInv'
<1>   DEFINE type == TypeOrder[next]
             added(list) == load_template_of(type, list)
             Named == ListTypes \cup {"all"}
             Empty == {<<>>, <<"">>}
             old == scim_variables_of
             new == scim_variables_of'
<1>1. /\ ListsTyped /\ DOMAIN old = Named /\ settings \in [Range(TypeOrder) -> ListSettings]
      /\ \A k \in 1..next - 1 : AreListed(TypeOrder[k])
      BY DEF ListsInv, ListsTyped
<1>2. /\ loadingLists' = "templates" /\ settings' = settings /\ generate_from' = generate_from
      /\ next' = next + 1 /\ next \in 1..Len(TypeOrder) /\ Len(TypeOrder) \in Nat
      BY OrderIs DEF load_templates, ListsInv, ListsTyped
<1>3. type \in Range(TypeOrder) /\ type \in ListTypes
      BY <1>2, OrderIs
<1>4. new = [list \in Named |-> old[list] \cup
                ([l \in DOMAIN old |-> added(l)][list] \ Empty)]
      BY <1>1 DEF load_templates, add_variables
<1>5. DOMAIN new = Named /\ \A list \in Named : new[list] = old[list] \cup (added(list) \ Empty)
      BY <1>1, <1>4
<1>6. IsFiniteSet(new["all"])
  <2>1. IsFiniteSet(old["all"])
        BY <1>1 DEF ListsTyped
  <2>2. IsFiniteSet(added("all"))
        BY <1>1, <1>3, TemplateGives
  <2>   HIDE DEF new, old, added, Empty
  <2>3. IsFiniteSet(added("all") \ Empty)
        BY <2>2, FS_Difference
  <2>4. new["all"] = old["all"] \cup (added("all") \ Empty)
        BY <1>5
  <2>5. IsFiniteSet(old["all"] \cup (added("all") \ Empty))
        BY <2>1, <2>3, FS_Union
  <2>   QED  BY <2>4, <2>5, Zenon
<1>7. ListsTyped'
  <2>1. next' \in 1..Len(TypeOrder) + 1
        BY <1>2
  <2>2. /\ settings' \in [Range(TypeOrder) -> ListSettings] /\ generate_from' \in GeneratedFrom
        /\ loadingLists' \in {"templates", "ldap", "done", "failed"}
    <3>   HIDE DEF type, added, new
    <3>   QED  BY <1>1, <1>2 DEF ListsTyped
  <2>3. DOMAIN new = ListTypes \cup {"all"}
    <3>   HIDE DEF new
    <3>   QED  BY <1>5
  <2>   QED  BY <1>6, <2>1, <2>2, <2>3, Zenon DEF ListsTyped
<1>8. ASSUME NEW t, t = type PROVE AreListed(t)'
  <2>   DEFINE s == settings[type]
  <2>1. /\ NamesOf(s) \subseteq added(type)
        /\ NamesOf(s) \subseteq added("all")
        /\ \A name \in NamesOf(s) :
              IsName(name) /\ Len(name) = 2 => <<name[2]>> \in added(name[1])
        /\ \A n \in DOMAIN s.relations :
              LET r == s.relations[n]
              IN  <<r.remote_attribute>> \in added(r.type) /\ <<r.remote_attribute>> \in added("all")
        BY <1>1, <1>3, TemplateGives
  <2>2. s \in ListSettings
        BY <1>1, <1>3
  <2>3. /\ <<>> \notin NamesOf(s) /\ <<"">> \notin NamesOf(s)
        BY <2>2, NamesOfIs
  <2>4. \A n \in DOMAIN s.relations : s.relations[n].type \in ListTypes
        BY <2>2, SettingsAre
  <2>5. \A x : <<x>> # <<>>
        OBVIOUS
  <2>   HIDE DEF new, old, added, s, type
  <2>6. NamesOf(s) \subseteq new[type] \cap new["all"]
        BY <1>3, <1>5, <2>1, <2>3
  <2>7. ASSUME NEW name \in NamesOf(s), IsName(name), Len(name) = 2
        PROVE  <<name[2]>> \in new[name[1]]
    <3>1. name[1] \in ListTypes /\ <<name[2]>> \notin Empty
          BY <2>7, NamesAre
    <3>2. <<name[2]>> \in added(name[1])
          BY <2>1, <2>7
    <3>   HIDE DEF Empty
    <3>   QED  BY <1>5, <3>1, <3>2
  <2>8. ASSUME NEW n \in DOMAIN s.relations
        PROVE  <<s.relations[n].remote_attribute>> \in
                   (new[s.relations[n].type] \cap new["all"]) \cup {<<"">>}
    <3>   DEFINE x == <<s.relations[n].remote_attribute>>
                 u == s.relations[n].type
    <3>1. u \in ListTypes /\ x \in added(u) /\ x \in added("all") /\ x # <<>>
          BY <2>1, <2>4, <2>5
    <3>   HIDE DEF x, u
    <3>2. new[u] = old[u] \cup (added(u) \ Empty) /\ new["all"] = old["all"] \cup (added("all") \ Empty)
          BY <1>5, <3>1
    <3>3. x \in Empty => x = <<"">>
          BY <3>1
    <3>   HIDE DEF Empty
    <3>4. x \in (new[u] \cap new["all"]) \cup {<<"">>}
          BY <3>1, <3>2, <3>3
    <3>   QED  BY <3>4 DEF x, u
  <2>9. settings'[t] = s
        BY <1>2, <1>8 DEF s
  <2>10. NamesOf(s) \subseteq new[t] \cap new["all"]
        BY <1>8, <2>6
  <2>   QED  BY <2>7, <2>8, <2>9, <2>10 DEF AreListed, new
<1>9. ASSUME NEW k \in 1..next PROVE AreListed(TypeOrder[k])'
  <2>1. CASE k = next
        BY <1>8, <2>1
  <2>2. CASE k # next
    <3>1. k \in 1..next - 1 /\ k \in 1..Len(TypeOrder)
          BY <1>2, <2>2
    <3>2. TypeOrder[k] \in Range(TypeOrder) /\ AreListed(TypeOrder[k])
          BY <1>1, <3>1, OrderIs
    <3>3. \A list \in Named : old[list] \subseteq new[list]
      <4>   HIDE DEF new, old, added, Named
      <4>   QED  BY <1>5
    <3>   QED  BY <1>1, <1>2, <3>2, <3>3, AreListedStays
  <2>   QED  BY <2>1, <2>2
<1>10. 1..next' - 1 = 1..next
      BY <1>2
<1>   HIDE DEF new, old, added, type
<1>   QED  BY <1>2, <1>7, <1>9, <1>10 DEF ListsInv

LEMMA VirtualGroupsKeep ==
    ASSUME ListsInv, add_scim_vars_for_virtual_groups
    PROVE  ListsInv'
<1>   DEFINE types == generate_from.types
             from == generate_from.from
             added(list) == IF list \in types \/ (list = "all" /\ types # {}) THEN from ELSE {}
             Named == ListTypes \cup {"all"}
             Empty == {<<>>, <<"">>}
             old == scim_variables_of
             new == scim_variables_of'
<1>1. /\ ListsTyped /\ DOMAIN old = Named /\ settings \in [Range(TypeOrder) -> ListSettings]
      /\ \A k \in 1..next - 1 : AreListed(TypeOrder[k])
      /\ generate_from \in GeneratedFrom /\ IsFiniteSet(old["all"])
      /\ next \in 1..Len(TypeOrder) + 1
      BY DEF ListsInv, ListsTyped
<1>2. /\ loadingLists' = "ldap" /\ settings' = settings /\ generate_from' = generate_from
      /\ next' = next /\ next > Len(TypeOrder) /\ Len(TypeOrder) \in Nat
      BY OrderIs DEF add_scim_vars_for_virtual_groups
<1>3. next = Len(TypeOrder) + 1
      BY <1>1, <1>2
<1>4. /\ types \subseteq ListTypes /\ IsFiniteSet(from)
      /\ \A name \in from : IsName(name)
      BY <1>1, ListAssumption
<1>5. \A name \in from : name \notin Empty
      BY <1>4, NamesAre
<1>6. new = [list \in Named |-> old[list] \cup ([l \in DOMAIN old |-> added(l)][list] \ Empty)]
      BY <1>1 DEF add_scim_vars_for_virtual_groups, add_variables
<1>7. DOMAIN new = Named /\ \A list \in Named : new[list] = old[list] \cup (added(list) \ Empty)
      BY <1>1, <1>6
<1>8. \A list \in Named : old[list] \subseteq new[list]
  <2>   HIDE DEF new, old, added, Named
  <2>   QED  BY <1>7
<1>9. IsFiniteSet(new["all"])
  <2>1. IsFiniteSet(added("all"))
    <3>   HIDE DEF from, types
    <3>   QED  BY <1>4, FS_EmptySet
  <2>   HIDE DEF new, old, added, Empty
  <2>2. IsFiniteSet(added("all") \ Empty)
        BY <2>1, FS_Difference
  <2>3. new["all"] = old["all"] \cup (added("all") \ Empty)
        BY <1>7
  <2>4. IsFiniteSet(old["all"] \cup (added("all") \ Empty))
        BY <1>1, <2>2, FS_Union
  <2>   QED  BY <2>3, <2>4, Zenon
<1>10. ListsTyped'
  <2>1. next' \in 1..Len(TypeOrder) + 1
        BY <1>1, <1>2
  <2>2. /\ settings' \in [Range(TypeOrder) -> ListSettings] /\ generate_from' \in GeneratedFrom
        /\ loadingLists' \in {"templates", "ldap", "done", "failed"}
    <3>   HIDE DEF types, from, added, new
    <3>   QED  BY <1>1, <1>2
  <2>3. DOMAIN new = ListTypes \cup {"all"}
    <3>   HIDE DEF new
    <3>   QED  BY <1>7
  <2>   QED  BY <1>9, <2>1, <2>2, <2>3, Zenon DEF ListsTyped
<1>11. ASSUME NEW k \in 1..next' - 1 PROVE AreListed(TypeOrder[k])'
  <2>1. k \in 1..next - 1 /\ k \in 1..Len(TypeOrder)
        BY <1>2, <1>3
  <2>2. TypeOrder[k] \in Range(TypeOrder) /\ AreListed(TypeOrder[k])
        BY <1>1, <2>1, OrderIs
  <2>   QED  BY <1>1, <1>2, <1>8, <2>2, AreListedStays
<1>12. ASSUME NEW name \in from, NEW t \in types PROVE name \in new[t] \cap new["all"]
  <2>1. /\ name \notin Empty /\ added(t) = from /\ added("all") = from
        /\ t \in Named /\ "all" \in Named
        BY <1>4, <1>5, <1>12
  <2>   HIDE DEF new, old, added, Named, Empty, from, types
  <2>   QED  BY <1>7, <1>12, <2>1
<1>13. \A name \in generate_from'.from, t \in generate_from'.types :
           name \in scim_variables_of'[t] \cap scim_variables_of'["all"]
      BY <1>2, <1>12
<1>   HIDE DEF new, old, added
<1>   QED  BY <1>2, <1>3, <1>10, <1>11, <1>13 DEF ListsInv

\* What LDAP is asked for has all that is in the text.
LEMMA AskingKeeps ==
    ASSUME ListsInv, AskForAttributes
    PROVE  ListsInv'
<1>1. /\ ListsTyped
      /\ \A k \in 1..next - 1 : AreListed(TypeOrder[k])
      /\ next = Len(TypeOrder) + 1
      /\ \A name \in generate_from.from, t \in generate_from.types :
            name \in scim_variables_of[t] \cap scim_variables_of["all"]
      BY DEF ListsInv, AskForAttributes
<1>2. /\ UNCHANGED <<settings, generate_from, next, scim_variables_of>>
      /\ loadingLists' \in {"failed", "done"}
      /\ loadingLists' = "done" => attrs' # {}
      /\ attrs' = simplescim_ldap_attrs_parser(ldap_attrs)
      BY DEF AskForAttributes
<1>3. attrs' # {} => attrs' = Listed(ldap_attrs)
  <2>1. \A text : simplescim_ldap_attrs_parser(text) # {} =>
                      simplescim_ldap_attrs_parser(text) = Listed(text)
        BY DEF simplescim_ldap_attrs_parser
  <2>   QED  BY <1>2, <2>1, Zenon
<1>4. ASSUME loadingLists' = "done", NEW name \in scim_variables_of["all"]
      PROVE  LdapName(name) \in attrs' \cup {Comma, Space}
  <2>1. PICK n \in DOMAIN ldap_attrs : ldap_attrs[n] = LdapName(name)
        BY <1>1, <1>4, TextHas DEF ListsTyped
  <2>2. LdapName(name) \in Listed(ldap_attrs) \cup {Comma, Space}
        BY <2>1 DEF Listed
  <2>   QED  BY <1>2, <1>3, <1>4, <2>2, Zenon
<1>5. ListsTyped'
      BY <1>1, <1>2 DEF ListsTyped
<1>6. \A k \in 1..next' - 1 : AreListed(TypeOrder[k])'
      BY <1>1, <1>2 DEF AreListed
<1>   QED  BY <1>1, <1>2, <1>4, <1>5, <1>6 DEF ListsInv

LEMMA ListsPreserved == ListsInv /\ [ListsNext]_listVars => ListsInv'
<1>   SUFFICES ASSUME ListsInv, [ListsNext]_listVars PROVE ListsInv'
      OBVIOUS
<1>1. CASE load_templates
      BY <1>1, LoadTemplatesKeeps
<1>2. CASE TemplateFails
  <2>1. /\ UNCHANGED <<settings, generate_from, next, scim_variables_of, attrs>>
        /\ loadingLists' = "failed"
        BY <1>2 DEF TemplateFails
  <2>2. ListsTyped'
        BY <2>1 DEF ListsInv, ListsTyped
  <2>3. \A k \in 1..next' - 1 : AreListed(TypeOrder[k])'
        BY <2>1 DEF ListsInv, AreListed
  <2>   QED  BY <2>1, <2>2, <2>3 DEF ListsInv
<1>3. CASE add_scim_vars_for_virtual_groups
      BY <1>3, VirtualGroupsKeep
<1>4. CASE AskForAttributes
      BY <1>4, AskingKeeps
<1>5. CASE UNCHANGED listVars
  <2>1. UNCHANGED <<loadingLists, settings, generate_from, next, scim_variables_of, attrs>>
        BY <1>5 DEF listVars
  <2>2. ListsTyped'
        BY <2>1 DEF ListsInv, ListsTyped
  <2>3. \A k \in 1..next' - 1 : AreListed(TypeOrder[k])'
        BY <2>1 DEF ListsInv, AreListed
  <2>   QED  BY <2>1, <2>2, <2>3 DEF ListsInv
<1>   QED  BY <1>1, <1>2, <1>3, <1>4, <1>5 DEF ListsNext

LEMMA AllAreAsked == ListsInv => EveryAttributeIsAsked
<1>   SUFFICES ASSUME ListsInv, loadingLists = "done" PROVE EveryAttributeIsAsked
      BY DEF EveryAttributeIsAsked
<1>   DEFINE all == scim_variables_of["all"]
<1>1. /\ ListsTyped /\ next = Len(TypeOrder) + 1
      /\ \A k \in 1..next - 1 : AreListed(TypeOrder[k])
      /\ \A name \in generate_from.from, t \in generate_from.types :
            name \in scim_variables_of[t] \cap all
      /\ \A name \in all : LdapName(name) \in attrs \cup {Comma, Space}
      BY DEF ListsInv
<1>2. ASSUME NEW name \in all, IsName(name) PROVE <<name[Len(name)]>> \in attrs
  <2>1. LdapName(name) = <<name[Len(name)]>> /\ LdapName(name) \notin {Comma, Space}
        BY <1>2, NamesAre
  <2>   QED  BY <1>1, <2>1
<1>3. ASSUME NEW name \in all, IsName(name), Len(name) = 1 PROVE name \in attrs
  <2>1. <<name[1]>> = name
        BY <1>3, NamesAre
  <2>   QED  BY <1>2, <1>3, <2>1
<1>4. ASSUME NEW name \in generate_from.from, NEW t \in generate_from.types
      PROVE  name \in attrs /\ name \in scim_variables_of[t]
  <2>1. IsName(name) /\ Len(name) = 1
        BY <1>1, ListAssumption DEF ListsTyped
  <2>   QED  BY <1>1, <1>3, <2>1
<1>5. ASSUME NEW t \in Range(TypeOrder),
             NEW name \in settings[t].used \cup settings[t].transformed \cup
                              (IF Tidy(settings[t].hidden) THEN Listed(settings[t].hidden) ELSE {})
      PROVE  /\ <<name[Len(name)]>> \in attrs
             /\ name \in scim_variables_of[t]
             /\ Len(name) = 2 => <<name[2]>> \in scim_variables_of[name[1]]
  <2>   DEFINE s == settings[t]
  <2>1. s \in ListSettings /\ AreListed(t)
        BY <1>1, OrderIs DEF ListsTyped
  <2>2. /\ \A x \in s.used \cup s.transformed : IsName(x)
        /\ IsText(s.hidden)
        BY <2>1, SettingsAre
  <2>3. \A x \in Listed(s.hidden) : IsName(x)
        BY <2>2 DEF Listed, IsText
  <2>4. IsName(name)
        BY <2>2, <2>3
  <2>5. name \in NamesOf(s)
        BY <2>1, NamesOfIs
  <2>6. name \in scim_variables_of[t] \cap all
        BY <2>1, <2>5 DEF AreListed
  <2>7. Len(name) = 2 => <<name[2]>> \in scim_variables_of[name[1]]
        BY <2>1, <2>4, <2>5 DEF AreListed
  <2>   QED  BY <1>2, <2>4, <2>6, <2>7
<1>6. ASSUME NEW t \in Range(TypeOrder), NEW n \in DOMAIN settings[t].relations
      PROVE  LET r == settings[t].relations[n]
             IN  /\ {<<r.local_attribute>>, <<r.remote_attribute>>} \ {<<"">>} \subseteq attrs
                 /\ <<r.remote_attribute>> \in scim_variables_of[r.type] \cup {<<"">>}
  <2>   DEFINE s == settings[t]
               local == s.relations[n].local_attribute
               remote == s.relations[n].remote_attribute
  <2>1. s \in ListSettings /\ AreListed(t)
        BY <1>1, OrderIs DEF ListsTyped
  <2>2. IsAttribute(local) /\ IsAttribute(remote)
        BY <2>1, SettingsAre
  <2>3. \A x : IsAttribute(x) /\ <<x>> \in all => <<x>> \in attrs \cup {<<"">>}
    <3>1. \A x : Len(<<x>>) = 1
          OBVIOUS
    <3>2. ASSUME NEW x, IsAttribute(x), <<x>> \in all, x # "" PROVE <<x>> \in attrs
          BY <1>3, <3>1, <3>2 DEF IsAttribute
    <3>   QED  BY <3>2
  <2>4. <<local>> \in all \cup {<<"">>}
    <3>1. CASE local = ""
          BY <3>1
    <3>2. CASE local # ""
      <4>1. <<local>> \in NamesOf(s)
            BY <2>1, <3>2, NamesOfIs
      <4>   QED  BY <2>1, <4>1 DEF AreListed
    <3>   QED  BY <3>1, <3>2
  <2>5. <<remote>> \in (scim_variables_of[s.relations[n].type] \cap all) \cup {<<"">>}
        BY <2>1 DEF AreListed
  <2>   HIDE DEF all, local, remote
  <2>6. {<<local>>, <<remote>>} \ {<<"">>} \subseteq attrs
        BY <2>2, <2>3, <2>4, <2>5
  <2>7. <<remote>> \in scim_variables_of[s.relations[n].type] \cup {<<"">>}
        BY <2>5
  <2>   QED  BY <2>6, <2>7 DEF local, remote
<1>   QED  BY <1>4, <1>5, <1>6 DEF EveryAttributeIsAsked

\* For all settings, and whatever the types and the order in which they are
\* loaded, LDAP is asked for every attribute that a type uses, hides, transforms,
\* relates by or generates groups from, and a related type has the attributes that
\* others want of it (config_file::load_template, establish_relation,
\* simplescim_ldap_attrs_parser).
THEOREM EveryAttributeAsked == ListsSpec => []EveryAttributeIsAsked
<1>   QED  BY AllAreAsked, ListsInitially, ListsPreserved, PTL DEF ListsSpec

-----------------------------------------------------------------------------
\* Limiters.

LEMMA LimiterIs ==
    ASSUME NEW l, IsLimiter(l)
    PROVE  /\ Len(l) \in Nat \ {0} /\ DOMAIN l = 1..Len(l)
           /\ \A n \in 1..Len(l) :
                 /\ l[n].with = "not" => l[n].child \in 1..n - 1
                 /\ l[n].with \in {"and", "or"} => l[n].children \subseteq 1..n - 1
<1>1. l \in Seq(Range(l)) /\ l # <<>>
      BY DEF IsLimiter
<1>   DEFINE A == Range(l)
<1>   HIDE DEF A
<1>2. Len(l) \in Nat /\ DOMAIN l = 1..Len(l) /\ Len(l) # 0
  <2>1. l \in Seq(A)
        BY <1>1 DEF A
  <2>   QED  BY <1>1, <2>1
<1>   QED  BY <1>2 DEF IsLimiter

\* What is known of the parts of a limiter, one after the other.
IsPassing(f, l, obj) ==
    /\ f \in [0..Len(l) -> Seq(BOOLEAN)]
    /\ f[0] = <<>>
    /\ \A k \in 0..Len(l) - 1 : f[k + 1] = Append(f[k], Through(l[k + 1], f[k], obj))

LEMMA PassingExists ==
    ASSUME NEW l, IsLimiter(l), NEW obj
    PROVE  \E f : IsPassing(f, l, obj) /\ include(l, obj) = Last(f[Len(l)])
<1>   DEFINE n == Len(l)
             D == DOMAIN l
             A == Seq(BOOLEAN)
             Next(through, part) == Append(through, Through(part, through, obj))
             Iter(it) == it = [x \in SUBSET D |->
                                 IF x = {} THEN <<>> ELSE Next(it[x \ {Max(x)}], l[Max(x)])]
             iter == CHOOSE it : Iter(it)
<1>1. n \in Nat /\ D = 1..n
      BY LimiterIs
<1>2. include(l, obj) = Last(iter[D])
      BY DEF include, FoldLeft, MapThenFoldSet
<1>3. <<>> \in A
      BY EmptySeq
<1>4. ASSUME NEW through \in A, NEW part PROVE Next(through, part) \in A
  <2>1. Through(part, through, obj) \in BOOLEAN
        BY DEF Through
  <2>   QED  BY <2>1, AppendProperties
<1>   HIDE DEF A, Next, n
<1>5. \E it : Iter(it)
  <2>   DEFINE g == [p \in (1..n) \X A |-> Next(p[2], l[p[1]])]
  <2>1. g \in [(1..n) \X A -> A]
        BY <1>4
  <2>2. PICK it \in [SUBSET (1..n) -> A] : FoldsTo(it, n, <<>>, g)
    <3>   HIDE DEF g
    <3>   QED  BY <1>1, <1>3, <2>1, FoldExists
  <2>3. ASSUME NEW x \in SUBSET (1..n)
        PROVE  it[x] = IF x = {} THEN <<>> ELSE Next(it[x \ {Max(x)}], l[Max(x)])
    <3>1. it[x] = IF x = {} THEN <<>> ELSE g[<<Max(x), it[x \ {Max(x)}]>>]
          BY <2>2 DEF FoldsTo
    <3>2. ASSUME x # {}
          PROVE  g[<<Max(x), it[x \ {Max(x)}]>>] = Next(it[x \ {Max(x)}], l[Max(x)])
      <4>1. Max(x) \in 1..n
            BY <1>1, <3>2, MaxOf
      <4>2. it[x \ {Max(x)}] \in A
            OBVIOUS
      <4>   QED  BY <4>1, <4>2
    <3>   HIDE DEF g
    <3>   QED  BY <3>1, <3>2
  <2>4. it = [x \in SUBSET (1..n) |-> it[x]]
        OBVIOUS
  <2>5. Iter(it)
        BY <1>1, <2>3, <2>4
  <2>   QED  BY <2>5
<1>6. Iter(iter)
  <2>   HIDE DEF Iter
  <2>   QED  BY <1>5
<1>   HIDE DEF iter, D
<1>   DEFINE f == [k \in 0..n |-> iter[1..k]]
<1>7. f[0] = <<>> /\ iter[D] = f[n]
      BY <1>1, <1>6
<1>8. ASSUME NEW k \in 0..n - 1 PROVE f[k + 1] = Next(f[k], l[k + 1])
  <2>1. /\ 1..k + 1 \in SUBSET (1..n) /\ 1..k + 1 # {}
        /\ Max(1..k + 1) = k + 1
        /\ (1..k + 1) \ {k + 1} = 1..k
        BY <1>1, PlacesUpTo
  <2>2. iter[1..k + 1] = Next(iter[1..k], l[k + 1])
        BY <1>1, <1>6, <2>1
  <2>   QED  BY <1>1, <2>2
<1>   DEFINE S == {k \in 0..n : f[k] \in A}
<1>9. \A k \in 0..n : k \in S
  <2>1. 0 \in S
        BY <1>1, <1>3, <1>7
  <2>2. ASSUME NEW k \in 0..n - 1, k \in S PROVE k + 1 \in S
    <3>1. k + 1 \in 0..n /\ f[k] \in A
          BY <1>1, <2>2
    <3>   HIDE DEF f
    <3>   QED  BY <1>4, <1>8, <3>1
  <2>   HIDE DEF S
  <2>   QED  BY <1>1, <2>1, <2>2, UpTo
<1>10. f \in [0..n -> A]
      BY <1>9
<1>   HIDE DEF f
<1>11. IsPassing(f, l, obj)
      BY <1>7, <1>8, <1>10 DEF IsPassing, A, Next, n
<1>   QED  BY <1>2, <1>7, <1>11 DEF n

\* Each part does what it does with those before it, and the last decides.
IsVerdict(v, l, obj) ==
    /\ v \in [1..Len(l) -> BOOLEAN]
    /\ \A n \in 1..Len(l) : v[n] = Through(l[n], v, obj)

LEMMA ThroughSame ==
    ASSUME NEW l, IsLimiter(l), NEW n \in 1..Len(l), NEW obj, NEW v, NEW w,
           \A k \in 1..n - 1 : v[k] = w[k]
    PROVE  Through(l[n], v, obj) = Through(l[n], w, obj)
<1>1. /\ l[n].with = "not" => l[n].child \in 1..n - 1
      /\ l[n].with \in {"and", "or"} => l[n].children \subseteq 1..n - 1
      BY LimiterIs
<1>2. l[n].with = "not" => v[l[n].child] = w[l[n].child]
      BY <1>1
<1>3. l[n].with \in {"and", "or"} => \A k \in l[n].children : v[k] = w[k]
      BY <1>1
<1>   QED  BY <1>2, <1>3 DEF Through

LEMMA IncludeIs ==
    ASSUME NEW l, IsLimiter(l), NEW obj
    PROVE  \E v : IsVerdict(v, l, obj) /\ include(l, obj) = v[Len(l)]
<1>1. PICK f : IsPassing(f, l, obj) /\ include(l, obj) = Last(f[Len(l)])
      BY PassingExists
<1>   DEFINE n == Len(l)
             v == f[n]
             S == {k \in 0..n : Len(f[k]) = k /\ \A j \in 1..k : f[k][j] = f[j][j]}
<1>2. n \in Nat \ {0}
      BY LimiterIs
<1>3. \A k \in 0..n : f[k] \in Seq(BOOLEAN)
      BY <1>1 DEF IsPassing
<1>4. \A k \in 0..n - 1 :
          /\ f[k + 1] = Append(f[k], Through(l[k + 1], f[k], obj))
          /\ Through(l[k + 1], f[k], obj) \in BOOLEAN
      BY <1>1 DEF IsPassing, Through
<1>5. ASSUME NEW k \in 0..n - 1
      PROVE  /\ Len(f[k + 1]) = Len(f[k]) + 1
             /\ f[k + 1][Len(f[k]) + 1] = Through(l[k + 1], f[k], obj)
             /\ \A j \in 1..Len(f[k]) : f[k + 1][j] = f[k][j]
  <2>1. f[k] \in Seq(BOOLEAN)
        BY <1>3
  <2>   QED  BY <1>4, <2>1, AppendProperties
<1>6. \A k \in 0..n : k \in S
  <2>1. 0 \in S
        BY <1>1, <1>2 DEF IsPassing
  <2>2. ASSUME NEW k \in 0..n - 1, k \in S PROVE k + 1 \in S
    <3>1. Len(f[k]) = k /\ k \in 0..n /\ k + 1 \in 0..n
          BY <1>2, <2>2
    <3>2. ASSUME NEW j \in 1..k + 1 PROVE f[k + 1][j] = f[j][j]
      <4>1. CASE j = k + 1
            BY <4>1
      <4>2. CASE j # k + 1
        <5>1. j \in 1..k
              BY <4>2
        <5>   QED  BY <1>5, <2>2, <3>1, <5>1
      <4>   QED  BY <4>1, <4>2
    <3>3. Len(f[k + 1]) = k + 1
          BY <1>5, <3>1
    <3>   QED  BY <3>1, <3>2, <3>3
  <2>   HIDE DEF S
  <2>   QED  BY <1>2, <2>1, <2>2, UpTo
<1>7. v \in Seq(BOOLEAN) /\ Len(v) = n /\ Last(v) = v[n]
  <2>1. n \in 0..n
        BY <1>2
  <2>   QED  BY <1>3, <1>6, <2>1 DEF Last
<1>8. v \in [1..n -> BOOLEAN]
  <2>   HIDE DEF v, n
  <2>   QED  BY <1>7
<1>9. ASSUME NEW j \in 1..n PROVE v[j] = Through(l[j], v, obj)
  <2>   DEFINE k == j - 1
  <2>1. k \in 0..n - 1 /\ k \in 0..n /\ n \in 0..n /\ k + 1 = j
        BY <1>2
  <2>2. v[j] = f[j][j] /\ Len(f[k]) = k /\ \A i \in 1..k : f[k][i] = f[i][i] /\ v[i] = f[i][i]
    <3>1. k \in S /\ n \in S
          BY <1>6, <2>1
    <3>2. \A i \in 1..k : i \in 1..n
          BY <2>1
    <3>3. Len(f[k]) = k /\ \A i \in 1..k : f[k][i] = f[i][i]
          BY <3>1
    <3>4. \A i \in 1..n : v[i] = f[i][i]
          BY <3>1
    <3>   QED  BY <3>2, <3>3, <3>4, Zenon
  <2>   HIDE DEF v, k
  <2>3. f[j][j] = Through(l[j], f[k], obj)
        BY <1>5, <2>1, <2>2
  <2>4. \A i \in 1..j - 1 : f[k][i] = v[i]
        BY <2>2 DEF k
  <2>5. Through(l[j], f[k], obj) = Through(l[j], v, obj)
    <3>1. j \in 1..Len(l)
          BY DEF n
    <3>   HIDE DEF n
    <3>   QED  BY <2>4, <3>1, ThroughSame
  <2>   QED  BY <2>2, <2>3, <2>5
<1>   HIDE DEF v
<1>10. IsVerdict(v, l, obj)
      BY <1>8, <1>9 DEF IsVerdict
<1>   QED  BY <1>1, <1>7, <1>10 DEF v

\* What is put together from verdicts of its own is the verdict.
LEMMA VerdictIs ==
    ASSUME NEW l, IsLimiter(l), NEW obj, NEW w,
           \A n \in 1..Len(l) : w[n] = Through(l[n], w, obj)
    PROVE  include(l, obj) = w[Len(l)]
<1>1. PICK v : IsVerdict(v, l, obj) /\ include(l, obj) = v[Len(l)]
      BY IncludeIs
<1>   DEFINE L == Len(l)
             S == {k \in 0..L : \A j \in 1..k : v[j] = w[j]}
<1>2. L \in Nat \ {0}
      BY LimiterIs
<1>3. \A k \in 0..L : k \in S
  <2>1. 0 \in S
        BY <1>2
  <2>2. ASSUME NEW k \in 0..L - 1, k \in S PROVE k + 1 \in S
    <3>1. k + 1 \in 1..L /\ k + 1 \in 0..L /\ k + 1 - 1 = k
          BY <1>2
    <3>2. \A j \in 1..k + 1 - 1 : v[j] = w[j]
          BY <2>2, <3>1
    <3>3. Through(l[k + 1], v, obj) = Through(l[k + 1], w, obj)
          BY <3>1, <3>2, ThroughSame
    <3>4. v[k + 1] = w[k + 1]
          BY <1>1, <3>1, <3>3 DEF IsVerdict
    <3>5. \A j \in 1..k + 1 : j \in 1..k \/ j = k + 1
          OBVIOUS
    <3>   QED  BY <2>2, <3>1, <3>4, <3>5
  <2>   HIDE DEF S
  <2>   QED  BY <1>2, <2>1, <2>2, UpTo
<1>4. L \in 0..L /\ L \in 1..L
      BY <1>2
<1>5. v[L] = w[L]
      BY <1>3, <1>4
<1>   QED  BY <1>1, <1>5

LEMMA SeqOfOwn ==
    ASSUME NEW A, NEW s \in Seq(A)
    PROVE  s \in Seq(Range(s))
<1>   DEFINE R == Range(s)
<1>1. Len(s) \in Nat /\ DOMAIN s = 1..Len(s) /\ s = [k \in 1..Len(s) |-> s[k]]
      OBVIOUS
<1>2. \A k \in 1..Len(s) : s[k] \in R
      BY <1>1 DEF Range
<1>   HIDE DEF R
<1>3. s \in [1..Len(s) -> R]
      BY <1>1, <1>2
<1>4. s \in Seq(R)
      BY <1>1, <1>3
<1>   QED  BY <1>4 DEF R

\* A sequence of parts, each made of those before it, is a limiter.
LEMMA LimiterFrom ==
    ASSUME NEW A, NEW l \in Seq(A), Len(l) # 0,
           \A n \in 1..Len(l) :
               /\ l[n].with = "not" => l[n].child \in 1..n - 1
               /\ l[n].with \in {"and", "or"} => l[n].children \subseteq 1..n - 1
    PROVE  IsLimiter(l)
<1>1. l \in Seq(Range(l))
      BY SeqOfOwn
<1>2. l # <<>> /\ DOMAIN l = 1..Len(l)
      OBVIOUS
<1>   QED  BY <1>1, <1>2 DEF IsLimiter

LEMMA NotIs ==
    ASSUME NEW l, IsLimiter(l)
    PROVE  /\ IsLimiter(not_limiter(l)) /\ not_limiter(l) # NoLimit
           /\ \A obj : include(not_limiter(l), obj) = ~include(l, obj)
<1>   DEFINE L == Len(l)
             x == [with |-> "not", child |-> L]
             k == not_limiter(l)
             A == Range(l) \cup {x}
<1>1. L \in Nat \ {0} /\ l \in Seq(Range(l))
      BY LimiterIs DEF IsLimiter
<1>2. l \in Seq(A)
      BY <1>1
<1>3. k = Append(l, x)
      BY DEF not_limiter
<1>4. x \in A
      OBVIOUS
<1>   HIDE DEF A, k
<1>5. /\ k \in Seq(A) /\ Len(k) = L + 1 /\ k[L + 1] = x
      /\ \A n \in 1..L : k[n] = l[n]
  <2>   HIDE DEF x
  <2>   QED  BY <1>2, <1>3, <1>4, AppendProperties
<1>6. x.with = "not" /\ x.child = L
      OBVIOUS
<1>   HIDE DEF x, L
<1>7. \A n \in 1..L + 1 : n \in 1..L \/ n = L + 1
      BY <1>1
<1>8. \A n \in 1..Len(k) :
           /\ k[n].with = "not" => k[n].child \in 1..n - 1
           /\ k[n].with \in {"and", "or"} => k[n].children \subseteq 1..n - 1
  <2>1. ASSUME NEW n \in 1..L
        PROVE  /\ k[n].with = "not" => k[n].child \in 1..n - 1
               /\ k[n].with \in {"and", "or"} => k[n].children \subseteq 1..n - 1
        BY <1>5, LimiterIs DEF L
  <2>2. /\ k[L + 1].with = "not" => k[L + 1].child \in 1..(L + 1) - 1
        /\ k[L + 1].with \in {"and", "or"} => k[L + 1].children \subseteq 1..(L + 1) - 1
        BY <1>1, <1>5, <1>6
  <2>   QED  BY <1>5, <1>7, <2>1, <2>2
<1>9. IsLimiter(k)
      BY <1>1, <1>5, <1>8, LimiterFrom
<1>10. k # NoLimit
      BY <1>1, <1>5 DEF NoLimit
<1>11. ASSUME NEW obj PROVE include(k, obj) = ~include(l, obj)
  <2>1. PICK v : IsVerdict(v, l, obj) /\ include(l, obj) = v[Len(l)]
        BY IncludeIs
  <2>   DEFINE w == [n \in 1..L + 1 |-> IF n = L + 1 THEN ~v[L] ELSE v[n]]
  <2>2. \A n \in 1..L : w[n] = v[n]
        BY <1>1
  <2>3. w[L + 1] = ~v[L] /\ w[L] = v[L]
        BY <1>1
  <2>   HIDE DEF w
  <2>4. ASSUME NEW n \in 1..L PROVE w[n] = Through(k[n], w, obj)
    <3>1. \A m \in 1..n - 1 : v[m] = w[m]
          BY <1>1, <2>2
    <3>2. n \in 1..Len(l)
          BY DEF L
    <3>3. Through(l[n], v, obj) = Through(l[n], w, obj)
          BY <3>1, <3>2, ThroughSame
    <3>   QED  BY <1>5, <2>1, <2>2, <3>2, <3>3 DEF IsVerdict
  <2>5. w[L + 1] = Through(k[L + 1], w, obj)
        BY <1>5, <1>6, <2>3 DEF Through
  <2>6. \A n \in 1..Len(k) : w[n] = Through(k[n], w, obj)
        BY <1>5, <1>7, <2>4, <2>5
  <2>7. include(k, obj) = w[L + 1]
        BY <1>5, <1>9, <2>6, VerdictIs
  <2>   QED  BY <2>1, <2>3, <2>7 DEF L
<1>   QED  BY <1>9, <1>10, <1>11 DEF k

LEMMA AndIs ==
    ASSUME NEW l, IsLimiter(l), NEW k, IsLimiter(k), NEW obj
    PROVE  include(and_limiter(l, k), obj) = (include(l, obj) /\ include(k, obj))
<1>   DEFINE L == Len(l)
             K == Len(k)
             x == [with |-> "and", children |-> {L, L + K}]
             moved == [n \in DOMAIN k |-> After(k[n], L)]
             a == and_limiter(l, k)
             A == Range(l) \cup Range(moved) \cup {x}
<1>1. L \in Nat \ {0} /\ l \in Seq(Range(l))
      BY LimiterIs DEF IsLimiter
<1>2. K \in Nat \ {0} /\ DOMAIN k = 1..K
      BY LimiterIs
<1>3. moved \in Seq(Range(moved)) /\ Len(moved) = K /\ \A n \in 1..K : moved[n] = After(k[n], L)
  <2>   DEFINE R == Range(moved)
  <2>1. DOMAIN moved = 1..K /\ moved = [n \in 1..K |-> moved[n]]
        BY <1>2
  <2>2. \A n \in 1..K : moved[n] = After(k[n], L)
        BY <1>2
  <2>3. \A n \in 1..K : moved[n] \in R
        BY <2>1 DEF Range
  <2>   HIDE DEF R, moved
  <2>4. moved \in [1..K -> R]
        BY <2>1, <2>3
  <2>5. moved \in Seq(R) /\ Len(moved) = K
        BY <1>2, <2>4
  <2>   QED  BY <2>2, <2>5 DEF R
<1>4. a = l \o moved \o <<x>>
      BY DEF and_limiter
<1>   HIDE DEF moved, a
<1>5. l \in Seq(A) /\ moved \in Seq(A) /\ x \in A
      BY <1>1, <1>3
<1>6. x.with = "and" /\ x.children = {L, L + K}
      OBVIOUS
<1>   HIDE DEF A, x, L, K
<1>7. /\ l \o moved \in Seq(A) /\ Len(l \o moved) = L + K
      /\ \A n \in 1..L : (l \o moved)[n] = l[n]
      /\ \A n \in 1..K : (l \o moved)[L + n] = moved[n]
  <2>1. \A n \in 1..K : L + n \in L + 1..L + K /\ (L + n) - L = n
        BY <1>1, <1>2
  <2>2. /\ l \o moved \in Seq(A) /\ Len(l \o moved) = L + K
        /\ \A n \in 1..L : (l \o moved)[n] = l[n]
        BY <1>1, <1>3, <1>5 DEF L
  <2>3. \A n \in 1..K : (l \o moved)[L + n] = moved[n]
        BY <1>1, <1>2, <1>3, <1>5 DEF L
  <2>   QED  BY <2>2, <2>3
<1>8. /\ a \in Seq(A) /\ Len(a) = L + K + 1 /\ a[L + K + 1] = x
      /\ \A n \in 1..L : a[n] = l[n]
      /\ \A n \in 1..K : a[L + n] = After(k[n], L)
  <2>   DEFINE b == l \o moved
  <2>1. b \in Seq(A) /\ Len(b) = L + K
        BY <1>7
  <2>2. (\A n \in 1..L : b[n] = l[n]) /\ (\A n \in 1..K : b[L + n] = moved[n])
        BY <1>7
  <2>3. a = Append(b, x)
        BY <1>4, <1>5, <2>1
  <2>   HIDE DEF b
  <2>4. /\ a \in Seq(A) /\ Len(a) = L + K + 1 /\ a[L + K + 1] = x
        /\ \A n \in 1..L + K : a[n] = b[n]
        BY <1>5, <2>1, <2>3, AppendProperties
  <2>5. (\A n \in 1..L : n \in 1..L + K) /\ (\A n \in 1..K : L + n \in 1..L + K)
        BY <1>1, <1>2
  <2>   QED  BY <1>3, <2>2, <2>4, <2>5
<1>9. \A n \in 1..L + K + 1 : n \in 1..L \/ n = L + K + 1 \/ \E m \in 1..K : n = L + m
  <2>1. \A n \in 1..L + K + 1 : n \notin 1..L /\ n # L + K + 1 => n - L \in 1..K /\ n = L + (n - L)
        BY <1>1, <1>2
  <2>   QED  BY <2>1
<1>10. \A n \in 1..K :
          /\ k[n].with = "not" => k[n].child \in 1..n - 1
          /\ k[n].with \in {"and", "or"} => k[n].children \subseteq 1..n - 1
      BY LimiterIs DEF K
<1>11. \A n \in 1..L :
          /\ l[n].with = "not" => l[n].child \in 1..n - 1
          /\ l[n].with \in {"and", "or"} => l[n].children \subseteq 1..n - 1
      BY LimiterIs DEF L
<1>12. ASSUME NEW n \in 1..K
       PROVE  /\ After(k[n], L).with = k[n].with
              /\ k[n].with = "not" => After(k[n], L).child = k[n].child + L
              /\ k[n].with \in {"and", "or"} =>
                     After(k[n], L).children = {m + L : m \in k[n].children}
              /\ k[n].with \notin {"not", "and", "or"} => After(k[n], L) = k[n]
      BY DEF After
<1>13. IsLimiter(a)
  <2>1. ASSUME NEW n \in 1..K
        PROVE  /\ a[L + n].with = "not" => a[L + n].child \in 1..(L + n) - 1
               /\ a[L + n].with \in {"and", "or"} => a[L + n].children \subseteq 1..(L + n) - 1
    <3>1. a[L + n] = After(k[n], L)
          BY <1>8
    <3>2. \A m \in 1..n - 1 : m + L \in 1..(L + n) - 1
          BY <1>1
    <3>3. k[n].with = "not" => k[n].child + L \in 1..(L + n) - 1
          BY <1>10, <3>2
    <3>4. k[n].with \in {"and", "or"} => {m + L : m \in k[n].children} \subseteq 1..(L + n) - 1
          BY <1>10, <3>2
    <3>5. a[L + n].with = "not" => a[L + n].child \in 1..(L + n) - 1
          BY <1>12, <3>1, <3>3
    <3>6. a[L + n].with \in {"and", "or"} => a[L + n].children \subseteq 1..(L + n) - 1
          BY <1>12, <3>1, <3>4
    <3>   QED  BY <3>5, <3>6
  <2>2. a[L + K + 1].with = "and" /\ a[L + K + 1].children \subseteq 1..(L + K + 1) - 1
    <3>1. a[L + K + 1] = x
          BY <1>8
    <3>2. {L, L + K} \subseteq 1..(L + K + 1) - 1
          BY <1>1, <1>2
    <3>   QED  BY <1>6, <3>1, <3>2
  <2>3. \A n \in 1..L :
          /\ a[n].with = "not" => a[n].child \in 1..n - 1
          /\ a[n].with \in {"and", "or"} => a[n].children \subseteq 1..n - 1
        BY <1>8, <1>11
  <2>4. \A n \in 1..Len(a) :
          /\ a[n].with = "not" => a[n].child \in 1..n - 1
          /\ a[n].with \in {"and", "or"} => a[n].children \subseteq 1..n - 1
    <3>   TAKE n \in 1..Len(a)
    <3>1. n \in 1..L \/ n = L + K + 1 \/ \E m \in 1..K : n = L + m
          BY <1>8, <1>9
    <3>2. CASE n \in 1..L
          BY <2>3, <3>2
    <3>3. CASE n = L + K + 1
          BY <2>2, <3>3
    <3>4. CASE \E m \in 1..K : n = L + m
          BY <2>1, <3>4
    <3>   QED  BY <3>1, <3>2, <3>3, <3>4
  <2>5. Len(a) # 0
        BY <1>1, <1>2, <1>8
  <2>   QED  BY <1>8, <2>4, <2>5, LimiterFrom
<1>14. PICK v : IsVerdict(v, l, obj) /\ include(l, obj) = v[L]
      BY IncludeIs DEF L
<1>15. PICK u : IsVerdict(u, k, obj) /\ include(k, obj) = u[K]
      BY IncludeIs DEF K
<1>   DEFINE w == [n \in 1..L + K + 1 |->
                      IF n \in 1..L THEN v[n] ELSE IF n = L + K + 1 THEN v[L] /\ u[K] ELSE u[n - L]]
<1>16. \A n \in 1..L : w[n] = v[n]
      BY <1>1, <1>2
<1>17. ASSUME NEW n \in 1..K PROVE w[L + n] = u[n]
  <2>1. L + n \in 1..L + K + 1 /\ L + n \notin 1..L /\ L + n # L + K + 1 /\ (L + n) - L = n
        BY <1>1, <1>2
  <2>   QED  BY <2>1
<1>18. w[L + K + 1] = (v[L] /\ u[K])
  <2>1. L + K + 1 \in 1..L + K + 1 /\ L + K + 1 \notin 1..L
        BY <1>1, <1>2
  <2>   QED  BY <2>1
<1>   HIDE DEF w
<1>19. ASSUME NEW n \in 1..L PROVE w[n] = Through(a[n], w, obj)
  <2>1. \A m \in 1..n - 1 : v[m] = w[m]
        BY <1>1, <1>16
  <2>2. n \in 1..Len(l)
        BY DEF L
  <2>3. Through(l[n], v, obj) = Through(l[n], w, obj)
        BY <2>1, <2>2, ThroughSame
  <2>   QED  BY <1>8, <1>14, <1>16, <2>2, <2>3 DEF IsVerdict
<1>20. ASSUME NEW n \in 1..K PROVE w[L + n] = Through(a[L + n], w, obj)
  <2>   DEFINE p == k[n]
               q == After(k[n], L)
  <2>1. a[L + n] = q /\ w[L + n] = u[n] /\ u[n] = Through(p, u, obj)
        BY <1>8, <1>15, <1>17 DEF IsVerdict, K
  <2>2. \A m \in 1..n - 1 : w[m + L] = u[m]
    <3>1. \A m \in 1..n - 1 : m \in 1..K /\ m + L = L + m
          BY <1>1, <1>2
    <3>   QED  BY <1>17, <3>1
  <2>3. /\ q.with = p.with
        /\ p.with = "not" => q.child = p.child + L
        /\ p.with \in {"and", "or"} => q.children = {m + L : m \in p.children}
        /\ p.with \notin {"not", "and", "or"} => q = p
        BY <1>12
  <2>4. p.with = "not" => p.child \in 1..n - 1
        BY <1>10
  <2>5. p.with \in {"and", "or"} => p.children \subseteq 1..n - 1
        BY <1>10
  <2>   HIDE DEF p, q
  <2>6. p.with = "not" => w[q.child] = u[p.child]
        BY <2>2, <2>3, <2>4
  <2>7. ASSUME p.with \in {"and", "or"}
        PROVE  /\ (\A m \in q.children : w[m]) = (\A m \in p.children : u[m])
               /\ (\E m \in q.children : w[m]) = (\E m \in p.children : u[m])
    <3>1. \A m \in p.children : w[m + L] = u[m]
          BY <2>2, <2>5, <2>7
    <3>   QED  BY <2>3, <2>7, <3>1
  <2>8. Through(q, w, obj) = Through(p, u, obj)
    <3>1. CASE p.with \notin {"not", "and", "or"}
          BY <2>3, <3>1 DEF Through
    <3>2. CASE p.with = "not"
          BY <2>3, <2>6, <3>2 DEF Through
    <3>3. CASE p.with \in {"and", "or"}
          BY <2>3, <2>7, <3>3 DEF Through
    <3>   QED  BY <3>1, <3>2, <3>3
  <2>   QED  BY <2>1, <2>8
<1>21. w[L + K + 1] = Through(a[L + K + 1], w, obj)
  <2>1. w[L] = v[L] /\ w[L + K] = u[K]
        BY <1>1, <1>2, <1>16, <1>17
  <2>2. v[L] \in BOOLEAN /\ u[K] \in BOOLEAN
        BY <1>1, <1>2, <1>14, <1>15 DEF IsVerdict, L, K
  <2>   QED  BY <1>6, <1>8, <1>18, <2>1, <2>2 DEF Through
<1>22. \A n \in 1..Len(a) : w[n] = Through(a[n], w, obj)
      BY <1>8, <1>9, <1>19, <1>20, <1>21
<1>23. include(a, obj) = w[L + K + 1]
      BY <1>8, <1>13, <1>22, VerdictIs
<1>   QED  BY <1>14, <1>15, <1>18, <1>23 DEF a

\* What each part is meant to let through, with such files, one after the other.
IsMeaning(f, l, files) ==
    /\ f \in [0..Len(l) -> Seq(SUBSET Loadable)]
    /\ f[0] = <<>>
    /\ \A k \in 0..Len(l) - 1 : f[k + 1] = Append(f[k], MeantBy(l[k + 1], f[k], files))

LEMMA MeantByType ==
    ASSUME NEW part, NEW meant, NEW files
    PROVE  MeantBy(part, meant, files) \in SUBSET Loadable
BY DEF MeantBy

LEMMA MeantByIs ==
    ASSUME NEW part, NEW meant, NEW files
    PROVE  /\ part.with = "none" => MeantBy(part, meant, files) = Loadable
           /\ part.with = "list" => MeantBy(part, meant, files) =
                  {o \in Loadable : \E v \in files[part.list] : v \in o[part.by]}
           /\ part.with = "regex" => MeantBy(part, meant, files) =
                  {o \in Loadable : \E v \in part.matching : v \in o[part.by]}
           /\ part.with = "not" => MeantBy(part, meant, files) = Loadable \ meant[part.child]
           /\ part.with = "and" => MeantBy(part, meant, files) =
                  {o \in Loadable : \A n \in part.children : o \in meant[n]}
           /\ part.with = "or" => MeantBy(part, meant, files) =
                  {o \in Loadable : \E n \in part.children : o \in meant[n]}
<1>1. /\ "none" # "list" /\ "none" # "regex" /\ "none" # "not" /\ "none" # "and" /\ "none" # "or"
      /\ "list" # "regex" /\ "list" # "not" /\ "list" # "and" /\ "list" # "or"
      /\ "regex" # "not" /\ "regex" # "and" /\ "regex" # "or"
      /\ "not" # "and" /\ "not" # "or" /\ "and" # "or"
      OBVIOUS
<1>2. part.with = "none" => MeantBy(part, meant, files) = Loadable
      BY <1>1, ZenonT(30) DEF MeantBy
<1>3. part.with = "list" => MeantBy(part, meant, files) =
          {o \in Loadable : \E v \in files[part.list] : v \in o[part.by]}
      BY <1>1, ZenonT(30) DEF MeantBy
<1>4. part.with = "regex" => MeantBy(part, meant, files) =
          {o \in Loadable : \E v \in part.matching : v \in o[part.by]}
      BY <1>1, ZenonT(30) DEF MeantBy
<1>5. part.with = "not" => MeantBy(part, meant, files) = Loadable \ meant[part.child]
      BY <1>1, ZenonT(30) DEF MeantBy
<1>6. part.with = "and" => MeantBy(part, meant, files) =
          {o \in Loadable : \A n \in part.children : o \in meant[n]}
      BY <1>1, ZenonT(30) DEF MeantBy
<1>7. part.with = "or" => MeantBy(part, meant, files) =
          {o \in Loadable : \E n \in part.children : o \in meant[n]}
      BY <1>1, ZenonT(30) DEF MeantBy
<1>   QED  BY <1>2, <1>3, <1>4, <1>5, <1>6, <1>7, Zenon

LEMMA MeaningExists ==
    ASSUME NEW l, IsLimiter(l), NEW files
    PROVE  \E f : IsMeaning(f, l, files) /\ Meant(l, files) = Last(f[Len(l)])
<1>   DEFINE n == Len(l)
             D == DOMAIN l
             A == Seq(SUBSET Loadable)
             Next(meant, part) == Append(meant, MeantBy(part, meant, files))
             Iter(it) == it = [x \in SUBSET D |->
                                 IF x = {} THEN <<>> ELSE Next(it[x \ {Max(x)}], l[Max(x)])]
             iter == CHOOSE it : Iter(it)
<1>1. n \in Nat /\ D = 1..n
      BY LimiterIs
<1>2. Meant(l, files) = Last(iter[D])
      BY DEF Meant, FoldLeft, MapThenFoldSet
<1>3. <<>> \in A
      BY EmptySeq
<1>4. ASSUME NEW meant \in A, NEW part PROVE Next(meant, part) \in A
  <2>1. MeantBy(part, meant, files) \in SUBSET Loadable
        BY MeantByType
  <2>   QED  BY <2>1, AppendProperties
<1>   HIDE DEF A, Next, n
<1>5. \E it : Iter(it)
  <2>   DEFINE g == [p \in (1..n) \X A |-> Next(p[2], l[p[1]])]
  <2>1. g \in [(1..n) \X A -> A]
        BY <1>4
  <2>2. PICK it \in [SUBSET (1..n) -> A] : FoldsTo(it, n, <<>>, g)
    <3>   HIDE DEF g
    <3>   QED  BY <1>1, <1>3, <2>1, FoldExists
  <2>3. ASSUME NEW x \in SUBSET (1..n)
        PROVE  it[x] = IF x = {} THEN <<>> ELSE Next(it[x \ {Max(x)}], l[Max(x)])
    <3>1. it[x] = IF x = {} THEN <<>> ELSE g[<<Max(x), it[x \ {Max(x)}]>>]
          BY <2>2 DEF FoldsTo
    <3>2. ASSUME x # {}
          PROVE  g[<<Max(x), it[x \ {Max(x)}]>>] = Next(it[x \ {Max(x)}], l[Max(x)])
      <4>1. Max(x) \in 1..n
            BY <1>1, <3>2, MaxOf
      <4>2. it[x \ {Max(x)}] \in A
            OBVIOUS
      <4>   QED  BY <4>1, <4>2
    <3>   HIDE DEF g
    <3>   QED  BY <3>1, <3>2
  <2>4. it = [x \in SUBSET (1..n) |-> it[x]]
        OBVIOUS
  <2>5. Iter(it)
        BY <1>1, <2>3, <2>4
  <2>   QED  BY <2>5
<1>6. Iter(iter)
  <2>   HIDE DEF Iter
  <2>   QED  BY <1>5
<1>   HIDE DEF iter, D
<1>   DEFINE f == [k \in 0..n |-> iter[1..k]]
<1>7. f[0] = <<>> /\ iter[D] = f[n]
      BY <1>1, <1>6
<1>8. ASSUME NEW k \in 0..n - 1 PROVE f[k + 1] = Next(f[k], l[k + 1])
  <2>1. /\ 1..k + 1 \in SUBSET (1..n) /\ 1..k + 1 # {}
        /\ Max(1..k + 1) = k + 1
        /\ (1..k + 1) \ {k + 1} = 1..k
        BY <1>1, PlacesUpTo
  <2>2. iter[1..k + 1] = Next(iter[1..k], l[k + 1])
        BY <1>1, <1>6, <2>1
  <2>   QED  BY <1>1, <2>2
<1>   DEFINE S == {k \in 0..n : f[k] \in A}
<1>9. \A k \in 0..n : k \in S
  <2>1. 0 \in S
        BY <1>1, <1>3, <1>7
  <2>2. ASSUME NEW k \in 0..n - 1, k \in S PROVE k + 1 \in S
    <3>1. k + 1 \in 0..n /\ f[k] \in A
          BY <1>1, <2>2
    <3>   HIDE DEF f
    <3>   QED  BY <1>4, <1>8, <3>1
  <2>   HIDE DEF S
  <2>   QED  BY <1>1, <2>1, <2>2, UpTo
<1>10. f \in [0..n -> A]
      BY <1>9
<1>   HIDE DEF f
<1>11. IsMeaning(f, l, files)
      BY <1>7, <1>8, <1>10 DEF IsMeaning, A, Next, n
<1>   QED  BY <1>2, <1>7, <1>11 DEF n

LEMMA MeantIs ==
    ASSUME NEW l, IsLimiter(l), NEW files
    PROVE  \E f : /\ IsMeaning(f, l, files)
                  /\ \A k \in 0..Len(l) : Len(f[k]) = k
                  /\ \A k \in 0..Len(l) - 1 :
                        /\ f[k + 1][k + 1] = MeantBy(l[k + 1], f[k], files)
                        /\ \A j \in 1..k : f[k + 1][j] = f[k][j]
                  /\ Meant(l, files) = f[Len(l)][Len(l)]
<1>1. PICK f : IsMeaning(f, l, files) /\ Meant(l, files) = Last(f[Len(l)])
      BY MeaningExists
<1>   DEFINE n == Len(l)
             S == {k \in 0..n : Len(f[k]) = k}
<1>2. n \in Nat \ {0}
      BY LimiterIs
<1>3. \A k \in 0..n : f[k] \in Seq(SUBSET Loadable)
      BY <1>1 DEF IsMeaning
<1>4. ASSUME NEW k \in 0..n - 1
      PROVE  /\ Len(f[k + 1]) = Len(f[k]) + 1
             /\ f[k + 1][Len(f[k]) + 1] = MeantBy(l[k + 1], f[k], files)
             /\ \A j \in 1..Len(f[k]) : f[k + 1][j] = f[k][j]
  <2>1. f[k] \in Seq(SUBSET Loadable)
        BY <1>3
  <2>2. f[k + 1] = Append(f[k], MeantBy(l[k + 1], f[k], files))
        BY <1>1 DEF IsMeaning
  <2>3. MeantBy(l[k + 1], f[k], files) \in SUBSET Loadable
        BY MeantByType
  <2>   QED  BY <2>1, <2>2, <2>3, AppendProperties
<1>5. \A k \in 0..n : k \in S
  <2>1. 0 \in S
        BY <1>1, <1>2 DEF IsMeaning
  <2>2. ASSUME NEW k \in 0..n - 1, k \in S PROVE k + 1 \in S
        BY <1>2, <1>4, <2>2
  <2>   HIDE DEF S
  <2>   QED  BY <1>2, <2>1, <2>2, UpTo
<1>6. \A k \in 0..n : Len(f[k]) = k
      BY <1>5
<1>7. Last(f[n]) = f[n][n]
  <2>1. n \in 0..n
        BY <1>2
  <2>2. Len(f[n]) = n
        BY <1>6, <2>1
  <2>   QED  BY <2>2 DEF Last
<1>8. \A k \in 0..n - 1 : k \in 0..n
      BY <1>2
<1>9. ASSUME NEW k \in 0..n - 1
      PROVE  /\ f[k + 1][k + 1] = MeantBy(l[k + 1], f[k], files)
             /\ \A j \in 1..k : f[k + 1][j] = f[k][j]
  <2>1. Len(f[k]) = k
        BY <1>6, <1>8
  <2>   QED  BY <1>4, <2>1
<1>   QED  BY <1>1, <1>6, <1>7, <1>9

\* A part does what it is meant to if those do that it is made of.
LEMMA ThroughAsMeant ==
    ASSUME NEW p, NEW q, NEW files, NEW i \in Nat, NEW before, NEW w, NEW obj \in Loadable,
           p.with \in {"none", "list", "regex", "not", "and", "or"},
           p.with = "not" => p.child \in 1..i,
           p.with \in {"and", "or"} => p.children \subseteq 1..i,
           q.with = p.with,
           p.with # "list" => q = p,
           p.with = "list" => q.by = p.by /\ q.values = files[p.list],
           \A j \in 1..i : w[j] <=> obj \in before[j]
    PROVE  Through(q, w, obj) <=> obj \in MeantBy(p, before, files)
<1>   DEFINE M == MeantBy(p, before, files)
<1>0. /\ p.with = "none" => M = Loadable
      /\ p.with = "list" => M = {o \in Loadable : \E v \in files[p.list] : v \in o[p.by]}
      /\ p.with = "regex" => M = {o \in Loadable : \E v \in p.matching : v \in o[p.by]}
      /\ p.with = "not" => M = Loadable \ before[p.child]
      /\ p.with = "and" => M = {o \in Loadable : \A n \in p.children : o \in before[n]}
      /\ p.with = "or" => M = {o \in Loadable : \E n \in p.children : o \in before[n]}
      BY MeantByIs
<1>   HIDE DEF M
<1>1. CASE p.with = "none"
  <2>1. M = Loadable
        BY <1>0, <1>1, Zenon
  <2>   QED  BY <1>1, <2>1 DEF M, Through
<1>2. CASE p.with = "list"
  <2>1. M = {o \in Loadable : \E v \in files[p.list] : v \in o[p.by]}
        BY <1>0, <1>2, Zenon
  <2>2. Through(q, w, obj) <=> obj[p.by] \cap files[p.list] # {}
        BY <1>2 DEF Through
  <2>   QED  BY <2>1, <2>2 DEF M
<1>3. CASE p.with = "regex"
  <2>1. M = {o \in Loadable : \E v \in p.matching : v \in o[p.by]}
        BY <1>0, <1>3, Zenon
  <2>2. Through(q, w, obj) <=> obj[p.by] \cap p.matching # {}
        BY <1>3 DEF Through
  <2>   QED  BY <2>1, <2>2 DEF M
<1>4. CASE p.with = "not"
  <2>1. M = Loadable \ before[p.child]
        BY <1>0, <1>4, Zenon
  <2>2. Through(q, w, obj) <=> ~w[p.child]
        BY <1>4 DEF Through
  <2>   QED  BY <1>4, <2>1, <2>2 DEF M
<1>5. CASE p.with = "and"
  <2>1. M = {o \in Loadable : \A n \in p.children : o \in before[n]}
        BY <1>0, <1>5, Zenon
  <2>2. Through(q, w, obj) <=> \A n \in p.children : w[n]
        BY <1>5 DEF Through
  <2>   QED  BY <1>5, <2>1, <2>2 DEF M
<1>6. CASE p.with = "or"
  <2>1. M = {o \in Loadable : \E n \in p.children : o \in before[n]}
        BY <1>0, <1>6, Zenon
  <2>2. Through(q, w, obj) <=> \E n \in p.children : w[n]
        BY <1>6 DEF Through
  <2>   QED  BY <1>6, <2>1, <2>2 DEF M
<1>   QED  BY <1>1, <1>2, <1>3, <1>4, <1>5, <1>6

\* A limiter lets through what it is meant to, with the files that it has read.
LEMMA IncludedAsMeant ==
    ASSUME NEW spec, IsLimiter(spec), ~Refused(spec), NEW files, NEW obj \in Loadable
    PROVE  /\ IsLimiter(create_limiter_from_json(spec, files))
           /\ include(create_limiter_from_json(spec, files), obj) = (obj \in Meant(spec, files))
<1>   DEFINE n == Len(spec)
             l == create_limiter_from_json(spec, files)
<1>1. n \in Nat \ {0} /\ DOMAIN spec = 1..n
      BY LimiterIs
<1>2. \A k \in 1..n : l[k] = IF spec[k].with = "list" THEN list_limiter(spec[k], files) ELSE spec[k]
      BY <1>1 DEF create_limiter_from_json
<1>3. l \in Seq(Range(l)) /\ Len(l) = n
  <2>   DEFINE R == Range(l)
  <2>1. DOMAIN l = 1..n /\ l = [k \in 1..n |-> l[k]]
        BY <1>1 DEF create_limiter_from_json
  <2>2. \A k \in 1..n : l[k] \in R
        BY <2>1 DEF Range
  <2>   HIDE DEF R, l, n
  <2>3. l \in [1..n -> R]
        BY <2>1, <2>2
  <2>4. l \in Seq(R) /\ Len(l) = n
        BY <1>1, <2>3
  <2>   QED  BY <2>4 DEF R
<1>4. \A k \in 1..n : spec[k].with \in {"none", "list", "regex", "not", "and", "or"}
      BY <1>1 DEF Refused
<1>5. ASSUME NEW k \in 1..n
      PROVE  /\ l[k].with = spec[k].with
             /\ spec[k].with # "list" => l[k] = spec[k]
             /\ spec[k].with = "list" =>
                    l[k].by = spec[k].by /\ l[k].values = files[spec[k].list]
  <2>1. spec[k].with = "list" => l[k] = list_limiter(spec[k], files)
        BY <1>2
  <2>2. spec[k].with # "list" => l[k] = spec[k]
        BY <1>2
  <2>   HIDE DEF l
  <2>3. /\ list_limiter(spec[k], files).with = "list" /\ list_limiter(spec[k], files).by = spec[k].by
        /\ list_limiter(spec[k], files).values = files[spec[k].list]
        BY DEF list_limiter
  <2>   QED  BY <2>1, <2>2, <2>3
<1>   HIDE DEF l, n
<1>6. \A k \in 1..n :
          /\ spec[k].with = "not" => spec[k].child \in 1..k - 1
          /\ spec[k].with \in {"and", "or"} => spec[k].children \subseteq 1..k - 1
      BY LimiterIs DEF n
<1>7. IsLimiter(l)
  <2>1. \A k \in 1..n :
          /\ l[k].with = "not" => l[k].child \in 1..k - 1
          /\ l[k].with \in {"and", "or"} => l[k].children \subseteq 1..k - 1
        BY <1>5, <1>6
  <2>2. Len(l) # 0 /\ \A k \in 1..Len(l) :
          /\ l[k].with = "not" => l[k].child \in 1..k - 1
          /\ l[k].with \in {"and", "or"} => l[k].children \subseteq 1..k - 1
        BY <1>1, <1>3, <2>1
  <2>   QED  BY <1>3, <2>2, LimiterFrom
<1>8. PICK f : /\ IsMeaning(f, spec, files)
               /\ \A k \in 0..n : Len(f[k]) = k
               /\ \A k \in 0..n - 1 :
                     /\ f[k + 1][k + 1] = MeantBy(spec[k + 1], f[k], files)
                     /\ \A j \in 1..k : f[k + 1][j] = f[k][j]
               /\ Meant(spec, files) = f[n][n]
      BY MeantIs DEF n
<1>   DEFINE w == [k \in 1..n |-> obj \in f[k][k]]
             S == {k \in 0..n : \A j \in 1..k : f[k][j] = f[j][j]}
<1>9. \A k \in 0..n : k \in S
  <2>1. 0 \in S
        BY <1>1
  <2>2. ASSUME NEW k \in 0..n - 1, k \in S PROVE k + 1 \in S
    <3>1. k + 1 \in 0..n /\ \A j \in 1..k + 1 : j \in 1..k \/ j = k + 1
          BY <1>1
    <3>   QED  BY <1>8, <2>2, <3>1
  <2>   HIDE DEF S
  <2>   QED  BY <1>1, <2>1, <2>2, UpTo
<1>10. ASSUME NEW k \in 1..n PROVE w[k] = Through(l[k], w, obj)
  <2>   DEFINE i == k - 1
               p == spec[k]
               q == l[k]
               before == f[i]
  <2>1. i \in 0..n - 1 /\ i \in 0..n /\ i + 1 = k /\ \A j \in 1..i : j \in 1..n
        BY <1>1
  <2>2. f[k][k] = MeantBy(p, before, files)
        BY <1>8, <2>1
  <2>3. \A j \in 1..i : before[j] = f[j][j]
        BY <1>9, <2>1
  <2>4. \A j \in 1..i : w[j] = (obj \in before[j])
        BY <2>1, <2>3
  <2>5. w[k] = (obj \in MeantBy(p, before, files))
        BY <2>2
  <2>6. /\ q.with = p.with
        /\ p.with # "list" => q = p
        /\ p.with = "list" => q.by = p.by /\ q.values = files[p.list]
        BY <1>5
  <2>13. i \in Nat
        BY <2>1
  <2>7. p.with \in {"none", "list", "regex", "not", "and", "or"}
        BY <1>4
  <2>8. /\ p.with = "not" => p.child \in 1..i
        /\ p.with \in {"and", "or"} => p.children \subseteq 1..i
        BY <1>6
  <2>   HIDE DEF p, q, before, w, i
  <2>9. \A j \in 1..i : w[j] <=> obj \in before[j]
        BY <2>4
  <2>10. Through(q, w, obj) <=> obj \in MeantBy(p, before, files)
        BY <2>13, <2>6, <2>7, <2>8, <2>9, ThroughAsMeant
  <2>11. Through(q, w, obj) \in BOOLEAN
        BY DEF Through
  <2>12. w[k] = Through(q, w, obj)
        BY <2>5, <2>10, <2>11
  <2>   QED  BY <2>12 DEF q
<1>11. w[n] = (obj \in f[n][n])
      BY <1>1
<1>   HIDE DEF w
<1>12. \A k \in 1..Len(l) : w[k] = Through(l[k], w, obj)
      BY <1>3, <1>10
<1>13. include(l, obj) = w[Len(l)]
      BY <1>7, <1>12, VerdictIs
<1>14. include(l, obj) = (obj \in Meant(spec, files))
      BY <1>3, <1>8, <1>11, <1>13
<1>   QED  BY <1>7, <1>14 DEF l

LEMMA LimitOfIs ==
    ASSUME limits \in LimiterConfigs, NEW t \in LimitedTypes
    PROVE  IsLimiter(LimitOf(t)) /\ IsLimiter(limits.blacklist)
BY LimiterAssumption DEF AreLimits, LimitOf

LEMMA MeantLoadable ==
    ASSUME NEW l, IsLimiter(l), NEW files
    PROVE  Meant(l, files) \subseteq Loadable
<1>1. PICK f : /\ \A k \in 0..Len(l) - 1 : f[k + 1][k + 1] = MeantBy(l[k + 1], f[k], files)
               /\ Meant(l, files) = f[Len(l)][Len(l)]
      BY MeantIs
<1>   DEFINE k == Len(l) - 1
<1>2. k \in 0..Len(l) - 1 /\ k + 1 = Len(l)
      BY LimiterIs
<1>3. Meant(l, files) = MeantBy(l[k + 1], f[k], files)
      BY <1>1, <1>2
<1>   QED  BY <1>3, MeantByType

\* The blacklist lets through those who are not on it.
LEMMA BlacklistAsMeant ==
    ASSUME limits \in LimiterConfigs, limits.blacklist # NoLimit, NEW files, NEW obj \in Loadable
    PROVE  /\ IsLimiter(blacklist_limiter(files)) /\ blacklist_limiter(files) # NoLimit
           /\ include(blacklist_limiter(files), obj) = (obj \notin Meant(limits.blacklist, files))
<1>   DEFINE l == create_limiter_from_json(limits.blacklist, files)
<1>1. IsLimiter(limits.blacklist) /\ \A n \in DOMAIN limits.blacklist : limits.blacklist[n].with = "list"
      BY LimiterAssumption DEF AreLimits
<1>2. ~Refused(limits.blacklist)
      BY <1>1 DEF Refused
<1>3. IsLimiter(l) /\ include(l, obj) = (obj \in Meant(limits.blacklist, files))
      BY <1>1, <1>2, IncludedAsMeant
<1>   HIDE DEF l
<1>4. /\ IsLimiter(not_limiter(l)) /\ not_limiter(l) # NoLimit
      /\ include(not_limiter(l), obj) = ~include(l, obj)
      BY <1>3, NotIs
<1>5. blacklist_limiter(files) = not_limiter(l)
      BY DEF blacklist_limiter, l
<1>6. include(not_limiter(l), obj) = (obj \notin Meant(limits.blacklist, files))
      BY <1>3, <1>4
<1>   QED  BY <1>4, <1>5, <1>6

\* What a new limiter lets through.
LEMMA NewAsMeant ==
    ASSUME limits \in LimiterConfigs, NEW t \in LimitedTypes, ~Refused(LimitOf(t)),
           NEW black, user_blacklist = blacklist_limiter(black), NEW files, NEW obj \in Loadable
    PROVE  include(NewLimiter(t, files), obj) =
               (obj \in Meant(LimitOf(t), files)
                        \ (IF limits.endpoint[t] = "Users" /\ limits.blacklist # NoLimit
                           THEN Meant(limits.blacklist, black) ELSE {}))
<1>   DEFINE l == create_limiter(t, files)
<1>1. IsLimiter(LimitOf(t))
      BY LimitOfIs
<1>2. IsLimiter(l) /\ include(l, obj) = (obj \in Meant(LimitOf(t), files))
      BY <1>1, IncludedAsMeant DEF create_limiter
<1>   HIDE DEF l
<1>3. CASE limits.endpoint[t] # "Users" \/ limits.blacklist = NoLimit
  <2>1. NewLimiter(t, files) = l
        BY <1>3 DEF NewLimiter, combine_with_user_blacklist, blacklist_limiter, l
  <2>   QED  BY <1>2, <1>3, <2>1
<1>4. CASE limits.endpoint[t] = "Users" /\ limits.blacklist # NoLimit
  <2>1. /\ IsLimiter(user_blacklist) /\ user_blacklist # NoLimit
        /\ include(user_blacklist, obj) = (obj \notin Meant(limits.blacklist, black))
        BY <1>4, BlacklistAsMeant
  <2>2. NewLimiter(t, files) = and_limiter(l, user_blacklist)
        BY <1>4, <2>1 DEF NewLimiter, combine_with_user_blacklist, l
  <2>3. include(and_limiter(l, user_blacklist), obj) = (include(l, obj) /\ include(user_blacklist, obj))
        BY <1>2, <2>1, AndIs
  <2>4. include(NewLimiter(t, files), obj) =
            (obj \in Meant(LimitOf(t), files) /\ obj \notin Meant(limits.blacklist, black))
        BY <1>2, <2>1, <2>2, <2>3
  <2>   QED  BY <1>4, <2>4
<1>   QED  BY <1>3, <1>4

-----------------------------------------------------------------------------
\* The inductive invariant, one step at a time.

LEMMA LimitersInitially ==
    ASSUME LimitersInit
    PROVE  LimitersInv
BY DEF LimitersInit, LimitersInv, NothingAdmitted

LEMMA set_user_blacklistKeeps ==
    ASSUME LimitersInv, set_user_blacklist
    PROVE  LimitersInv'
<1>1. limits' = limits /\ limiting' = "loading" /\ DOMAIN limiters = {}
      BY DEF set_user_blacklist, LimitersInv
<1>2. user_blacklist' = blacklist_limiter(blacklistRead)'
      BY <1>1 DEF set_user_blacklist, blacklist_limiter
<1>   QED  BY <1>1, <1>2 DEF set_user_blacklist, LimitersInv

\* What the files are now matters to no limiter that there is.
LEMMA LimitersUntouched ==
    ASSUME LimitersInv, limiting' = "started" => limiting = "started",
           limiting = "started" => limiting' = "started",
           UNCHANGED <<limits, user_blacklist, limiters, admitted, listsRead, blacklistRead>>
    PROVE  LimitersInv'
<1>1. ASSUME NEW t \in DOMAIN limiters
      PROVE  LimitOf(t)' = LimitOf(t) /\ NewLimiter(t, listsRead[t])' = NewLimiter(t, listsRead[t])
      BY DEF LimitOf, NewLimiter, create_limiter, combine_with_user_blacklist
<1>2. blacklist_limiter(blacklistRead)' = blacklist_limiter(blacklistRead)
      BY DEF blacklist_limiter
<1>3. \A t \in DOMAIN limiters' :
          /\ ~Refused(LimitOf(t))'
          /\ limiters'[t] = NewLimiter(t, listsRead[t])'
          /\ admitted'[t] = {o \in Loadable : include(limiters'[t], o)}
      BY <1>1 DEF LimitersInv, Refused
<1>   QED  BY <1>2, <1>3 DEF LimitersInv

LEMMA filter_objectsKeeps ==
    ASSUME LimitersInv, filter_objects
    PROVE  LimitersInv'
<1>1. PICK type \in LimitedTypes :
          /\ limiting = "loading"
          /\ ~Refused(LimitOf(type))
          /\ limiters' = [t \in DOMAIN limiters \cup {type} |->
                             IF t = type THEN get_limiter(type) ELSE limiters[t]]
          /\ admitted' = [admitted EXCEPT ![type] =
                             @ \cup {o \in Loadable : include(get_limiter(type), o)}]
          /\ listsRead' = [listsRead EXCEPT ![type] = IF type \in DOMAIN limiters THEN @ ELSE lists]
          /\ UNCHANGED <<limiting, limits, lists, user_blacklist, blacklistRead>>
      BY DEF filter_objects
<1>2. /\ LimitOf(type)' = LimitOf(type) /\ \A t : LimitOf(t)' = LimitOf(t)
      /\ blacklist_limiter(blacklistRead)' = blacklist_limiter(blacklistRead)
      BY <1>1 DEF LimitOf, blacklist_limiter
<1>3. \A t : NewLimiter(t, listsRead[t])' =
             IF t = type THEN NewLimiter(t, listsRead'[type]) ELSE NewLimiter(t, listsRead[t])
      BY <1>1 DEF NewLimiter, create_limiter, LimitOf, combine_with_user_blacklist, LimitersInv
<1>4. get_limiter(type) = NewLimiter(type, listsRead'[type])
      BY <1>1 DEF get_limiter, LimitersInv
<1>5. admitted'[type] = {o \in Loadable : include(get_limiter(type), o)}
      BY <1>1 DEF get_limiter, LimitersInv
<1>6. \A t \in LimitedTypes \ {type} : admitted'[t] = admitted[t]
      BY <1>1 DEF LimitersInv
<1>7. DOMAIN limiters' = DOMAIN limiters \cup {type} /\ limiters'[type] = get_limiter(type)
      BY <1>1
<1>8. \A t \in DOMAIN limiters \ {type} : limiters'[t] = limiters[t]
      BY <1>1
<1>9. ASSUME NEW t \in DOMAIN limiters'
      PROVE  /\ ~Refused(LimitOf(t))'
             /\ limiters'[t] = NewLimiter(t, listsRead[t])'
             /\ admitted'[t] = {o \in Loadable : include(limiters'[t], o)}
  <2>1. CASE t = type
    <3>1. ~Refused(LimitOf(t))'
          BY <1>1, <1>2, <2>1 DEF Refused
    <3>   QED  BY <1>3, <1>4, <1>5, <1>7, <2>1, <3>1
  <2>2. CASE t # type
    <3>1. t \in DOMAIN limiters /\ t \in LimitedTypes
          BY <1>7, <2>2 DEF LimitersInv
    <3>2. ~Refused(LimitOf(t)) /\ limiters[t] = NewLimiter(t, listsRead[t])
          /\ admitted[t] = {o \in Loadable : include(limiters[t], o)}
          BY <3>1 DEF LimitersInv
    <3>3. limiters'[t] = limiters[t] /\ admitted'[t] = admitted[t]
          BY <1>6, <1>8, <2>2, <3>1
    <3>4. ~Refused(LimitOf(t))'
          BY <1>2, <3>2 DEF Refused
    <3>   QED  BY <1>3, <2>2, <3>2, <3>3, <3>4
  <2>   QED  BY <2>1, <2>2
<1>10. /\ limits' \in LimiterConfigs /\ limiting' = "loading"
       /\ user_blacklist' = blacklist_limiter(blacklistRead)'
       /\ DOMAIN limiters' \subseteq LimitedTypes
       /\ DOMAIN admitted' = LimitedTypes /\ DOMAIN listsRead' = LimitedTypes
      BY <1>1, <1>2, <1>7 DEF LimitersInv
<1>11. \A t \in LimitedTypes \ DOMAIN limiters' : admitted'[t] = {}
      BY <1>6, <1>7 DEF LimitersInv
<1>   QED  BY <1>9, <1>10, <1>11 DEF LimitersInv

LEMMA LimitersStep ==
    ASSUME LimitersInv, [LimitersNext]_limiterVars
    PROVE  LimitersInv'
<1>1. CASE set_user_blacklist
      BY <1>1, set_user_blacklistKeeps
<1>2. CASE filter_objects
      BY <1>2, filter_objectsKeeps
<1>3. CASE LimiterIsRefused
      BY <1>3, LimitersUntouched DEF LimiterIsRefused
<1>4. CASE ListsChange
      BY <1>4, LimitersUntouched DEF ListsChange
<1>5. CASE UNCHANGED limiterVars
      BY <1>5, LimitersUntouched DEF limiterVars
<1>   QED  BY <1>1, <1>2, <1>3, <1>4, <1>5 DEF LimitersNext

LEMMA LimitersInvLimits ==
    ASSUME LimitersInv
    PROVE  LimitedAsMeant
<1>1. SUFFICES ASSUME NEW t \in DOMAIN limiters
               PROVE  admitted[t] =
                          Meant(LimitOf(t), listsRead[t])
                          \ (IF limits.endpoint[t] = "Users" /\ limits.blacklist # NoLimit
                             THEN Meant(limits.blacklist, blacklistRead) ELSE {})
      BY DEF LimitedAsMeant
<1>   DEFINE M == Meant(LimitOf(t), listsRead[t])
             W == M \ (IF limits.endpoint[t] = "Users" /\ limits.blacklist # NoLimit
                       THEN Meant(limits.blacklist, blacklistRead) ELSE {})
<1>2. /\ limits \in LimiterConfigs /\ t \in LimitedTypes /\ ~Refused(LimitOf(t))
      /\ user_blacklist = blacklist_limiter(blacklistRead)
      /\ limiters[t] = NewLimiter(t, listsRead[t])
      /\ admitted[t] = {o \in Loadable : include(limiters[t], o)}
      BY <1>1 DEF LimitersInv
<1>3. ASSUME NEW o \in Loadable PROVE include(limiters[t], o) = (o \in W)
      BY <1>2, NewAsMeant
<1>4. M \subseteq Loadable
      BY <1>2, LimitOfIs, MeantLoadable
<1>5. W \subseteq Loadable
      BY <1>4
<1>   HIDE DEF M, W
<1>6. admitted[t] = W
      BY <1>2, <1>3, <1>5
<1>   QED  BY <1>6 DEF W, M

\* However often a type is loaded and whenever its files are rewritten, what it
\* has is what its limiter let through when it was first asked, less the users
\* on the blacklist (get_limiter, set_user_blacklist).
THEOREM AdmittedAsMeant == LimitersSpec => []LimitedAsMeant
<1>1. LimitersInit => LimitersInv
      BY LimitersInitially
<1>2. LimitersInv /\ [LimitersNext]_limiterVars => LimitersInv'
      BY LimitersStep
<1>3. LimitersInv => LimitedAsMeant
      BY LimitersInvLimits
<1>   QED  BY <1>1, <1>2, <1>3, PTL DEF LimitersSpec

-----------------------------------------------------------------------------
\* Lists and the groups that are generated from them.

LEMMA ListIs ==
    ASSUME NEW s, IsList(s)
    PROVE  /\ s \in Seq(Range(s)) /\ Len(s) \in Nat /\ DOMAIN s = 1..Len(s)
           /\ \A n \in 1..Len(s) : s[n] \in Range(s)
           /\ \A x \in Range(s) : \E n \in 1..Len(s) : s[n] = x
<1>   DEFINE A == Range(s)
<1>1. s \in Seq(A)
      BY DEF IsList
<1>2. Len(s) \in Nat /\ DOMAIN s = 1..Len(s)
  <2>   HIDE DEF A
  <2>   QED  BY <1>1
<1>3. /\ \A n \in 1..Len(s) : s[n] \in A
      /\ \A x \in A : \E n \in 1..Len(s) : s[n] = x
      BY <1>2 DEF Range
<1>   QED  BY <1>1, <1>2, <1>3

LEMMA ListFrom ==
    ASSUME NEW A, NEW s \in Seq(A)
    PROVE  IsList(s) /\ Range(s) \subseteq A
<1>   DEFINE R == Range(s)
<1>1. Len(s) \in Nat /\ DOMAIN s = 1..Len(s) /\ s = [k \in 1..Len(s) |-> s[k]]
      OBVIOUS
<1>2. \A k \in 1..Len(s) : s[k] \in R /\ s[k] \in A
      BY <1>1 DEF Range
<1>3. R \subseteq A
      BY <1>1, <1>2 DEF Range
<1>   HIDE DEF R
<1>4. s \in [1..Len(s) -> R]
      BY <1>1, <1>2
<1>5. s \in Seq(R)
      BY <1>1, <1>4
<1>   QED  BY <1>3, <1>5 DEF IsList, R

LEMMA RangeOfConcat ==
    ASSUME NEW A, NEW s \in Seq(A), NEW t \in Seq(A)
    PROVE  Range(s \o t) = Range(s) \cup Range(t)
<1>   DEFINE w == s \o t
<1>1. /\ w \in Seq(A) /\ Len(w) = Len(s) + Len(t) /\ Len(s) \in Nat /\ Len(t) \in Nat
      /\ \A k \in 1..Len(s) : w[k] = s[k]
      /\ \A k \in 1..Len(t) : w[Len(s) + k] = t[k]
      OBVIOUS
<1>2. DOMAIN w = 1..Len(s) + Len(t) /\ DOMAIN s = 1..Len(s) /\ DOMAIN t = 1..Len(t)
      BY <1>1
<1>   HIDE DEF w
<1>3. ASSUME NEW x \in Range(w) PROVE x \in Range(s) \cup Range(t)
  <2>1. PICK k \in 1..Len(s) + Len(t) : w[k] = x
        BY <1>2 DEF Range
  <2>2. CASE k \in 1..Len(s)
        BY <1>1, <1>2, <2>1, <2>2 DEF Range
  <2>3. CASE k \notin 1..Len(s)
    <3>1. k - Len(s) \in 1..Len(t) /\ Len(s) + (k - Len(s)) = k
          BY <1>1, <2>1, <2>3
    <3>2. t[k - Len(s)] = x
          BY <1>1, <2>1, <3>1
    <3>   QED  BY <1>2, <3>1, <3>2 DEF Range
  <2>   QED  BY <2>2, <2>3
<1>4. ASSUME NEW x \in Range(s) PROVE x \in Range(w)
  <2>1. PICK k \in 1..Len(s) : s[k] = x
        BY <1>2 DEF Range
  <2>2. k \in 1..Len(s) + Len(t) /\ w[k] = x
        BY <1>1, <2>1
  <2>   QED  BY <1>2, <2>2 DEF Range
<1>5. ASSUME NEW x \in Range(t) PROVE x \in Range(w)
  <2>1. PICK k \in 1..Len(t) : t[k] = x
        BY <1>2 DEF Range
  <2>2. Len(s) + k \in 1..Len(s) + Len(t) /\ w[Len(s) + k] = x
        BY <1>1, <2>1
  <2>   QED  BY <1>2, <2>2 DEF Range
<1>   QED  BY <1>3, <1>4, <1>5 DEF w

\* What sequences put together hold is what they hold.
LEMMA RangeOfFlatten ==
    ASSUME NEW A, NEW seqs \in Seq(Seq(A))
    PROVE  \A x : x \in Range(FlattenSeq(seqs)) <=> \E i \in 1..Len(seqs) : x \in Range(seqs[i])
<1>   DEFINE n == Len(seqs)
             Holds(m, s) == \A x : x \in Range(s) <=> \E i \in 1..m : x \in Range(seqs[i])
<1>1. n \in Nat /\ \A i \in 1..n : seqs[i] \in Seq(A)
      OBVIOUS
<1>2. CASE n = 0
  <2>1. FlattenSeq(seqs) = <<>>
        BY <1>2 DEF FlattenSeq
  <2>2. Range(<<>>) = {}
        BY DEF Range
  <2>   QED  BY <1>2, <2>1, <2>2
<1>3. CASE n # 0
  <2>1. PICK f \in [1..n -> Seq(A)] : Flattens(f, n, seqs) /\ FlattenSeq(seqs) = f[n]
        BY <1>3, FlattenIs
  <2>   DEFINE S == {m \in 0..n : m # 0 => Holds(m, f[m])}
  <2>2. 0 \in S
        BY <1>1
  <2>3. ASSUME NEW m \in 0..n - 1, m \in S PROVE m + 1 \in S
    <3>1. m + 1 \in 1..n /\ m + 1 \in 0..n
          BY <1>1
    <3>2. CASE m = 0
      <4>1. f[1] = seqs[1]
        <5>1. 1 \in 1..n
              BY <3>1, <3>2
        <5>   HIDE DEF n
        <5>   QED  BY <2>1, <5>1 DEF Flattens
      <4>2. Holds(1, seqs[1])
            OBVIOUS
      <4>3. Holds(m + 1, f[m + 1])
            BY <3>2, <4>1, <4>2
      <4>   QED  BY <3>1, <4>3
    <3>3. CASE m # 0
      <4>1. m \in 1..n /\ (m + 1) - 1 = m /\ m + 1 # 1 /\ m \in Nat
            BY <1>1, <3>3
      <4>2. f[m + 1] = f[m] \o seqs[m + 1]
            BY <2>1, <3>1, <4>1 DEF Flattens
      <4>3. f[m] \in Seq(A) /\ seqs[m + 1] \in Seq(A)
            BY <1>1, <2>1, <3>1, <4>1
      <4>4. Holds(m, f[m])
            BY <2>3, <3>3
      <4>5. Range(f[m] \o seqs[m + 1]) = Range(f[m]) \cup Range(seqs[m + 1])
            BY <4>3, RangeOfConcat
      <4>6. \A i : i \in 1..m + 1 <=> i \in 1..m \/ i = m + 1
            BY <4>1
      <4>7. Holds(m + 1, f[m + 1])
            BY <4>2, <4>4, <4>5, <4>6
      <4>   QED  BY <3>1, <4>7
    <3>   QED  BY <3>2, <3>3
  <2>4. \A m \in 0..n : m \in S
    <3>   HIDE DEF S, n
    <3>   QED  BY <1>1, <2>2, <2>3, UpTo
  <2>5. n \in S
    <3>1. n \in 0..n
          BY <1>1
    <3>   HIDE DEF S, n
    <3>   QED  BY <2>4, <3>1
  <2>6. Holds(n, f[n])
    <3>   HIDE DEF Holds, n
    <3>   QED  BY <1>3, <2>5
  <2>   QED  BY <2>1, <2>6
<1>   QED  BY <1>2, <1>3

LEMMA AmongIs ==
    ASSUME NEW list, IsList(list), NEW S
    PROVE  IsList(Among(list, S)) /\ Range(Among(list, S)) = Range(list) \cap S
<1>   DEFINE A == Range(list)
             seqs == [n \in DOMAIN list |-> IF list[n] \in S THEN <<list[n]>> ELSE <<>>]
<1>1. /\ Len(list) \in Nat /\ DOMAIN list = 1..Len(list)
      /\ \A n \in 1..Len(list) : list[n] \in A
      /\ \A x \in A : \E n \in 1..Len(list) : list[n] = x
      BY ListIs
<1>   HIDE DEF A
<1>2. seqs \in Seq(Seq(A)) /\ Len(seqs) = Len(list)
  <2>1. \A n \in 1..Len(list) : seqs[n] \in Seq(A)
        BY <1>1
  <2>2. seqs = [n \in 1..Len(list) |-> seqs[n]]
        BY <1>1
  <2>   HIDE DEF seqs
  <2>   QED  BY <1>1, <2>1, <2>2
<1>3. \A n \in 1..Len(list) : Range(seqs[n]) = {list[n]} \cap S
  <2>1. \A x : Range(<<x>>) = {x}
        BY DEF Range
  <2>2. Range(<<>>) = {}
        BY DEF Range
  <2>3. ASSUME NEW n \in 1..Len(list) PROVE Range(seqs[n]) = {list[n]} \cap S
    <3>1. CASE list[n] \in S
      <4>1. seqs[n] = <<list[n]>>
            BY <1>1, <3>1
      <4>   HIDE DEF seqs
      <4>   QED  BY <2>1, <3>1, <4>1
    <3>2. CASE list[n] \notin S
      <4>1. seqs[n] = <<>>
            BY <1>1, <3>2
      <4>   HIDE DEF seqs
      <4>   QED  BY <2>2, <3>2, <4>1
    <3>   QED  BY <3>1, <3>2
  <2>   QED  BY <2>3
<1>4. Among(list, S) = FlattenSeq(seqs)
      BY DEF Among
<1>   HIDE DEF seqs
<1>5. IsList(FlattenSeq(seqs))
      BY <1>2, FlattenType, ListFrom
<1>6. \A x : x \in Range(FlattenSeq(seqs)) <=> \E i \in 1..Len(list) : x \in Range(seqs[i])
      BY <1>2, RangeOfFlatten
<1>7. \A x : x \in Range(FlattenSeq(seqs)) <=> x \in A /\ x \in S
  <2>1. \A x : \A i \in 1..Len(list) : x \in Range(seqs[i]) <=> x = list[i] /\ x \in S
        BY <1>3
  <2>   QED  BY <1>1, <1>6, <2>1
<1>   QED  BY <1>4, <1>5, <1>7 DEF A

LEMMA HeadAndTail ==
    ASSUME NEW s, IsList(s), s # <<>>
    PROVE  IsList(Tail(s)) /\ Range(s) = {Head(s)} \cup Range(Tail(s))
<1>   DEFINE A == Range(s)
<1>1. /\ s \in Seq(A) /\ Len(s) \in Nat /\ DOMAIN s = 1..Len(s)
      /\ \A n \in 1..Len(s) : s[n] \in A
      /\ \A x \in A : \E n \in 1..Len(s) : s[n] = x
      BY ListIs
<1>   HIDE DEF A
<1>2. /\ Tail(s) \in Seq(A) /\ Len(Tail(s)) = Len(s) - 1 /\ Len(s) >= 1 /\ Head(s) = s[1]
      /\ \A n \in 1..Len(s) - 1 : Tail(s)[n] = s[n + 1]
      BY <1>1
<1>3. IsList(Tail(s)) /\ Range(Tail(s)) \subseteq A
      BY <1>2, ListFrom
<1>4. ASSUME NEW x \in A PROVE x = Head(s) \/ x \in Range(Tail(s))
  <2>1. PICK n \in 1..Len(s) : s[n] = x
        BY <1>1
  <2>2. CASE n = 1
        BY <1>2, <2>1, <2>2
  <2>3. CASE n # 1
    <3>1. n - 1 \in 1..Len(s) - 1 /\ (n - 1) + 1 = n /\ n - 1 \in DOMAIN Tail(s)
          BY <1>1, <1>2, <2>3
    <3>2. Tail(s)[n - 1] = x
          BY <1>2, <2>1, <3>1
    <3>   QED  BY <3>1, <3>2 DEF Range
  <2>   QED  BY <2>2, <2>3
<1>5. Head(s) \in A
      BY <1>1, <1>2
<1>   QED  BY <1>3, <1>4, <1>5 DEF A

LEMMA AppendToList ==
    ASSUME NEW s, IsList(s), NEW x
    PROVE  IsList(Append(s, x)) /\ Range(Append(s, x)) = Range(s) \cup {x}
<1>   DEFINE A == Range(s) \cup {x}
             w == Append(s, x)
<1>1. /\ s \in Seq(Range(s)) /\ Len(s) \in Nat /\ DOMAIN s = 1..Len(s)
      /\ \A y \in Range(s) : \E n \in 1..Len(s) : s[n] = y
      BY ListIs
<1>2. s \in Seq(A)
  <2>1. \A n \in 1..Len(s) : s[n] \in A
        BY <1>1 DEF Range
  <2>2. s = [n \in 1..Len(s) |-> s[n]]
        BY <1>1
  <2>   HIDE DEF A
  <2>   QED  BY <1>1, <2>1, <2>2
<1>3. x \in A
      OBVIOUS
<1>   HIDE DEF A
<1>4. /\ w \in Seq(A) /\ Len(w) = Len(s) + 1 /\ w[Len(s) + 1] = x
      /\ \A n \in 1..Len(s) : w[n] = s[n]
      BY <1>2, <1>3, AppendProperties
<1>   HIDE DEF w
<1>5. IsList(w) /\ Range(w) \subseteq A
      BY <1>4, ListFrom
<1>6. DOMAIN w = 1..Len(s) + 1
      BY <1>1, <1>4
<1>7. x \in Range(w)
  <2>1. Len(s) + 1 \in DOMAIN w
        BY <1>1, <1>6
  <2>   QED  BY <1>4, <2>1 DEF Range
<1>8. ASSUME NEW y \in Range(s) PROVE y \in Range(w)
  <2>1. PICK n \in 1..Len(s) : s[n] = y
        BY <1>1
  <2>2. n \in DOMAIN w /\ w[n] = y
        BY <1>1, <1>4, <1>6, <2>1
  <2>   QED  BY <2>2 DEF Range
<1>   QED  BY <1>5, <1>7, <1>8 DEF A, w

-----------------------------------------------------------------------------
\* Who belongs to a group, by the values of the users.

\* The value of a user, where it is a match for a specification.
IsMatching(t, u, n, v) ==
    /\ n \in DOMAIN generate.attributes
    /\ v \in Range(get_values(users[t][u], generate.attributes[n].from))
    /\ regex_match(v, generate.attributes[n].match)

LEMMA ValuesForIs ==
    ASSUME users \in UserLists, NEW t, NEW u \in UsersOf(t), NEW spec
    PROVE  /\ IsList(ValuesFor(t, u, spec))
           /\ \A v : v \in Range(ValuesFor(t, u, spec)) <=>
                  /\ v \in Range(get_values(users[t][u], spec.from))
                  /\ regex_match(v, spec.match)
<1>   DEFINE values == get_values(users[t][u], spec.from)
             S == {v \in Range(values) : regex_match(v, spec.match)}
<1>1. t \in DOMAIN users /\ u \in DOMAIN users[t]
      BY DEF UsersOf
<1>2. IsList(values)
  <2>1. HasLists(users)
        BY GroupAssumption
  <2>2. IsList(<<>>)
        BY EmptySeq, ListFrom
  <2>   QED  BY <1>1, <2>1, <2>2 DEF HasLists, get_values
<1>3. ValuesFor(t, u, spec) = Among(values, S)
      BY DEF ValuesFor
<1>   HIDE DEF values
<1>4. IsList(Among(values, S)) /\ Range(Among(values, S)) = Range(values) \cap S
      BY <1>2, AmongIs
<1>   QED  BY <1>3, <1>4 DEF values

LEMMA MatchesOfIs ==
    ASSUME generate \in GenerateConfigs, users \in UserLists, NEW t, NEW u \in UsersOf(t)
    PROVE  /\ IsList(MatchesOf(t, u))
           /\ \A x : x \in Range(MatchesOf(t, u)) <=>
                  \E n, v : IsMatching(t, u, n, v) /\ x = Match(t, u, generate.attributes[n], v)
<1>   DEFINE attributes == generate.attributes
             values(n) == ValuesFor(t, u, attributes[n])
             seqs == [n \in DOMAIN attributes |->
                         [k \in DOMAIN values(n) |-> Match(t, u, attributes[n], values(n)[k])]]
             A == UNION {{Match(t, u, attributes[n], v) : v \in Range(values(n))} : n \in DOMAIN attributes}
<1>1. IsList(attributes)
      BY GroupAssumption
<1>2. Len(attributes) \in Nat /\ DOMAIN attributes = 1..Len(attributes)
      BY <1>1, ListIs
<1>3. \A n \in 1..Len(attributes) :
          /\ IsList(values(n))
          /\ \A v : v \in Range(values(n)) <=> IsMatching(t, u, n, v)
      BY <1>2, ValuesForIs DEF IsMatching
<1>4. MatchesOf(t, u) = FlattenSeq(seqs)
      BY DEF MatchesOf
<1>   HIDE DEF attributes, values
<1>5. ASSUME NEW n \in 1..Len(attributes)
      PROVE  /\ seqs[n] \in Seq(A)
             /\ \A x : x \in Range(seqs[n]) <=>
                    \E v : IsMatching(t, u, n, v) /\ x = Match(t, u, attributes[n], v)
  <2>1. /\ IsList(values(n))
        /\ \A v : v \in Range(values(n)) <=> IsMatching(t, u, n, v)
        BY <1>3
  <2>2. /\ Len(values(n)) \in Nat /\ DOMAIN values(n) = 1..Len(values(n))
        /\ \A k \in 1..Len(values(n)) : values(n)[k] \in Range(values(n))
        /\ \A v \in Range(values(n)) : \E k \in 1..Len(values(n)) : values(n)[k] = v
        BY <2>1, ListIs
  <2>3. seqs[n] = [k \in 1..Len(values(n)) |-> Match(t, u, attributes[n], values(n)[k])]
        BY <1>2, <2>2
  <2>   DEFINE s == seqs[n]
  <2>   HIDE DEF seqs
  <2>4. \A k \in 1..Len(values(n)) : Match(t, u, attributes[n], values(n)[k]) \in A
        BY <1>2, <2>2
  <2>   HIDE DEF A
  <2>5. s \in Seq(A) /\ DOMAIN s = 1..Len(values(n))
        /\ \A k \in 1..Len(values(n)) : s[k] = Match(t, u, attributes[n], values(n)[k])
        BY <2>2, <2>3, <2>4
  <2>   HIDE DEF s
  <2>6. \A x : x \in Range(s) <=>
            \E v : v \in Range(values(n)) /\ x = Match(t, u, attributes[n], v)
        BY <2>2, <2>5 DEF Range
  <2>   QED  BY <2>1, <2>5, <2>6 DEF s
<1>6. seqs \in Seq(Seq(A)) /\ Len(seqs) = Len(attributes)
  <2>1. seqs = [n \in 1..Len(attributes) |-> seqs[n]]
        BY <1>2
  <2>   HIDE DEF seqs, A
  <2>   QED  BY <1>2, <1>5, <2>1
<1>   HIDE DEF seqs, A
<1>7. IsList(FlattenSeq(seqs))
      BY <1>6, FlattenType, ListFrom
<1>8. \A x : x \in Range(FlattenSeq(seqs)) <=> \E n \in 1..Len(attributes) : x \in Range(seqs[n])
      BY <1>6, RangeOfFlatten
<1>9. \A x : x \in Range(FlattenSeq(seqs)) <=>
          \E n, v : IsMatching(t, u, n, v) /\ x = Match(t, u, attributes[n], v)
  <2>1. \A n, v : IsMatching(t, u, n, v) => n \in 1..Len(attributes)
        BY <1>2 DEF IsMatching, attributes
  <2>2. ASSUME NEW n \in 1..Len(attributes)
        PROVE  \A x : x \in Range(seqs[n]) <=>
                   \E v : IsMatching(t, u, n, v) /\ x = Match(t, u, attributes[n], v)
        BY <1>5
  <2>3. ASSUME NEW x \in Range(FlattenSeq(seqs))
        PROVE  \E n, v : IsMatching(t, u, n, v) /\ x = Match(t, u, attributes[n], v)
    <3>1. PICK n \in 1..Len(attributes) : x \in Range(seqs[n])
          BY <1>8
    <3>   QED  BY <2>2, <3>1
  <2>4. ASSUME NEW n, NEW v, IsMatching(t, u, n, v)
        PROVE  Match(t, u, attributes[n], v) \in Range(FlattenSeq(seqs))
    <3>1. n \in 1..Len(attributes)
          BY <2>1, <2>4
    <3>2. Match(t, u, attributes[n], v) \in Range(seqs[n])
          BY <2>2, <2>4, <3>1
    <3>   QED  BY <1>8, <3>1, <3>2
  <2>   QED  BY <2>3, <2>4
<1>10. /\ IsList(MatchesOf(t, u))
       /\ \A x : x \in Range(MatchesOf(t, u)) <=>
              \E n, v : IsMatching(t, u, n, v) /\ x = Match(t, u, attributes[n], v)
      BY <1>4, <1>7, <1>9
<1>   QED  BY <1>10, Zenon DEF attributes

LEMMA MembershipsAre ==
    ASSUME NEW m
    PROVE  m \in Memberships <=>
               \E t, u, n, v :
                   t \in FromTypes /\ u \in UsersOf(t) /\ IsMatching(t, u, n, v) /\ m = <<t, u, n, v>>
<1>   DEFINE V(t, u, n) == {w \in Range(get_values(users[t][u], generate.attributes[n].from)) :
                              regex_match(w, generate.attributes[n].match)}
             By(t, u, n) == {<<t, u, n, v>> : v \in V(t, u, n)}
             Of(t) == UNION {By(t, u, n) : u \in UsersOf(t), n \in DOMAIN generate.attributes}
<1>1. Memberships = UNION {Of(t) : t \in FromTypes}
      BY DEF Memberships
<1>2. \A t, u, n, v : n \in DOMAIN generate.attributes /\ v \in V(t, u, n) <=> IsMatching(t, u, n, v)
      BY DEF IsMatching
<1>   HIDE DEF V
<1>3. ASSUME NEW t
      PROVE  m \in Of(t) <=>
                 \E u \in UsersOf(t), n \in DOMAIN generate.attributes :
                     \E v \in V(t, u, n) : m = <<t, u, n, v>>
  <2>1. \A u, n : m \in By(t, u, n) <=> \E v \in V(t, u, n) : m = <<t, u, n, v>>
        OBVIOUS
  <2>   HIDE DEF By
  <2>2. m \in Of(t) <=> \E u \in UsersOf(t), n \in DOMAIN generate.attributes : m \in By(t, u, n)
        OBVIOUS
  <2>   HIDE DEF Of
  <2>   QED  BY <2>1, <2>2, Zenon
<1>   HIDE DEF Of
<1>4. m \in Memberships <=> \E t \in FromTypes : m \in Of(t)
      BY <1>1, Zenon
<1>   QED  BY <1>2, <1>3, <1>4, Zenon

LEMMA MembershipIs ==
    ASSUME NEW m \in Memberships
    PROVE  /\ m[1] \in FromTypes /\ m[2] \in UsersOf(m[1]) /\ IsMatching(m[1], m[2], m[3], m[4])
           /\ MatchFor(m).type = m[1] /\ MatchFor(m).user = m[2] /\ uuid_of(MatchFor(m)) = Names(m)
<1>1. PICK t, u, n, v :
          t \in FromTypes /\ u \in UsersOf(t) /\ IsMatching(t, u, n, v) /\ m = <<t, u, n, v>>
      BY MembershipsAre
<1>2. m[1] = t /\ m[2] = u /\ m[3] = n /\ m[4] = v
      BY <1>1
<1>3. MatchFor(m) = [type |-> t, user |-> u, spec |-> generate.attributes[n], from |-> v]
      BY <1>2 DEF MatchFor, Match
<1>4. /\ MatchFor(m).type = t /\ MatchFor(m).user = u
      /\ MatchFor(m).spec = generate.attributes[n] /\ MatchFor(m).from = v
      BY <1>3
<1>5. uuid_of(MatchFor(m)) = Names(m)
      BY <1>2, <1>4 DEF uuid_of, Names
<1>   QED  BY <1>1, <1>2, <1>4, <1>5

\* The values of a user are that user's memberships.
LEMMA MatchesAreMemberships ==
    ASSUME generate \in GenerateConfigs, users \in UserLists, NEW t \in FromTypes, NEW u \in UsersOf(t)
    PROVE  /\ IsList(MatchesOf(t, u))
           /\ Range(MatchesOf(t, u)) \subseteq {MatchFor(m) : m \in Memberships}
           /\ \A m \in Memberships : m[1] = t /\ m[2] = u => MatchFor(m) \in Range(MatchesOf(t, u))
<1>1. /\ IsList(MatchesOf(t, u))
      /\ \A x : x \in Range(MatchesOf(t, u)) <=>
             \E n, v : IsMatching(t, u, n, v) /\ x = Match(t, u, generate.attributes[n], v)
      BY MatchesOfIs
<1>2. ASSUME NEW x \in Range(MatchesOf(t, u)) PROVE x \in {MatchFor(m) : m \in Memberships}
  <2>1. PICK n, v : IsMatching(t, u, n, v) /\ x = Match(t, u, generate.attributes[n], v)
        BY <1>1
  <2>   DEFINE m == <<t, u, n, v>>
  <2>2. m \in Memberships
        BY <2>1, MembershipsAre
  <2>3. MatchFor(m) = x
        BY <2>1 DEF MatchFor
  <2>   HIDE DEF m
  <2>   QED  BY <2>2, <2>3
<1>3. ASSUME NEW m \in Memberships, m[1] = t, m[2] = u PROVE MatchFor(m) \in Range(MatchesOf(t, u))
  <2>1. IsMatching(t, u, m[3], m[4])
        BY <1>3, MembershipIs
  <2>2. MatchFor(m) = Match(t, u, generate.attributes[m[3]], m[4])
        BY <1>3 DEF MatchFor
  <2>   QED  BY <1>1, <2>1, <2>2
<1>   QED  BY <1>1, <1>2, <1>3

\* Nobody's values, nor what is configured, change.
LEMMA MembershipsStay ==
    ASSUME UNCHANGED <<generate, users>>
    PROVE  /\ FromTypes' = FromTypes /\ Memberships' = Memberships /\ Ids' = Ids
           /\ \A t : UsersOf(t)' = UsersOf(t)
           /\ \A m : Names(m)' = Names(m) /\ MatchFor(m)' = MatchFor(m)
           /\ \A id : MembersOf(id)' = MembersOf(id)
<1>1. FromTypes' = FromTypes /\ \A t : UsersOf(t)' = UsersOf(t)
      BY DEF FromTypes, UsersOf
<1>2. \A m : Names(m)' = Names(m) /\ MatchFor(m)' = MatchFor(m)
      BY DEF Names, MatchFor
<1>3. Memberships' = Memberships
      BY DEF Memberships, FromTypes, UsersOf
<1>4. Ids' = Ids
      BY <1>2, <1>3 DEF Ids
<1>5. \A id : MembersOf(id)' = MembersOf(id)
      BY <1>2, <1>3 DEF MembersOf
<1>   QED  BY <1>1, <1>2, <1>3, <1>4, <1>5

LEMMA GroupsInitially ==
    ASSUME GroupsInit
    PROVE  GroupsInv
<1>1. IsList(<<>>) /\ Range(<<>>) = {} /\ DOMAIN <<>> = {}
  <2>1. IsList(<<>>)
        BY EmptySeq, ListFrom
  <2>2. Range(<<>>) = {} /\ DOMAIN <<>> = {}
        BY DEF Range
  <2>   QED  BY <2>1, <2>2
<1>2. QueuesAsMeant /\ MembersAsMeant /\ RefusedAsMeant
      BY <1>1 DEF GroupsInit, NothingGenerated, QueuesAsMeant, MembersAsMeant, RefusedAsMeant
<1>   QED  BY <1>2 DEF GroupsInit, NothingGenerated, GroupsInv

\* Those who are members, or whose group was refused, as long as groups only grow.
LEMMA HandledStays ==
    ASSUME UNCHANGED <<generate, users>>, NEW m,
           IsMember(m) \/ Names(m) \in dont_try_again,
           dont_try_again \subseteq dont_try_again', relations \subseteq relations',
           \A id \in DOMAIN generated :
               /\ id \in DOMAIN generated'
               /\ Range(generated[id].members) \subseteq Range(generated'[id].members)
    PROVE  IsMember(m)' \/ Names(m)' \in dont_try_again'
<1>1. Names(m)' = Names(m)
      BY MembershipsStay
<1>2. CASE IsMember(m)
  <2>1. IsMember(m)'
        BY <1>1, <1>2 DEF IsMember
  <2>   QED  BY <2>1
<1>   QED  BY <1>1, <1>2

LEMMA GroupsStay ==
    ASSUME UNCHANGED <<generate, users>>, UNCHANGED <<generated, dont_try_again, relations>>
    PROVE  /\ MembersAsMeant => MembersAsMeant'
           /\ RefusedAsMeant => RefusedAsMeant'
           /\ \A m : IsMember(m) \/ Names(m) \in dont_try_again =>
                         IsMember(m)' \/ Names(m)' \in dont_try_again'
<1>1. /\ Memberships' = Memberships /\ Ids' = Ids
      /\ \A m : Names(m)' = Names(m)
      /\ \A id : MembersOf(id)' = MembersOf(id)
      BY MembershipsStay
<1>2. MembersAsMeant => MembersAsMeant'
      BY <1>1 DEF MembersAsMeant
<1>3. RefusedAsMeant => RefusedAsMeant'
      BY DEF RefusedAsMeant
<1>   QED  BY <1>2, <1>3, HandledStays

LEMMA parse_student_group_attributesKeeps ==
    ASSUME GroupsInv, parse_student_group_attributes
    PROVE  GroupsInv'
<1>1. /\ generating = "started" /\ generating' \in {"groups", "failed"}
      /\ from_types' = generate.from_types
      /\ UNCHANGED <<user_list, matches, generated, dont_try_again, relations>>
      /\ UNCHANGED <<generate, users, employments, activities, student_groups>>
      BY DEF parse_student_group_attributes, groupFrame
<1>2. /\ FromTypes' = FromTypes /\ Memberships' = Memberships
      /\ \A t : UsersOf(t)' = UsersOf(t)
      /\ \A m : MatchFor(m)' = MatchFor(m)
      BY <1>1, MembershipsStay
<1>3. QueuesAsMeant /\ MembersAsMeant /\ RefusedAsMeant /\ generate \in GenerateConfigs
      BY DEF GroupsInv
<1>4. MembersAsMeant' /\ RefusedAsMeant'
      BY <1>1, <1>3, GroupsStay
<1>5. IsList(from_types') /\ Range(from_types') = FromTypes
      BY <1>1, <1>3, GroupAssumption DEF FromTypes
<1>6. QueuesAsMeant'
      BY <1>1, <1>2, <1>3, <1>5 DEF QueuesAsMeant
<1>7. \A m \in Memberships' : Pending(m)'
      BY <1>2, <1>5, MembershipIs DEF Pending
<1>   QED  BY <1>1, <1>4, <1>6, <1>7 DEF GroupsInv

LEMMA NextTypeKeeps ==
    ASSUME GroupsInv, NextType
    PROVE  GroupsInv'
<1>   DEFINE t == Head(from_types)
<1>1. /\ generating = "groups" /\ user_list = {} /\ from_types # <<>>
      /\ user_list' = {<<t, u>> : u \in UsersOf(t)}
      /\ from_types' = Tail(from_types)
      /\ UNCHANGED <<generating, matches, generated, dont_try_again, relations>>
      /\ UNCHANGED <<generate, users, employments, activities, student_groups>>
      BY DEF NextType, UserIsDone, groupFrame
<1>2. /\ FromTypes' = FromTypes /\ Memberships' = Memberships
      /\ \A x : UsersOf(x)' = UsersOf(x)
      /\ \A m : MatchFor(m)' = MatchFor(m)
      BY <1>1, MembershipsStay
<1>3. QueuesAsMeant /\ MembersAsMeant /\ RefusedAsMeant
      BY DEF GroupsInv
<1>4. MembersAsMeant' /\ RefusedAsMeant'
      BY <1>1, <1>3, GroupsStay
<1>5. IsList(from_types') /\ Range(from_types) = {t} \cup Range(from_types')
      BY <1>1, <1>3, HeadAndTail DEF QueuesAsMeant
<1>   HIDE DEF t
<1>6. t \in FromTypes /\ Range(from_types') \subseteq FromTypes
      BY <1>3, <1>5 DEF QueuesAsMeant
<1>7. QueuesAsMeant'
  <2>1. \A member \in user_list' : member[1] \in FromTypes /\ member[2] \in UsersOf(member[1])
                                   /\ member = <<member[1], member[2]>>
        BY <1>1, <1>6
  <2>   QED  BY <1>1, <1>2, <1>3, <1>5, <1>6, <2>1 DEF QueuesAsMeant
<1>8. ASSUME NEW m \in Memberships'
      PROVE  Pending(m)' \/ IsMember(m)' \/ Names(m)' \in dont_try_again'
  <2>1. m \in Memberships /\ m[2] \in UsersOf(m[1])
        BY <1>2, MembershipIs
  <2>2. Pending(m) \/ IsMember(m) \/ Names(m) \in dont_try_again
        BY <1>1, <2>1 DEF GroupsInv
  <2>3. CASE IsMember(m) \/ Names(m) \in dont_try_again
        BY <1>1, <2>3, GroupsStay
  <2>4. CASE Pending(m)
    <3>1. m[1] \in Range(from_types) \/ MatchFor(m) \in Range(matches)
          BY <1>1, <2>4 DEF Pending
    <3>2. CASE m[1] = t
      <4>1. <<m[1], m[2]>> \in user_list'
            BY <1>1, <2>1, <3>2
      <4>   QED  BY <4>1 DEF Pending
    <3>3. CASE m[1] # t
      <4>1. m[1] \in Range(from_types') \/ MatchFor(m)' \in Range(matches')
            BY <1>1, <1>2, <1>5, <3>1, <3>3
      <4>   QED  BY <4>1 DEF Pending
    <3>   QED  BY <3>2, <3>3
  <2>   QED  BY <2>2, <2>3, <2>4
<1>   QED  BY <1>1, <1>4, <1>7, <1>8 DEF GroupsInv

LEMMA NextUserKeeps ==
    ASSUME GroupsInv, NextUser
    PROVE  GroupsInv'
<1>1. PICK member \in user_list :
          /\ generating = "groups" /\ matches = <<>>
          /\ user_list' = user_list \ {member}
          /\ matches' = MatchesOf(member[1], member[2])
          /\ UNCHANGED <<generating, from_types, generated, dont_try_again, relations>>
          /\ UNCHANGED <<generate, users, employments, activities, student_groups>>
      BY DEF NextUser, UserIsDone, groupFrame
<1>2. /\ FromTypes' = FromTypes /\ Memberships' = Memberships
      /\ \A x : UsersOf(x)' = UsersOf(x)
      /\ \A m : MatchFor(m)' = MatchFor(m)
      BY <1>1, MembershipsStay
<1>3. /\ QueuesAsMeant /\ MembersAsMeant /\ RefusedAsMeant
      /\ generate \in GenerateConfigs /\ users \in UserLists
      BY DEF GroupsInv
<1>4. MembersAsMeant' /\ RefusedAsMeant'
      BY <1>1, <1>3, GroupsStay
<1>5. member[1] \in FromTypes /\ member[2] \in UsersOf(member[1]) /\ member = <<member[1], member[2]>>
      BY <1>1, <1>3 DEF QueuesAsMeant
<1>6. /\ IsList(matches')
      /\ Range(matches') \subseteq {MatchFor(m) : m \in Memberships}
      /\ \A m \in Memberships : m[1] = member[1] /\ m[2] = member[2] => MatchFor(m) \in Range(matches')
      BY <1>1, <1>3, <1>5, MatchesAreMemberships
<1>7. {MatchFor(m) : m \in Memberships}' = {MatchFor(m) : m \in Memberships}
      BY <1>2
<1>8. QueuesAsMeant'
      BY <1>1, <1>2, <1>3, <1>6, <1>7 DEF QueuesAsMeant
<1>9. ASSUME NEW m \in Memberships'
      PROVE  Pending(m)' \/ IsMember(m)' \/ Names(m)' \in dont_try_again'
  <2>1. m \in Memberships
        BY <1>2
  <2>2. Pending(m) \/ IsMember(m) \/ Names(m) \in dont_try_again
        BY <1>1, <2>1 DEF GroupsInv
  <2>3. CASE IsMember(m) \/ Names(m) \in dont_try_again
        BY <1>1, <2>3, GroupsStay
  <2>4. CASE Pending(m)
    <3>1. m[1] \in Range(from_types) \/ <<m[1], m[2]>> \in user_list
      <4>1. Range(<<>>) = {}
            BY DEF Range
      <4>   QED  BY <1>1, <2>4, <4>1 DEF Pending
    <3>2. CASE <<m[1], m[2]>> = member
      <4>1. MatchFor(m)' \in Range(matches')
            BY <1>2, <1>5, <1>6, <2>1, <3>2
      <4>   QED  BY <4>1 DEF Pending
    <3>3. CASE <<m[1], m[2]>> # member
      <4>1. m[1] \in Range(from_types') \/ <<m[1], m[2]>> \in user_list'
            BY <1>1, <3>1, <3>3
      <4>   QED  BY <4>1 DEF Pending
    <3>   QED  BY <3>2, <3>3
  <2>   QED  BY <2>2, <2>3, <2>4
<1>   QED  BY <1>1, <1>3, <1>4, <1>8, <1>9 DEF GroupsInv

\* A value has been dealt with when its user has joined the group or the group
\* is one that was refused.
LEMMA MatchIsTaken ==
    ASSUME GroupsInv, NEW m \in Range(matches), ForMatch(m),
           dont_try_again \subseteq dont_try_again', relations \subseteq relations',
           \A id \in DOMAIN generated :
               /\ id \in DOMAIN generated'
               /\ Range(generated[id].members) \subseteq Range(generated'[id].members),
           \/ uuid_of(m) \in dont_try_again'
           \/ /\ uuid_of(m) \in DOMAIN generated'
              /\ <<m.type, m.user>> \in Range(generated'[uuid_of(m)].members)
              /\ <<m.user, uuid_of(m)>> \in relations',
           MembersAsMeant', RefusedAsMeant'
    PROVE  GroupsInv'
<1>1. /\ generating = "groups" /\ matches # <<>> /\ m = Head(matches) /\ matches' = Tail(matches)
      /\ UNCHANGED <<generating, from_types, user_list>>
      /\ UNCHANGED <<generate, users, employments, activities, student_groups>>
      BY DEF ForMatch, groupFrame
<1>2. /\ FromTypes' = FromTypes /\ Memberships' = Memberships
      /\ \A x : UsersOf(x)' = UsersOf(x)
      /\ \A k : MatchFor(k)' = MatchFor(k) /\ Names(k)' = Names(k)
      BY <1>1, MembershipsStay
<1>3. QueuesAsMeant
      BY DEF GroupsInv
<1>4. IsList(matches') /\ Range(matches) = {m} \cup Range(matches')
      BY <1>1, <1>3, HeadAndTail DEF QueuesAsMeant
<1>5. {MatchFor(k) : k \in Memberships}' = {MatchFor(k) : k \in Memberships}
      BY <1>2
<1>6. QueuesAsMeant'
  <2>1. Range(matches') \subseteq {MatchFor(k) : k \in Memberships}'
        BY <1>3, <1>4, <1>5 DEF QueuesAsMeant
  <2>   QED  BY <1>1, <1>2, <1>3, <1>4, <2>1 DEF QueuesAsMeant
<1>7. ASSUME NEW k \in Memberships'
      PROVE  Pending(k)' \/ IsMember(k)' \/ Names(k)' \in dont_try_again'
  <2>1. k \in Memberships
        BY <1>2
  <2>2. Pending(k) \/ IsMember(k) \/ Names(k) \in dont_try_again
        BY <1>1, <2>1 DEF GroupsInv
  <2>3. CASE IsMember(k) \/ Names(k) \in dont_try_again
        BY <1>1, <2>3, HandledStays
  <2>4. CASE Pending(k)
    <3>1. CASE MatchFor(k) = m
      <4>1. m.type = k[1] /\ m.user = k[2] /\ uuid_of(m) = Names(k)
            BY <2>1, <3>1, MembershipIs
      <4>2. Names(k)' = Names(k)
            BY <1>2
      <4>   QED  BY <4>1, <4>2 DEF IsMember
    <3>2. CASE MatchFor(k) # m
      <4>1. \/ k[1] \in Range(from_types') \/ <<k[1], k[2]>> \in user_list'
            \/ MatchFor(k)' \in Range(matches')
            BY <1>1, <1>2, <1>4, <2>4, <3>2 DEF Pending
      <4>   QED  BY <4>1 DEF Pending
    <3>   QED  BY <3>1, <3>2
  <2>   QED  BY <2>2, <2>3, <2>4
<1>   QED  BY <1>1, <1>6, <1>7 DEF GroupsInv

\* A value of a user comes from a membership.
LEMMA MatchIsMembership ==
    ASSUME GroupsInv, NEW m \in Range(matches)
    PROVE  \E k \in Memberships :
               m.type = k[1] /\ m.user = k[2] /\ uuid_of(m) = Names(k)
<1>1. PICK k \in Memberships : m = MatchFor(k)
      BY DEF GroupsInv, QueuesAsMeant
<1>   QED  BY <1>1, MembershipIs

LEMMA SkipGroupKeeps ==
    ASSUME GroupsInv, SkipGroup
    PROVE  GroupsInv'
<1>1. PICK m \in Range(matches) :
          /\ ForMatch(m) /\ RefusedBefore(uuid_of(m))
          /\ UNCHANGED <<generated, dont_try_again, relations>>
      BY DEF SkipGroup
<1>2. uuid_of(m) \in dont_try_again' /\ UNCHANGED <<generate, users>>
      BY <1>1 DEF RefusedBefore, ForMatch, groupFrame
<1>3. MembersAsMeant' /\ RefusedAsMeant'
      BY <1>1, <1>2, GroupsStay DEF GroupsInv
<1>   QED  BY <1>1, <1>2, <1>3, MatchIsTaken

\* A user who joins one of the groups, which are those there were or one more.
LEMMA establish_relationKeeps ==
    ASSUME GroupsInv, NEW m \in Range(matches), ForMatch(m), NEW groups,
           establish_relation(m, groups), uuid_of(m) \in DOMAIN groups,
           uuid_of(m) \notin dont_try_again, UNCHANGED dont_try_again,
           DOMAIN groups = DOMAIN generated \cup {uuid_of(m)},
           \A id \in DOMAIN generated : groups[id] = generated[id],
           "members" \in DOMAIN groups[uuid_of(m)], IsList(groups[uuid_of(m)].members),
           Range(groups[uuid_of(m)].members) \subseteq MembersOf(uuid_of(m))
    PROVE  GroupsInv'
<1>   DEFINE uuid == uuid_of(m)
             x == <<m.type, m.user>>
<1>1. UNCHANGED <<generate, users>>
      BY DEF ForMatch, groupFrame
<1>2. /\ Memberships' = Memberships /\ Ids' = Ids
      /\ \A k : Names(k)' = Names(k)
      /\ \A id : MembersOf(id)' = MembersOf(id)
      BY <1>1, MembershipsStay
<1>3. MembersAsMeant /\ RefusedAsMeant
      BY DEF GroupsInv
<1>4. PICK k \in Memberships : m.type = k[1] /\ m.user = k[2] /\ uuid = Names(k)
      BY MatchIsMembership
<1>5. uuid \in Ids /\ x \in MembersOf(uuid)
      BY <1>4 DEF Ids, MembersOf
<1>6. /\ generated' = [groups EXCEPT ![uuid].members = Append(@, x)]
      /\ relations' = relations \cup {<<m.user, uuid>>}
      BY DEF establish_relation
<1>   HIDE DEF uuid, x
<1>7. DOMAIN generated' = DOMAIN generated \cup {uuid}
      BY <1>6 DEF uuid
<1>8. /\ "members" \in DOMAIN generated'[uuid]
      /\ generated'[uuid].members = Append(groups[uuid].members, x)
      BY <1>6 DEF uuid
<1>9. \A id \in DOMAIN generated \ {uuid} : generated'[id] = generated[id]
      BY <1>6 DEF uuid
<1>10. /\ IsList(generated'[uuid].members)
       /\ Range(generated'[uuid].members) = Range(groups[uuid].members) \cup {x}
      BY <1>8, AppendToList DEF uuid
<1>11. MembersAsMeant'
  <2>1. ASSUME NEW id \in DOMAIN generated'
        PROVE  /\ id \in Ids /\ "members" \in DOMAIN generated'[id] /\ IsList(generated'[id].members)
               /\ Range(generated'[id].members) \subseteq MembersOf(id)
    <3>1. CASE id = uuid
      <4>1. Range(groups[uuid].members) \subseteq MembersOf(uuid)
            BY DEF uuid
      <4>   QED  BY <1>5, <1>8, <1>10, <3>1, <4>1
    <3>2. CASE id # uuid
          BY <1>3, <1>7, <1>9, <3>2 DEF MembersAsMeant
    <3>   QED  BY <3>1, <3>2
  <2>2. ASSUME NEW r \in relations'
        PROVE  \E j \in Memberships : Names(j) \in DOMAIN generated' /\ r = <<j[2], Names(j)>>
    <3>1. CASE r \in relations
          BY <1>3, <1>7, <3>1 DEF MembersAsMeant
    <3>2. CASE r = <<m.user, uuid>>
          BY <1>4, <1>7, <3>2
    <3>   QED  BY <1>6, <3>1, <3>2
  <2>   QED  BY <1>2, <2>1, <2>2 DEF MembersAsMeant
<1>12. RefusedAsMeant'
  <2>1. uuid \notin dont_try_again /\ dont_try_again' = dont_try_again
        BY DEF uuid
  <2>   QED  BY <1>1, <1>3, <1>7, <2>1 DEF RefusedAsMeant
<1>13. ASSUME NEW id \in DOMAIN generated
       PROVE  /\ id \in DOMAIN generated'
              /\ Range(generated[id].members) \subseteq Range(generated'[id].members)
  <2>1. CASE id = uuid
    <3>1. groups[uuid] = generated[uuid]
          BY <2>1
    <3>   QED  BY <1>7, <1>10, <2>1, <3>1
  <2>2. CASE id # uuid
        BY <1>7, <1>9, <2>2
  <2>   QED  BY <2>1, <2>2
<1>14. /\ uuid \in DOMAIN generated' /\ x \in Range(generated'[uuid].members)
       /\ <<m.user, uuid>> \in relations' /\ relations \subseteq relations'
      BY <1>6, <1>7, <1>10
<1>   QED  BY <1>11, <1>12, <1>13, <1>14, MatchIsTaken DEF uuid, x

LEMMA JoinGroupKeeps ==
    ASSUME GroupsInv, JoinGroup
    PROVE  GroupsInv'
<1>1. PICK m \in Range(matches) :
          /\ ForMatch(m) /\ uuid_of(m) \notin dont_try_again /\ uuid_of(m) \in DOMAIN generated
          /\ establish_relation(m, generated) /\ UNCHANGED dont_try_again
      BY DEF JoinGroup, RefusedBefore
<1>2. /\ "members" \in DOMAIN generated[uuid_of(m)] /\ IsList(generated[uuid_of(m)].members)
      /\ Range(generated[uuid_of(m)].members) \subseteq MembersOf(uuid_of(m))
      BY <1>1 DEF GroupsInv, MembersAsMeant
<1>3. DOMAIN generated = DOMAIN generated \cup {uuid_of(m)}
      BY <1>1
<1>   QED  BY <1>1, <1>2, <1>3, establish_relationKeeps

LEMMA GenerateGroupKeeps ==
    ASSUME GroupsInv, GenerateGroup
    PROVE  GroupsInv'
<1>1. PICK m \in Range(matches) :
          /\ ForMatch(m) /\ uuid_of(m) \notin dont_try_again /\ uuid_of(m) \notin DOMAIN generated
          /\ establish_relation(m, With(generated, uuid_of(m),
                                        [attributes |-> GroupFrom(m), members |-> <<>>]))
          /\ UNCHANGED dont_try_again
      BY DEF GenerateGroup, RefusedBefore
<1>   DEFINE new == [attributes |-> GroupFrom(m), members |-> <<>>]
             groups == With(generated, uuid_of(m), new)
<1>2. /\ DOMAIN groups = DOMAIN generated \cup {uuid_of(m)}
      /\ groups[uuid_of(m)] = new
      /\ \A id \in DOMAIN generated : groups[id] = generated[id]
      BY <1>1 DEF With
<1>3. "members" \in DOMAIN new /\ new.members = <<>>
      OBVIOUS
<1>4. IsList(<<>>)
      BY EmptySeq, ListFrom
<1>5. Range(<<>>) = {}
      BY DEF Range
<1>6. establish_relation(m, groups)
      BY <1>1
<1>   HIDE DEF groups, new
<1>   QED  BY <1>1, <1>2, <1>3, <1>4, <1>5, <1>6, establish_relationKeeps

LEMMA RefuseGroupKeeps ==
    ASSUME GroupsInv, RefuseGroup
    PROVE  GroupsInv'
<1>1. PICK m \in Range(matches) :
          /\ ForMatch(m) /\ uuid_of(m) \notin DOMAIN generated /\ ~IsIncluded(GroupFrom(m))
          /\ dont_try_again' = dont_try_again \cup {uuid_of(m)}
          /\ UNCHANGED <<generated, relations>>
      BY DEF RefuseGroup
<1>2. UNCHANGED <<generate, users>>
      BY <1>1 DEF ForMatch, groupFrame
<1>3. generate.limit # NoLimit
      BY <1>1 DEF IsIncluded
<1>4. MembersAsMeant'
  <2>1. /\ Memberships' = Memberships /\ Ids' = Ids
        /\ \A k : Names(k)' = Names(k)
        /\ \A id : MembersOf(id)' = MembersOf(id)
        BY <1>2, MembershipsStay
  <2>   QED  BY <1>1, <2>1 DEF GroupsInv, MembersAsMeant
<1>5. RefusedAsMeant'
      BY <1>1, <1>2, <1>3 DEF GroupsInv, RefusedAsMeant
<1>   QED  BY <1>1, <1>4, <1>5, MatchIsTaken

\* Once there is nothing more to come, only Activities are made.
LEMMA QueuesStay ==
    ASSUME UNCHANGED <<generate, users>>, UNCHANGED <<from_types, user_list, matches>>,
           UNCHANGED <<generated, dont_try_again, relations>>
    PROVE  /\ QueuesAsMeant => QueuesAsMeant'
           /\ (\A m \in Memberships : Pending(m) \/ IsMember(m) \/ Names(m) \in dont_try_again) =>
              (\A m \in Memberships' : Pending(m)' \/ IsMember(m)' \/ Names(m)' \in dont_try_again')
<1>1. /\ FromTypes' = FromTypes /\ Memberships' = Memberships
      /\ \A t : UsersOf(t)' = UsersOf(t)
      /\ \A m : MatchFor(m)' = MatchFor(m)
      BY MembershipsStay
<1>2. {MatchFor(m) : m \in Memberships}' = {MatchFor(m) : m \in Memberships}
      BY <1>1
<1>3. QueuesAsMeant => QueuesAsMeant'
      BY <1>1, <1>2 DEF QueuesAsMeant
<1>4. \A m : Pending(m) => Pending(m)'
      BY <1>1 DEF Pending
<1>   QED  BY <1>1, <1>3, <1>4, GroupsStay

LEMMA GroupsGeneratedKeeps ==
    ASSUME GroupsInv, GroupsGenerated
    PROVE  GroupsInv'
<1>1. /\ generating = "groups" /\ matches = <<>> /\ user_list = {} /\ from_types = <<>>
      /\ generating' = "activities" /\ student_groups' = DOMAIN generated
      /\ UNCHANGED <<generate, users, employments, from_types, user_list, matches, generated,
                     dont_try_again, relations, activities>>
      BY DEF GroupsGenerated, UserIsDone
<1>2. /\ QueuesAsMeant' /\ MembersAsMeant' /\ RefusedAsMeant'
      /\ \A m \in Memberships' : Pending(m)' \/ IsMember(m)' \/ Names(m)' \in dont_try_again'
      BY <1>1, GroupsStay, QueuesStay DEF GroupsInv
<1>3. activities = <<>> /\ DOMAIN <<>> = {}
      BY <1>1 DEF GroupsInv
<1>   QED  BY <1>1, <1>2, <1>3 DEF GroupsInv

LEMMA ActivitiesGeneratedKeeps ==
    ASSUME GroupsInv, ActivitiesGenerated
    PROVE  GroupsInv'
<1>1. /\ generating = "activities" /\ student_groups = {} /\ generating' = "done"
      /\ UNCHANGED <<generate, users, employments, from_types, user_list, matches, generated,
                     dont_try_again, relations, activities, student_groups>>
      BY DEF ActivitiesGenerated
<1>2. /\ QueuesAsMeant' /\ MembersAsMeant' /\ RefusedAsMeant'
      /\ \A m \in Memberships' : Pending(m)' \/ IsMember(m)' \/ Names(m)' \in dont_try_again'
      BY <1>1, GroupsStay, QueuesStay DEF GroupsInv
<1>3. \A id : ActivityAsMeant(id) => ActivityAsMeant(id)'
      BY <1>1 DEF ActivityAsMeant, Proper
<1>   QED  BY <1>1, <1>2, <1>3 DEF GroupsInv

\* The teachers of a group are those of its members who are Teachers.
LEMMA TeachersAre ==
    ASSUME NEW group, IsList(group.members)
    PROVE  /\ IsList(Teachers(group))
           /\ Range(Teachers(group)) = {m[2] : m \in {k \in Range(group.members) : k[1] = "Teacher"}}
<1>   DEFINE T == {m \in Range(group.members) : m[1] = "Teacher"}
             members == Among(group.members, T)
             s == [n \in DOMAIN members |-> members[n][2]]
             A == {m[2] : m \in T}
<1>1. IsList(members) /\ Range(members) = T
  <2>1. IsList(members) /\ Range(members) = Range(group.members) \cap T
    <3>   HIDE DEF T
    <3>   QED  BY AmongIs
  <2>2. Range(group.members) \cap T = T
        OBVIOUS
  <2>   QED  BY <2>1, <2>2, Zenon
<1>2. Teachers(group) = s
      BY DEF Teachers
<1>   HIDE DEF members, T
<1>3. /\ Len(members) \in Nat /\ DOMAIN members = 1..Len(members)
      /\ \A n \in 1..Len(members) : members[n] \in T
      /\ \A m \in T : \E n \in 1..Len(members) : members[n] = m
      BY <1>1, ListIs
<1>4. /\ DOMAIN s = 1..Len(members)
      /\ \A n \in 1..Len(members) : s[n] = members[n][2] /\ s[n] \in A
      BY <1>3
<1>5. s \in Seq(A)
  <2>1. s = [n \in 1..Len(members) |-> s[n]]
        BY <1>4
  <2>   HIDE DEF s, A
  <2>   QED  BY <1>3, <1>4, <2>1
<1>6. Range(s) = A
  <2>1. \A m \in T : \E n \in 1..Len(members) : s[n] = m[2]
        BY <1>3, <1>4
  <2>   HIDE DEF s
  <2>   QED  BY <1>4, <2>1 DEF Range
<1>7. IsList(s)
  <2>   HIDE DEF s, A
  <2>   QED  BY <1>5, ListFrom
<1>   QED  BY <1>2, <1>6, <1>7 DEF T

\* An Activity has one employment of each of those who have any.
IsActivity(activity, group) ==
    \E first \in [Range(Working(group)) -> employments] :
        /\ \A t \in Range(Working(group)) : first[t] \in Proper(t, group)
        /\ activity = [n \in DOMAIN Working(group) |-> first[Working(group)[n]]]

LEMMA ActivityOfTeachers ==
    ASSUME NEW group, IsList(group.members), NEW activity, IsActivity(activity, group)
    PROVE  /\ {e.teacher : e \in Range(activity)} =
                  {m[2] : m \in {k \in Range(group.members) : k[1] = "Teacher"}}
                  \cap {e.teacher : e \in employments}
           /\ \A e, f \in Range(activity) : e.teacher = f.teacher => e = f
           /\ \A e \in Range(activity) : e \in Proper(e.teacher, group)
<1>   DEFINE T == {m[2] : m \in {k \in Range(group.members) : k[1] = "Teacher"}}
             P == {t \in Range(Teachers(group)) : Proper(t, group) # {}}
             working == Working(group)
<1>0. PICK first \in [Range(working) -> employments] :
          /\ \A t \in Range(working) : first[t] \in Proper(t, group)
          /\ activity = [n \in DOMAIN working |-> first[working[n]]]
      BY DEF IsActivity
<1>1. IsList(Teachers(group)) /\ Range(Teachers(group)) = T
      BY TeachersAre
<1>   HIDE DEF T
<1>2. IsList(working) /\ Range(working) = P
  <2>1. IsList(working) /\ Range(working) = Range(Teachers(group)) \cap P
    <3>   HIDE DEF P
    <3>1. working = Among(Teachers(group), P)
          BY DEF P, Working
    <3>2. /\ IsList(Among(Teachers(group), P))
          /\ Range(Among(Teachers(group), P)) = Range(Teachers(group)) \cap P
          BY <1>1, AmongIs
    <3>   QED  BY <3>1, <3>2
  <2>2. Range(Teachers(group)) \cap P = P
        OBVIOUS
  <2>   QED  BY <2>1, <2>2, Zenon
<1>3. \A t, e : e \in Proper(t, group) => e \in employments /\ e.teacher = t
      BY DEF Proper
<1>4. \A t : Proper(t, group) # {} <=> \E e \in employments : e.teacher = t
  <2>1. ASSUME NEW t, NEW e \in employments, e.teacher = t PROVE Proper(t, group) # {}
    <3>   DEFINE all == {x \in employments : x.teacher = t}
    <3>1. e \in all
          BY <2>1
    <3>   QED  BY <3>1 DEF Proper
  <2>   QED  BY <1>3, <2>1
<1>5. Range(working) = T \cap {e.teacher : e \in employments}
      BY <1>1, <1>2, <1>4
<1>   HIDE DEF P, working
<1>6. \A x : x \in Range(activity) <=> \E t \in Range(working) : x = first[t]
      BY <1>0 DEF Range
<1>7. \A t \in Range(working) : first[t].teacher = t /\ first[t] \in Proper(t, group)
      BY <1>0, <1>3
<1>11. ASSUME NEW e \in Range(activity)
       PROVE  e.teacher \in Range(working) /\ e = first[e.teacher] /\ e \in Proper(e.teacher, group)
  <2>1. PICK t \in Range(working) : e = first[t]
        BY <1>6
  <2>   QED  BY <1>7, <2>1
<1>12. ASSUME NEW t \in Range(working) PROVE \E e \in Range(activity) : e.teacher = t
      BY <1>6, <1>7
<1>8. {e.teacher : e \in Range(activity)} = Range(working)
  <2>   DEFINE L == {e.teacher : e \in Range(activity)}
  <2>1. \A t : t \in L <=> \E e \in Range(activity) : t = e.teacher
        OBVIOUS
  <2>   HIDE DEF L
  <2>3. ASSUME NEW t \in L PROVE t \in Range(working)
    <3>1. PICK e \in Range(activity) : t = e.teacher
          BY <2>1
    <3>   QED  BY <1>11, <3>1
  <2>4. ASSUME NEW t \in Range(working) PROVE t \in L
    <3>1. PICK e \in Range(activity) : e.teacher = t
          BY <1>12
    <3>   QED  BY <2>1, <3>1
  <2>2. L = Range(working)
        BY <2>3, <2>4
  <2>   QED  BY <2>2 DEF L
<1>9. \A e, f \in Range(activity) : e.teacher = f.teacher => e = f
      BY <1>11, Zenon
<1>10. \A e \in Range(activity) : e \in Proper(e.teacher, group)
      BY <1>11
<1>   QED  BY <1>5, <1>8, <1>9, <1>10 DEF T

LEMMA get_generated_activityKeeps ==
    ASSUME GroupsInv, get_generated_activity
    PROVE  GroupsInv'
<1>1. PICK uuid \in student_groups :
          LET group   == generated[uuid]
              working == Working(group)
          IN  /\ student_groups' = student_groups \ {uuid}
              /\ IF UnitOf(group) = <<>> THEN UNCHANGED activities
                 ELSE \E first \in [Range(working) -> employments] :
                        /\ \A t \in Range(working) : first[t] \in Proper(t, group)
                        /\ activities' = With(activities, uuid, [n \in DOMAIN working |-> first[working[n]]])
      BY DEF get_generated_activity
<1>2. /\ generating = "activities" /\ student_groups' = student_groups \ {uuid}
      /\ UNCHANGED <<generating, generate, users, employments, from_types, user_list, matches,
                     generated, dont_try_again, relations>>
      BY <1>1 DEF get_generated_activity
<1>3. /\ QueuesAsMeant' /\ MembersAsMeant' /\ RefusedAsMeant'
      /\ \A m \in Memberships' : Pending(m)' \/ IsMember(m)' \/ Names(m)' \in dont_try_again'
      BY <1>2, GroupsStay, QueuesStay DEF GroupsInv
<1>4. /\ student_groups \subseteq DOMAIN generated
      /\ DOMAIN activities = {id \in DOMAIN generated \ student_groups : UnitOf(generated[id]) # <<>>}
      /\ \A id \in DOMAIN activities : ActivityAsMeant(id)
      /\ from_types = <<>> /\ user_list = {} /\ matches = <<>>
      BY <1>2 DEF GroupsInv
<1>5. ASSUME NEW id, activities'[id] = activities[id], ActivityAsMeant(id)
      PROVE  ActivityAsMeant(id)'
      BY <1>2, <1>5 DEF ActivityAsMeant, Proper
<1>6. /\ DOMAIN activities' = {id \in DOMAIN generated \ student_groups' : UnitOf(generated[id]) # <<>>}
      /\ \A id \in DOMAIN activities' : ActivityAsMeant(id)'
  <2>1. CASE UnitOf(generated[uuid]) = <<>>
    <3>1. activities' = activities
          BY <1>1, <2>1
    <3>   QED  BY <1>2, <1>4, <1>5, <2>1, <3>1
  <2>2. CASE UnitOf(generated[uuid]) # <<>>
    <3>   DEFINE group == generated[uuid]
    <3>1. PICK first \in [Range(Working(group)) -> employments] :
              /\ \A t \in Range(Working(group)) : first[t] \in Proper(t, group)
              /\ activities' = With(activities, uuid,
                                    [n \in DOMAIN Working(group) |-> first[Working(group)[n]]])
          BY <1>1, <2>2
    <3>   DEFINE activity == [n \in DOMAIN Working(group) |-> first[Working(group)[n]]]
    <3>2. uuid \in DOMAIN generated /\ IsList(group.members)
          BY <1>4 DEF GroupsInv, MembersAsMeant
    <3>4. activities' = With(activities, uuid, activity)
          BY <3>1
    <3>8. IsActivity(activity, group)
      <4>   HIDE DEF group
      <4>   QED  BY <3>1 DEF IsActivity
    <3>   HIDE DEF activity
    <3>3. /\ {e.teacher : e \in Range(activity)} =
                 {m[2] : m \in {k \in Range(group.members) : k[1] = "Teacher"}}
                 \cap {e.teacher : e \in employments}
          /\ \A e, f \in Range(activity) : e.teacher = f.teacher => e = f
          /\ \A e \in Range(activity) : e \in Proper(e.teacher, group)
      <4>   HIDE DEF group
      <4>   QED  BY <3>2, <3>8, ActivityOfTeachers
    <3>5. /\ DOMAIN activities' = DOMAIN activities \cup {uuid} /\ activities'[uuid] = activity
          /\ \A id \in DOMAIN activities \ {uuid} : activities'[id] = activities[id]
          BY <3>4 DEF With
    <3>6. ActivityAsMeant(uuid)'
      <4>1. \A t, g : Proper(t, g)' = Proper(t, g)
            BY <1>2 DEF Proper
      <4>2. generated'[uuid] = group /\ employments' = employments /\ activities'[uuid] = activity
            BY <1>2, <3>5
      <4>   HIDE DEF group
      <4>   QED  BY <3>3, <4>1, <4>2 DEF ActivityAsMeant
    <3>7. \A id \in DOMAIN activities' : ActivityAsMeant(id)'
      <4>1. ASSUME NEW id \in DOMAIN activities', id # uuid PROVE ActivityAsMeant(id)'
            BY <1>4, <1>5, <3>5, <4>1
      <4>   QED  BY <3>6, <4>1
    <3>   QED  BY <1>2, <1>4, <2>2, <3>2, <3>5, <3>7
  <2>   QED  BY <2>1, <2>2
<1>7. /\ student_groups' \subseteq DOMAIN generated'
      /\ DOMAIN activities' =
             {id \in DOMAIN generated' \ student_groups' : UnitOf(generated'[id]) # <<>>}
      BY <1>2, <1>4, <1>6
<1>   QED  BY <1>2, <1>3, <1>4, <1>6, <1>7 DEF GroupsInv

LEMMA GroupsStep ==
    ASSUME GroupsInv, [GroupsNext]_groupVars
    PROVE  GroupsInv'
<1>1. CASE parse_student_group_attributes
      BY <1>1, parse_student_group_attributesKeeps
<1>2. CASE NextType
      BY <1>2, NextTypeKeeps
<1>3. CASE NextUser
      BY <1>3, NextUserKeeps
<1>4. CASE SkipGroup
      BY <1>4, SkipGroupKeeps
<1>5. CASE JoinGroup
      BY <1>5, JoinGroupKeeps
<1>6. CASE GenerateGroup
      BY <1>6, GenerateGroupKeeps
<1>7. CASE RefuseGroup
      BY <1>7, RefuseGroupKeeps
<1>8. CASE GroupsGenerated
      BY <1>8, GroupsGeneratedKeeps
<1>9. CASE get_generated_activity
      BY <1>9, get_generated_activityKeeps
<1>10. CASE ActivitiesGenerated
      BY <1>10, ActivitiesGeneratedKeeps
<1>11. CASE UNCHANGED groupVars
  <2>1. UNCHANGED <<generating, generate, users, employments, from_types, user_list, matches,
                    generated, dont_try_again, relations, activities, student_groups>>
        BY <1>11 DEF groupVars
  <2>2. /\ QueuesAsMeant => QueuesAsMeant'
        /\ MembersAsMeant => MembersAsMeant'
        /\ RefusedAsMeant => RefusedAsMeant'
        /\ (\A m \in Memberships : Pending(m) \/ IsMember(m) \/ Names(m) \in dont_try_again) =>
           (\A m \in Memberships' : Pending(m)' \/ IsMember(m)' \/ Names(m)' \in dont_try_again')
        BY <2>1, GroupsStay, QueuesStay
  <2>3. \A id : ActivityAsMeant(id) => ActivityAsMeant(id)'
        BY <2>1 DEF ActivityAsMeant, Proper
  <2>   QED  BY <2>1, <2>2, <2>3 DEF GroupsInv
<1>   QED  BY <1>1, <1>2, <1>3, <1>4, <1>5, <1>6, <1>7, <1>8, <1>9, <1>10, <1>11 DEF GroupsNext

LEMMA GroupsInvGroups ==
    ASSUME GroupsInv, generating = "done"
    PROVE  GroupsAsMeant
<1>1. /\ MembersAsMeant /\ RefusedAsMeant
      /\ from_types = <<>> /\ user_list = {} /\ matches = <<>>
      /\ \A m \in Memberships : Pending(m) \/ IsMember(m) \/ Names(m) \in dont_try_again
      BY DEF GroupsInv
<1>2. \A m \in Memberships : IsMember(m) \/ Names(m) \in dont_try_again
  <2>1. Range(<<>>) = {}
        BY DEF Range
  <2>   QED  BY <1>1, <2>1 DEF Pending
<1>3. DOMAIN generated \subseteq Ids
      BY <1>1 DEF MembersAsMeant
<1>4. \A m \in Memberships : Names(m) \in DOMAIN generated => IsMember(m)
      BY <1>1, <1>2 DEF RefusedAsMeant
<1>5. ASSUME NEW id \in DOMAIN generated
      PROVE  Range(generated[id].members) = MembersOf(id)
  <2>1. ASSUME NEW x \in MembersOf(id) PROVE x \in Range(generated[id].members)
    <3>1. PICK m \in Memberships : Names(m) = id /\ x = <<m[1], m[2]>>
          BY DEF MembersOf
    <3>   QED  BY <1>4, <3>1 DEF IsMember
  <2>   QED  BY <1>1, <2>1 DEF MembersAsMeant
<1>   DEFINE Told(id) == {r[1] : r \in {k \in relations : k[2] = id}}
<1>6. ASSUME NEW id
      PROVE  Told(id) = IF id \in DOMAIN generated THEN {m[2] : m \in MembersOf(id)} ELSE {}
  <2>1. ASSUME NEW u \in Told(id)
        PROVE  id \in DOMAIN generated /\ u \in {m[2] : m \in MembersOf(id)}
    <3>1. PICK r \in relations : r[2] = id /\ r[1] = u
          OBVIOUS
    <3>2. PICK m \in Memberships : Names(m) \in DOMAIN generated /\ r = <<m[2], Names(m)>>
          BY <1>1 DEF MembersAsMeant
    <3>3. Names(m) = id /\ m[2] = u /\ id \in DOMAIN generated
          BY <3>1, <3>2
    <3>4. <<m[1], m[2]>> \in MembersOf(id)
          BY <3>3 DEF MembersOf
    <3>   QED  BY <3>3, <3>4
  <2>2. ASSUME id \in DOMAIN generated, NEW u \in {m[2] : m \in MembersOf(id)}
        PROVE  u \in Told(id)
    <3>1. PICK x \in MembersOf(id) : u = x[2]
          BY <2>2
    <3>2. PICK m \in Memberships : Names(m) = id /\ x = <<m[1], m[2]>>
          BY DEF MembersOf
    <3>3. <<u, id>> \in relations
          BY <1>4, <2>2, <3>1, <3>2 DEF IsMember
    <3>   QED  BY <3>3
  <2>   HIDE DEF Told
  <2>   QED  BY <2>1, <2>2
<1>7. ASSUME NEW id \in Ids, id \notin DOMAIN generated PROVE generate.limit # NoLimit
  <2>1. PICK m \in Memberships : Names(m) = id
        BY DEF Ids
  <2>2. Names(m) \in dont_try_again
        BY <1>2, <1>7, <2>1 DEF IsMember
  <2>   QED  BY <1>1, <2>2 DEF RefusedAsMeant
<1>   QED  BY <1>3, <1>5, <1>6, <1>7 DEF GroupsAsMeant

LEMMA GroupsInvActivities ==
    ASSUME GroupsInv, generating = "done"
    PROVE  ActivitiesAsMeant
<1>1. /\ student_groups = {}
      /\ DOMAIN activities = {id \in DOMAIN generated \ student_groups : UnitOf(generated[id]) # <<>>}
      /\ \A id \in DOMAIN activities : ActivityAsMeant(id)
      BY DEF GroupsInv
<1>2. /\ DOMAIN generated \subseteq Ids
      /\ \A id \in DOMAIN generated : Range(generated[id].members) = MembersOf(id)
      BY GroupsInvGroups DEF GroupsAsMeant
<1>3. DOMAIN activities = {id \in DOMAIN generated : UnitOf(generated[id]) # <<>>}
      BY <1>1
<1>4. ASSUME NEW id \in DOMAIN activities
      PROVE  /\ {e.teacher : e \in Range(activities[id])} =
                    {m[2] : m \in {k \in MembersOf(id) : k[1] = "Teacher"}}
                    \cap {e.teacher : e \in employments}
             /\ \A e, f \in Range(activities[id]) : e.teacher = f.teacher => e = f
      BY <1>1, <1>2, <1>3 DEF ActivityAsMeant
<1>5. ASSUME NEW id \in DOMAIN activities, NEW e \in Range(activities[id]), NEW f \in employments,
             f.teacher = e.teacher, <<f.unit>> = UnitOf(generated[id])
      PROVE  e.unit = f.unit
  <2>   DEFINE group == generated[id]
               all == {x \in employments : x.teacher = e.teacher}
               at_unit == {x \in all : UnitOf(group) # <<>> /\ x.unit = UnitOf(group)[1]}
  <2>1. e \in Proper(e.teacher, group)
        BY <1>1 DEF ActivityAsMeant
  <2>2. UnitOf(group) # <<>> /\ UnitOf(group)[1] = f.unit
        BY <1>5
  <2>3. f \in at_unit
        BY <1>5, <2>2
  <2>4. Proper(e.teacher, group) = IF at_unit # {} THEN at_unit ELSE all
        BY DEF Proper
  <2>5. e \in at_unit
        BY <2>1, <2>3, <2>4
  <2>   QED  BY <2>2, <2>5
<1>   QED  BY <1>3, <1>4, <1>5 DEF ActivitiesAsMeant

\* In whatever order users come, whichever of their values a group is made from and
\* whatever the limiter thinks of the others, the groups and their Activities are
\* complete in the end (get_generated_student_group, get_generated_activity).
THEOREM GroupsComplete == GroupsSpec => []GeneratedAsMeant
<1>1. GroupsInit => GroupsInv
      BY GroupsInitially
<1>2. GroupsInv /\ [GroupsNext]_groupVars => GroupsInv'
      BY GroupsStep
<1>3. GroupsInv => GeneratedAsMeant
      BY GroupsInvGroups, GroupsInvActivities DEF GeneratedAsMeant
<1>   QED  BY <1>1, <1>2, <1>3, PTL DEF GroupsSpec
-----------------------------------------------------------------------------
\* Templates: commas before closing brackets.

TemplateText == Seq(Char)

LEMMA TextLength == ASSUME NEW s \in TemplateText PROVE Len(s) \in Nat /\ \A n \in 1..Len(s) : s[n] \in Char
BY DEF TemplateText

\* ClosingQuote(s, n) for each n.
QuoteStep(s, f, m) ==
    IF m > Len(s) THEN Len(s) + 1
    ELSE CASE s[m] = "quote"     -> m
           [] s[m] = "backslash" -> f[m + 2]
           [] OTHER              -> f[m + 1]

LEMMA QuoteStepIs ==
    ASSUME NEW s \in TemplateText, NEW m \in Nat, NEW f
    PROVE  /\ m > Len(s) => QuoteStep(s, f, m) = Len(s) + 1
           /\ m <= Len(s) /\ s[m] = "quote" => QuoteStep(s, f, m) = m
           /\ m <= Len(s) /\ s[m] = "backslash" => QuoteStep(s, f, m) = f[m + 2]
           /\ m <= Len(s) /\ s[m] \notin {"quote", "backslash"} => QuoteStep(s, f, m) = f[m + 1]
<1>1. Len(s) \in Nat /\ (m > Len(s) <=> ~(m <= Len(s)))
      BY TextLength
<1>2. CASE m > Len(s)
      BY <1>1, <1>2 DEF QuoteStep
<1>3. CASE m <= Len(s) /\ s[m] = "quote"
      BY <1>1, <1>3 DEF QuoteStep
<1>4. CASE m <= Len(s) /\ s[m] = "backslash"
      BY <1>1, <1>4 DEF QuoteStep
<1>5. CASE m <= Len(s) /\ s[m] \notin {"quote", "backslash"}
      BY <1>1, <1>5 DEF QuoteStep
<1>   QED  BY <1>1, <1>2, <1>3, <1>4, <1>5

LEMMA QuotesExist ==
    ASSUME NEW s \in TemplateText
    PROVE  \E f : f = [m \in 1..Len(s) + 2 |-> QuoteStep(s, f, m)]
<1>   DEFINE n == Len(s) + 2
             A == 1..Len(s) + 1
             G == [m \in 1..n |-> [f \in [1..n -> A] |-> QuoteStep(s, f, m)]]
<1>1. Len(s) \in Nat /\ n \in Nat /\ Len(s) + 1 \in A
      BY TextLength
<1>2. ASSUME NEW m \in 1..n, NEW f \in [1..n -> A] PROVE QuoteStep(s, f, m) \in A
  <2>1. m <= Len(s) => m \in A /\ m + 1 \in 1..n /\ m + 2 \in 1..n
        BY <1>1
  <2>   HIDE DEF n, A
  <2>2. m <= Len(s) => f[m + 1] \in A /\ f[m + 2] \in A
        BY <2>1
  <2>3. m \in Nat
        BY <1>1 DEF n
  <2>   QED  BY <1>1, <2>1, <2>2, <2>3, QuoteStepIs
<1>3. G \in [1..n -> [[1..n -> A] -> A]]
      BY <1>2
<1>4. ASSUME NEW m \in 1..n, NEW f \in [1..n -> A], NEW h \in [1..n -> A],
             \A k \in m + 1..n : f[k] = h[k]
      PROVE  G[m][f] = G[m][h]
  <2>1. m <= Len(s) => m + 1 \in m + 1..n /\ m + 2 \in m + 1..n
        BY <1>1
  <2>2. QuoteStep(s, f, m) = QuoteStep(s, h, m)
        BY <1>1, <1>4, <2>1, QuoteStepIs
  <2>   HIDE DEF n, A
  <2>   QED  BY <2>2
<1>5. \A m \in 1..n, f \in [1..n -> A] : G[m][f] = QuoteStep(s, f, m)
      OBVIOUS
<1>   HIDE DEF n, A, G
<1>6. PICK f : MadeBy(f, n, A, G)
  <2>1. A # {} /\ n \in Nat
        BY <1>1
  <2>2. FromLater(n, A, G)
        BY <1>3, <1>4 DEF FromLater
  <2>   QED  BY <2>1, <2>2, Backwards
<1>7. f = [m \in 1..n |-> QuoteStep(s, f, m)]
      BY <1>5, <1>6 DEF MadeBy
<1>   QED  BY <1>7 DEF n

LEMMA QuoteIs ==
    ASSUME NEW s \in TemplateText, NEW m \in 1..Len(s) + 2
    PROVE  /\ m > Len(s) => ClosingQuote(s, m) = Len(s) + 1
           /\ m <= Len(s) => /\ s[m] = "quote" => ClosingQuote(s, m) = m
                             /\ s[m] = "backslash" => ClosingQuote(s, m) = ClosingQuote(s, m + 2)
                             /\ s[m] \notin {"quote", "backslash"} =>
                                   ClosingQuote(s, m) = ClosingQuote(s, m + 1)
<1>1. PICK f : f = CHOOSE g : g = [k \in 1..Len(s) + 2 |-> QuoteStep(s, g, k)]
      OBVIOUS
<1>2. f = [k \in 1..Len(s) + 2 |-> QuoteStep(s, f, k)]
      BY <1>1, QuotesExist
<1>3. \A k : ClosingQuote(s, k) = f[k]
      BY <1>1 DEF ClosingQuote, QuoteStep
<1>4. Len(s) \in Nat
      BY TextLength
<1>5. f[m] = QuoteStep(s, f, m)
      BY <1>2
<1>6. m \in Nat
      BY <1>4
<1>   QED  BY <1>3, <1>4, <1>5, <1>6, QuoteStepIs

LEMMA QuoteRange ==
    ASSUME NEW s \in TemplateText
    PROVE  /\ \A m \in 1..Len(s) + 1 : ClosingQuote(s, m) \in m..Len(s) + 1
           /\ ClosingQuote(s, Len(s) + 2) = Len(s) + 1
<1>1. Len(s) \in Nat
      BY TextLength
<1>2. ClosingQuote(s, Len(s) + 2) = Len(s) + 1
  <2>1. Len(s) + 2 \in 1..Len(s) + 2 /\ Len(s) + 2 > Len(s)
        BY <1>1
  <2>   QED  BY <2>1, QuoteIs
<1>   DEFINE n == Len(s) + 1
             S == {m \in 1..n : ClosingQuote(s, m) \in m..Len(s) + 1}
<1>3. ASSUME NEW m \in 1..n, \A k \in m + 1..n : k \in S PROVE m \in S
  <2>1. m \in 1..Len(s) + 2 /\ m \in Nat
        BY <1>1
  <2>2. CASE m > Len(s)
        BY <1>1, <2>1, <2>2, QuoteIs
  <2>3. CASE m <= Len(s)
    <3>1. m + 1 \in m + 1..n /\ (m # Len(s) => m + 2 \in m + 1..n) /\ (m = Len(s) => m + 2 = Len(s) + 2)
          BY <1>1, <2>1, <2>3
    <3>2. ClosingQuote(s, m + 1) \in m + 1..Len(s) + 1
          BY <1>3, <3>1
    <3>3. ClosingQuote(s, m + 2) \in m..Len(s) + 1
      <4>1. CASE m # Len(s)
        <5>1. ClosingQuote(s, m + 2) \in m + 2..Len(s) + 1
              BY <1>3, <3>1, <4>1
        <5>   QED  BY <1>1, <2>1, <5>1
      <4>2. CASE m = Len(s)
            BY <1>1, <1>2, <2>1, <3>1, <4>2
      <4>   QED  BY <4>1, <4>2
    <3>   QED  BY <1>1, <2>1, <2>3, <3>2, <3>3, QuoteIs
  <2>   QED  BY <1>1, <2>1, <2>2, <2>3
<1>4. n \in Nat
      BY <1>1
<1>   HIDE DEF n, S
<1>5. \A m \in 1..n : m \in S
      BY <1>3, <1>4, FromTheEnd
<1>   QED  BY <1>2, <1>5 DEF n, S

\* TrailingFrom(s, n) for each n.
TrailStep(s, f, m) ==
    IF m > Len(s) THEN {}
    ELSE CASE s[m] = "quote" -> f[ClosingQuote(s, m + 1) + 1]
           [] s[m] = "comma" ->
                LET walker == SkipSpace(s, m + 1)
                IN  (IF walker <= Len(s) /\ s[walker] = "close" THEN {m} ELSE {})
                    \cup f[m + 1]
           [] OTHER          -> f[m + 1]

Bracketed(s, m) ==
    IF SkipSpace(s, m + 1) <= Len(s) /\ s[SkipSpace(s, m + 1)] = "close" THEN {m} ELSE {}

LEMMA TrailStepIs ==
    ASSUME NEW s \in TemplateText, NEW m \in Nat, NEW f
    PROVE  /\ m > Len(s) => TrailStep(s, f, m) = {}
           /\ m <= Len(s) /\ s[m] = "quote" => TrailStep(s, f, m) = f[ClosingQuote(s, m + 1) + 1]
           /\ m <= Len(s) /\ s[m] = "comma" => TrailStep(s, f, m) = Bracketed(s, m) \cup f[m + 1]
           /\ m <= Len(s) /\ s[m] \notin {"quote", "comma"} => TrailStep(s, f, m) = f[m + 1]
<1>1. Len(s) \in Nat /\ (m > Len(s) <=> ~(m <= Len(s)))
      BY TextLength
<1>2. CASE m > Len(s)
      BY <1>1, <1>2 DEF TrailStep
<1>3. CASE m <= Len(s) /\ s[m] = "quote"
      BY <1>1, <1>3 DEF TrailStep
<1>4. CASE m <= Len(s) /\ s[m] = "comma"
      BY <1>1, <1>4 DEF TrailStep, Bracketed
<1>5. CASE m <= Len(s) /\ s[m] \notin {"quote", "comma"}
      BY <1>1, <1>5 DEF TrailStep
<1>   QED  BY <1>1, <1>2, <1>3, <1>4, <1>5

LEMMA TrailsExist ==
    ASSUME NEW s \in TemplateText
    PROVE  \E f : f = [m \in 1..Len(s) + 2 |-> TrailStep(s, f, m)]
<1>   DEFINE n == Len(s) + 2
             A == SUBSET (1..Len(s))
             G == [m \in 1..n |-> [f \in [1..n -> A] |-> TrailStep(s, f, m)]]
<1>1. Len(s) \in Nat /\ n \in Nat /\ {} \in A
      BY TextLength
<1>2. ASSUME NEW m \in 1..n, m <= Len(s)
      PROVE  m + 1 \in m + 1..n /\ ClosingQuote(s, m + 1) + 1 \in m + 1..n
  <2>1. m + 1 \in 1..Len(s) + 1
        BY <1>1, <1>2
  <2>2. ClosingQuote(s, m + 1) \in m + 1..Len(s) + 1
        BY <2>1, QuoteRange
  <2>   QED  BY <1>1, <1>2, <2>2
<1>3. ASSUME NEW m \in 1..n, NEW f \in [1..n -> A] PROVE TrailStep(s, f, m) \in A
  <2>1. m \in Nat /\ (m <= Len(s) => m \in 1..Len(s))
        BY <1>1
  <2>2. CASE m <= Len(s)
    <3>1. m + 1 \in 1..n /\ ClosingQuote(s, m + 1) + 1 \in 1..n
          BY <1>1, <1>2, <2>1, <2>2
    <3>2. f[m + 1] \in A /\ f[ClosingQuote(s, m + 1) + 1] \in A
          BY <3>1
    <3>3. Bracketed(s, m) \in A
          BY <2>1, <2>2 DEF Bracketed
    <3>4. Bracketed(s, m) \cup f[m + 1] \in A
          BY <3>2, <3>3
    <3>   HIDE DEF A, n
    <3>   QED  BY <2>1, <2>2, <3>2, <3>4, TrailStepIs
  <2>3. CASE m > Len(s)
        BY <1>1, <2>1, <2>3, TrailStepIs
  <2>   QED  BY <1>1, <2>1, <2>2, <2>3
<1>4. G \in [1..n -> [[1..n -> A] -> A]]
      BY <1>3
<1>5. ASSUME NEW m \in 1..n, NEW f \in [1..n -> A], NEW h \in [1..n -> A],
             \A k \in m + 1..n : f[k] = h[k]
      PROVE  G[m][f] = G[m][h]
  <2>1. m \in Nat /\ (m > Len(s) <=> ~(m <= Len(s)))
        BY <1>1
  <2>2. TrailStep(s, f, m) = TrailStep(s, h, m)
    <3>1. CASE m <= Len(s)
      <4>1. f[m + 1] = h[m + 1] /\ f[ClosingQuote(s, m + 1) + 1] = h[ClosingQuote(s, m + 1) + 1]
            BY <1>2, <1>5, <3>1
      <4>2. CASE s[m] = "quote"
            BY <2>1, <3>1, <4>1, <4>2, TrailStepIs
      <4>3. CASE s[m] = "comma"
        <5>1. TrailStep(s, f, m) = Bracketed(s, m) \cup f[m + 1]
              BY <2>1, <3>1, <4>3, TrailStepIs
        <5>2. TrailStep(s, h, m) = Bracketed(s, m) \cup h[m + 1]
              BY <2>1, <3>1, <4>3, TrailStepIs
        <5>   QED  BY <4>1, <5>1, <5>2
      <4>4. CASE s[m] \notin {"quote", "comma"}
            BY <2>1, <3>1, <4>1, <4>4, TrailStepIs
      <4>   QED  BY <4>2, <4>3, <4>4
    <3>2. CASE m > Len(s)
          BY <2>1, <3>2, TrailStepIs
    <3>   QED  BY <2>1, <3>1, <3>2
  <2>   HIDE DEF n, A
  <2>   QED  BY <2>2
<1>6. \A m \in 1..n, f \in [1..n -> A] : G[m][f] = TrailStep(s, f, m)
      OBVIOUS
<1>   HIDE DEF n, A, G
<1>7. PICK f : MadeBy(f, n, A, G)
  <2>1. A # {} /\ n \in Nat
        BY <1>1
  <2>2. FromLater(n, A, G)
        BY <1>4, <1>5 DEF FromLater
  <2>   QED  BY <2>1, <2>2, Backwards
<1>8. f = [m \in 1..n |-> TrailStep(s, f, m)]
      BY <1>6, <1>7 DEF MadeBy
<1>   QED  BY <1>8 DEF n

LEMMA TrailingIs ==
    ASSUME NEW s \in TemplateText, NEW m \in 1..Len(s) + 2
    PROVE  /\ m > Len(s) => TrailingFrom(s, m) = {}
           /\ m <= Len(s) =>
                /\ s[m] = "quote" =>
                      TrailingFrom(s, m) = TrailingFrom(s, ClosingQuote(s, m + 1) + 1)
                /\ s[m] = "comma" => TrailingFrom(s, m) = Bracketed(s, m) \cup TrailingFrom(s, m + 1)
                /\ s[m] \notin {"quote", "comma"} => TrailingFrom(s, m) = TrailingFrom(s, m + 1)
<1>1. PICK f : f = CHOOSE g : g = [k \in 1..Len(s) + 2 |-> TrailStep(s, g, k)]
      OBVIOUS
<1>2. f = [k \in 1..Len(s) + 2 |-> TrailStep(s, f, k)]
      BY <1>1, TrailsExist
<1>3. \A k : TrailingFrom(s, k) = f[k]
      BY <1>1 DEF TrailingFrom, TrailStep
<1>4. Len(s) \in Nat
      BY TextLength
<1>5. f[m] = TrailStep(s, f, m)
      BY <1>2
<1>6. m \in Nat
      BY <1>4
<1>   QED  BY <1>3, <1>4, <1>5, <1>6, TrailStepIs

\* Outside of literals, in one, or in one after a backslash, place by place.
IsScan(p, s) ==
    /\ p[0] = "out"
    /\ \A k \in 0..Len(s) - 1 : p[k + 1] = AfterChar(p[k], s[k + 1])

LEMMA ScanOf ==
    ASSUME NEW s \in TemplateText
    PROVE  \E p : IsScan(p, s) /\ FoldLeft(AfterChar, "out", s) = p[Len(s)]
<1>   DEFINE n == Len(s)
             D == DOMAIN s
             A == {"out", "in", "escape"}
             Iter(it) == it = [x \in SUBSET D |->
                                 IF x = {} THEN "out" ELSE AfterChar(it[x \ {Max(x)}], s[Max(x)])]
             iter == CHOOSE it : Iter(it)
<1>1. n \in Nat /\ D = 1..n
      BY DEF TemplateText
<1>2. FoldLeft(AfterChar, "out", s) = iter[D]
      BY DEF FoldLeft, MapThenFoldSet
<1>3. \E it : Iter(it)
  <2>   DEFINE g == [p \in (1..n) \X A |-> AfterChar(p[2], s[p[1]])]
  <2>1. \A x \in A : \A c : AfterChar(x, c) \in A
        BY DEF AfterChar
  <2>2. g \in [(1..n) \X A -> A] /\ "out" \in A
        BY <2>1
  <2>3. PICK it \in [SUBSET (1..n) -> A] : FoldsTo(it, n, "out", g)
    <3>   HIDE DEF g, n, A
    <3>   QED  BY <1>1, <2>2, FoldExists
  <2>4. ASSUME NEW x \in SUBSET (1..n)
        PROVE  it[x] = IF x = {} THEN "out" ELSE AfterChar(it[x \ {Max(x)}], s[Max(x)])
    <3>1. it[x] = IF x = {} THEN "out" ELSE g[<<Max(x), it[x \ {Max(x)}]>>]
          BY <2>3 DEF FoldsTo
    <3>2. ASSUME x # {}
          PROVE  g[<<Max(x), it[x \ {Max(x)}]>>] = AfterChar(it[x \ {Max(x)}], s[Max(x)])
      <4>1. Max(x) \in 1..n
            BY <1>1, <3>2, MaxOf
      <4>2. it[x \ {Max(x)}] \in A
            OBVIOUS
      <4>   HIDE DEF A, n
      <4>   QED  BY <4>1, <4>2
    <3>   HIDE DEF g, A, n
    <3>   QED  BY <3>1, <3>2
  <2>5. it = [x \in SUBSET (1..n) |-> it[x]]
        OBVIOUS
  <2>   HIDE DEF A
  <2>6. Iter(it)
        BY <1>1, <2>4, <2>5
  <2>   QED  BY <2>6
<1>4. Iter(iter)
  <2>   HIDE DEF Iter
  <2>   QED  BY <1>3
<1>   HIDE DEF iter
<1>5. PICK p : p = [k \in 0..n |-> iter[1..k]]
      OBVIOUS
<1>6. p[0] = "out" /\ iter[D] = p[n]
  <2>1. p[0] = iter[1..0] /\ p[n] = iter[1..n] /\ 1..0 = {}
        BY <1>1, <1>5
  <2>2. {} \in SUBSET D
        OBVIOUS
  <2>   QED  BY <1>1, <1>4, <2>1, <2>2
<1>7. ASSUME NEW k \in 0..n - 1 PROVE p[k + 1] = AfterChar(p[k], s[k + 1])
  <2>1. /\ 1..k + 1 \in SUBSET (1..n) /\ 1..k + 1 # {}
        /\ Max(1..k + 1) = k + 1
        /\ (1..k + 1) \ {k + 1} = 1..k
        BY <1>1, PlacesUpTo
  <2>2. iter[1..k + 1] = AfterChar(iter[1..k], s[k + 1])
        BY <1>1, <1>4, <2>1
  <2>3. p[k + 1] = iter[1..k + 1] /\ p[k] = iter[1..k]
        BY <1>1, <1>5
  <2>   QED  BY <2>2, <2>3
<1>8. IsScan(p, s)
      BY <1>6, <1>7 DEF IsScan
<1>   QED  BY <1>2, <1>6, <1>8

LEMMA BeforeIs ==
    ASSUME NEW s \in TemplateText
    PROVE  /\ Before(s, 1) = "out"
           /\ \A m \in 1..Len(s) : Before(s, m + 1) = AfterChar(Before(s, m), s[m])
<1>1. PICK p : IsScan(p, s)
      BY ScanOf
<1>2. Len(s) \in Nat
      BY TextLength
<1>3. ASSUME NEW m \in 1..Len(s) + 1 PROVE Before(s, m) = p[m - 1]
  <2>1. PICK t, n : t = SubSeq(s, 1, m - 1) /\ n = m - 1
        OBVIOUS
  <2>2. n \in Nat /\ t \in TemplateText /\ Len(t) = n /\ \A k \in 1..n : t[k] = s[k]
        BY <1>2, <2>1 DEF TemplateText
  <2>3. PICK q : IsScan(q, t) /\ FoldLeft(AfterChar, "out", t) = q[n]
        BY <2>2, ScanOf
  <2>   DEFINE S == {k \in 0..n : q[k] = p[k]}
  <2>4. 0 \in S
        BY <1>1, <2>2, <2>3 DEF IsScan
  <2>5. ASSUME NEW k \in 0..n - 1, k \in S PROVE k + 1 \in S
    <3>1. k \in 0..Len(s) - 1 /\ k + 1 \in 1..n /\ k + 1 \in 0..n
          BY <1>2, <2>1, <2>2
    <3>2. q[k + 1] = AfterChar(q[k], t[k + 1]) /\ p[k + 1] = AfterChar(p[k], s[k + 1])
          BY <1>1, <2>2, <2>3, <3>1 DEF IsScan
    <3>   QED  BY <2>2, <2>5, <3>1, <3>2
  <2>   HIDE DEF S
  <2>6. \A k \in 0..n : k \in S
        BY <2>2, <2>4, <2>5, UpTo
  <2>7. q[n] = p[n]
        BY <2>2, <2>6 DEF S
  <2>   QED  BY <2>1, <2>3, <2>7 DEF Before
<1>4. Before(s, 1) = "out"
      BY <1>1, <1>2, <1>3 DEF IsScan
<1>5. ASSUME NEW m \in 1..Len(s) PROVE Before(s, m + 1) = AfterChar(Before(s, m), s[m])
  <2>1. PICK k : k = m - 1
        OBVIOUS
  <2>2. k \in 0..Len(s) - 1 /\ k + 1 = m /\ m \in 1..Len(s) + 1 /\ m + 1 \in 1..Len(s) + 1 /\ (m + 1) - 1 = m
        BY <1>2, <2>1
  <2>3. p[m] = AfterChar(p[k], s[m])
        BY <1>1, <2>2 DEF IsScan
  <2>   QED  BY <1>3, <2>1, <2>2, <2>3
<1>   QED  BY <1>4, <1>5

LEMMA SpaceSkipped ==
    ASSUME NEW s \in TemplateText, NEW n \in 1..Len(s) + 1
    PROVE  /\ SkipSpace(s, n) \in n..Len(s) + 1
           /\ \A k \in n..SkipSpace(s, n) - 1 : s[k] = "space"
           /\ SkipSpace(s, n) > Len(s) \/ s[SkipSpace(s, n)] # "space"
<1>   DEFINE T == {m \in n..Len(s) + 1 : m > Len(s) \/ s[m] # "space"}
<1>1. Len(s) \in Nat
      BY TextLength
<1>2. T \in SUBSET Nat /\ Len(s) + 1 \in T
      BY <1>1
<1>3. Min(T) \in T /\ \A k \in T : Min(T) <= k
      BY <1>2, MinOf
<1>4. ASSUME NEW k \in n..Min(T) - 1 PROVE s[k] = "space"
  <2>1. k \in n..Len(s) + 1 /\ ~(Min(T) <= k)
        BY <1>1, <1>3
  <2>2. k \notin T
        BY <1>3, <2>1
  <2>   QED  BY <2>1, <2>2
<1>   QED  BY <1>3, <1>4 DEF SkipSpace

\* From a place in a literal on, all is in it as far as where it is closed.
LEMMA InLiteral ==
    ASSUME NEW s \in TemplateText, NEW m \in 1..Len(s) + 1, Before(s, m) = "in"
    PROVE  /\ \A k \in m..ClosingQuote(s, m) : Before(s, k) # "out"
           /\ ClosingQuote(s, m) <= Len(s) =>
                 s[ClosingQuote(s, m)] = "quote" /\ Before(s, ClosingQuote(s, m) + 1) = "out"
<1>   DEFINE n == Len(s) + 1
             Good(k) == Before(s, k) = "in" =>
                           /\ \A x \in k..ClosingQuote(s, k) : Before(s, x) # "out"
                           /\ ClosingQuote(s, k) <= Len(s) =>
                                 /\ s[ClosingQuote(s, k)] = "quote"
                                 /\ Before(s, ClosingQuote(s, k) + 1) = "out"
             S == {k \in 1..n : Good(k)}
<1>1. Len(s) \in Nat /\ n \in Nat
      BY TextLength
<1>2. ASSUME NEW k \in 1..n, \A x \in k + 1..n : x \in S PROVE k \in S
  <2>1. SUFFICES ASSUME Before(s, k) = "in" PROVE Good(k)
        OBVIOUS
  <2>2. PICK e : e = ClosingQuote(s, k)
        OBVIOUS
  <2>3. e \in k..Len(s) + 1 /\ k \in 1..Len(s) + 2 /\ (k <= Len(s) \/ k = Len(s) + 1)
        BY <1>1, <2>2, QuoteRange
  <2>4. CASE k = Len(s) + 1
    <3>1. e = k
          BY <1>1, <2>3, <2>4
    <3>   QED  BY <1>1, <2>1, <2>2, <2>4, <3>1
  <2>5. CASE k <= Len(s) /\ s[k] = "quote"
    <3>1. e = k
          BY <1>1, <2>2, <2>3, <2>5, QuoteIs
    <3>2. Before(s, k + 1) = "out"
      <4>1. Before(s, k + 1) = AfterChar("in", "quote")
            BY <1>1, <2>1, <2>5, BeforeIs
      <4>   QED  BY <4>1 DEF AfterChar
    <3>3. \A x \in k..e : x = k
          BY <1>1, <3>1
    <3>   QED  BY <2>1, <2>2, <2>5, <3>1, <3>2, <3>3
  <2>6. CASE k <= Len(s) /\ s[k] = "backslash"
    <3>1. Before(s, k + 1) = "escape"
      <4>1. Before(s, k + 1) = AfterChar("in", "backslash")
            BY <1>1, <2>1, <2>6, BeforeIs
      <4>   QED  BY <4>1 DEF AfterChar
    <3>2. e = ClosingQuote(s, k + 2)
          BY <1>1, <2>2, <2>3, <2>6, QuoteIs
    <3>3. CASE k = Len(s)
      <4>1. e = Len(s) + 1 /\ \A x \in k..e : x = k \/ x = k + 1
            BY <1>1, <3>2, <3>3, QuoteRange
      <4>   QED  BY <1>1, <2>1, <2>2, <3>1, <4>1
    <3>4. CASE k # Len(s)
      <4>1. k + 2 \in k + 1..n /\ k + 1 \in 1..Len(s) /\ (k + 1) + 1 = k + 2
            BY <1>1, <2>6, <3>4
      <4>2. Before(s, k + 2) = "in"
        <5>1. Before(s, k + 2) = AfterChar("escape", s[k + 1])
              BY <3>1, <4>1, BeforeIs
        <5>   QED  BY <5>1 DEF AfterChar
      <4>3. Good(k + 2)
            BY <1>2, <4>1
      <4>4. \A x \in k..e : x = k \/ x = k + 1 \/ x \in k + 2..e
            BY <1>1, <2>3
      <4>   QED  BY <2>1, <2>2, <3>1, <3>2, <4>2, <4>3, <4>4
    <3>   QED  BY <3>3, <3>4
  <2>7. CASE k <= Len(s) /\ s[k] \notin {"quote", "backslash"}
    <3>1. Before(s, k + 1) = "in"
      <4>1. Before(s, k + 1) = AfterChar("in", s[k])
            BY <1>1, <2>1, <2>7, BeforeIs
      <4>   QED  BY <2>7, <4>1 DEF AfterChar
    <3>2. e = ClosingQuote(s, k + 1)
          BY <1>1, <2>2, <2>3, <2>7, QuoteIs
    <3>3. k + 1 \in k + 1..n
          BY <1>1, <2>7
    <3>4. Good(k + 1)
          BY <1>2, <3>3
    <3>5. \A x \in k..e : x = k \/ x \in k + 1..e
          BY <1>1, <2>3
    <3>   QED  BY <2>1, <2>2, <3>1, <3>2, <3>4, <3>5
  <2>   HIDE DEF Good
  <2>   QED  BY <1>1, <2>3, <2>4, <2>5, <2>6, <2>7
<1>   HIDE DEF S
<1>3. \A k \in 1..n : k \in S
  <2>   HIDE DEF n
  <2>   QED  BY <1>1, <1>2, FromTheEnd
<1>4. Good(m)
      BY <1>3 DEF S
<1>   QED  BY <1>4

LEMMA BracketedIs ==
    ASSUME NEW s \in TemplateText, NEW m \in 1..Len(s), s[m] = "comma", Before(s, m) = "out"
    PROVE  Bracketed(s, m) = IF Trails(s, m) THEN {m} ELSE {}
<1>1. PICK w : w = SkipSpace(s, m + 1)
      OBVIOUS
<1>2. Len(s) \in Nat /\ m + 1 \in 1..Len(s) + 1
      BY TextLength
<1>3. /\ w \in m + 1..Len(s) + 1 /\ (\A k \in m + 1..w - 1 : s[k] = "space")
      /\ w > Len(s) \/ s[w] # "space"
      BY <1>1, <1>2, SpaceSkipped
<1>4. CASE w <= Len(s) /\ s[w] = "close"
  <2>1. w \in m + 1..Len(s)
        BY <1>2, <1>3, <1>4
  <2>2. Trails(s, m)
        BY <1>3, <1>4, <2>1 DEF Trails
  <2>   QED  BY <1>1, <1>4, <2>2 DEF Bracketed
<1>5. CASE ~(w <= Len(s) /\ s[w] = "close")
  <2>1. ASSUME NEW x \in m + 1..Len(s), s[x] = "close", \A k \in m + 1..x - 1 : s[k] = "space"
        PROVE  FALSE
    <3>1. CASE x < w
      <4>1. x \in m + 1..w - 1
            BY <1>2, <1>3, <2>1, <3>1
      <4>   QED  BY <1>3, <2>1, <4>1
    <3>2. CASE x > w
      <4>1. w \in m + 1..x - 1 /\ ~(w > Len(s))
            BY <1>2, <1>3, <2>1, <3>2
      <4>   QED  BY <1>3, <2>1, <4>1
    <3>3. CASE x = w
          BY <1>2, <1>5, <2>1, <3>3
    <3>   QED  BY <1>2, <1>3, <3>1, <3>2, <3>3
  <2>2. ~Trails(s, m)
        BY <2>1 DEF Trails
  <2>   QED  BY <1>1, <1>5, <2>2 DEF Bracketed
<1>   QED  BY <1>4, <1>5

LEMMA TrailingAre ==
    ASSUME NEW s \in TemplateText, NEW m \in 1..Len(s) + 1, Before(s, m) = "out"
    PROVE  TrailingFrom(s, m) = {k \in m..Len(s) : Trails(s, k)}
<1>   DEFINE n == Len(s) + 1
             Good(k) == Before(s, k) = "out" =>
                           TrailingFrom(s, k) = {x \in k..Len(s) : Trails(s, x)}
             S == {k \in 1..n : Good(k)}
<1>1. Len(s) \in Nat /\ n \in Nat
      BY TextLength
<1>2. ASSUME NEW k \in 1..n, \A x \in k + 1..n : x \in S PROVE k \in S
  <2>1. SUFFICES ASSUME Before(s, k) = "out"
                 PROVE  TrailingFrom(s, k) = {x \in k..Len(s) : Trails(s, x)}
        OBVIOUS
  <2>2. k \in 1..Len(s) + 2 /\ (k <= Len(s) \/ k = Len(s) + 1)
        BY <1>1
  <2>3. CASE k = Len(s) + 1
    <3>1. TrailingFrom(s, k) = {}
          BY <1>1, <2>2, <2>3, TrailingIs
    <3>2. k..Len(s) = {}
          BY <1>1, <2>3
    <3>   QED  BY <3>1, <3>2
  <2>4. CASE k <= Len(s) /\ s[k] = "quote"
    <3>1. PICK e : e = ClosingQuote(s, k + 1)
          OBVIOUS
    <3>2. k + 1 \in 1..Len(s) + 1 /\ e \in k + 1..Len(s) + 1 /\ k \in 1..Len(s)
      <4>1. k + 1 \in 1..Len(s) + 1 /\ k \in 1..Len(s)
            BY <1>1, <2>4
      <4>   QED  BY <3>1, <4>1, QuoteRange
    <3>3. TrailingFrom(s, k) = TrailingFrom(s, e + 1)
          BY <1>1, <2>2, <2>4, <3>1, TrailingIs
    <3>4. Before(s, k + 1) = "in"
      <4>1. Before(s, k + 1) = AfterChar("out", "quote")
            BY <2>1, <2>4, <3>2, BeforeIs
      <4>   QED  BY <4>1 DEF AfterChar
    <3>5. /\ \A x \in k + 1..e : Before(s, x) # "out"
          /\ e <= Len(s) => Before(s, e + 1) = "out"
          BY <3>1, <3>2, <3>4, InLiteral
    <3>6. ~Trails(s, k) /\ \A x \in k + 1..e : ~Trails(s, x)
          BY <2>4, <3>5 DEF Trails
    <3>7. TrailingFrom(s, e + 1) = {x \in e + 1..Len(s) : Trails(s, x)}
      <4>1. CASE e = Len(s) + 1
        <5>1. e + 1 \in 1..Len(s) + 2 /\ e + 1 > Len(s) /\ e + 1..Len(s) = {}
              BY <1>1, <4>1
        <5>   QED  BY <5>1, TrailingIs
      <4>2. CASE e # Len(s) + 1
        <5>1. e + 1 \in k + 1..n /\ e <= Len(s)
              BY <1>1, <3>2, <4>2
        <5>2. Good(e + 1)
              BY <1>2, <5>1
        <5>   QED  BY <3>5, <5>1, <5>2
      <4>   QED  BY <4>1, <4>2
    <3>8. \A x \in k..Len(s) : x = k \/ x \in k + 1..e \/ x \in e + 1..Len(s)
          BY <1>1, <3>2
    <3>9. \A x \in e + 1..Len(s) : x \in k..Len(s)
          BY <1>1, <3>2
    <3>10. {x \in k..Len(s) : Trails(s, x)} = {x \in e + 1..Len(s) : Trails(s, x)}
          BY <3>6, <3>8, <3>9, Zenon
    <3>   QED  BY <3>3, <3>7, <3>10
  <2>5. CASE k <= Len(s) /\ s[k] # "quote"
    <3>1. k \in 1..Len(s) /\ k + 1 \in k + 1..n
          BY <1>1, <2>5
    <3>2. Before(s, k + 1) = "out"
      <4>1. Before(s, k + 1) = AfterChar("out", s[k])
            BY <2>1, <3>1, BeforeIs
      <4>   QED  BY <2>5, <4>1 DEF AfterChar
    <3>3. Good(k + 1)
          BY <1>2, <3>1
    <3>4. TrailingFrom(s, k + 1) = {x \in k + 1..Len(s) : Trails(s, x)}
          BY <3>2, <3>3
    <3>5. \A x \in k..Len(s) : x = k \/ x \in k + 1..Len(s)
          BY <1>1
    <3>6. k \in k..Len(s) /\ \A x \in k + 1..Len(s) : x \in k..Len(s)
          BY <1>1, <3>1
    <3>7. CASE s[k] = "comma"
      <4>1. TrailingFrom(s, k) = Bracketed(s, k) \cup TrailingFrom(s, k + 1)
            BY <1>1, <2>2, <2>5, <3>7, TrailingIs
      <4>2. Bracketed(s, k) = IF Trails(s, k) THEN {k} ELSE {}
            BY <2>1, <3>1, <3>7, BracketedIs
      <4>   QED  BY <3>4, <3>5, <3>6, <4>1, <4>2
    <3>8. CASE s[k] # "comma"
      <4>1. TrailingFrom(s, k) = TrailingFrom(s, k + 1)
            BY <1>1, <2>2, <2>5, <3>8, TrailingIs
      <4>2. ~Trails(s, k)
            BY <3>8 DEF Trails
      <4>   QED  BY <3>4, <3>5, <3>6, <4>1, <4>2
    <3>   QED  BY <3>7, <3>8
  <2>   QED  BY <2>2, <2>3, <2>4, <2>5
<1>   HIDE DEF S
<1>3. \A k \in 1..n : k \in S
  <2>   HIDE DEF n
  <2>   QED  BY <1>1, <1>2, FromTheEnd
<1>4. Good(m)
      BY <1>3 DEF S
<1>   QED  BY <1>4

\* The commas that are removed are those that come before a closing bracket.
LEMMA CommasRemoved ==
    ASSUME NEW s \in TemplateText
    PROVE  remove_trailing_commas(s) = NoTrailingCommas(s)
<1>1. Len(s) \in Nat /\ DOMAIN s = 1..Len(s) /\ 1 \in 1..Len(s) + 1
      BY DEF TemplateText
<1>2. TrailingFrom(s, 1) = {k \in 1..Len(s) : Trails(s, k)}
      BY <1>1, BeforeIs, TrailingAre
<1>3. \A n \in DOMAIN s : n \in TrailingFrom(s, 1) <=> Trails(s, n)
      BY <1>1, <1>2
<1>   QED  BY <1>3 DEF remove_trailing_commas, NoTrailingCommas

-----------------------------------------------------------------------------
\* Where loops are closed.

TemplateTyped == json \in Seq(Token)

LEMMA TemplateLength ==
    ASSUME TemplateTyped
    PROVE  /\ Len(json) \in Nat /\ DOMAIN json = 1..Len(json)
           /\ \A n \in 1..Len(json) : json[n] \in Token
BY DEF TemplateTyped

\* Closing[m], and the same of a function that need not have such values.
ClosingStep(f, m) ==
    IF m > Len(json) \/ json[m].kind = "end" THEN m
    ELSE IF json[m].kind # "for" THEN f[m + 1]
    ELSE IF f[m + 1] > Len(json) THEN Len(json) + 1
    ELSE f[f[m + 1] + 1]

GuardedStep(f, m) ==
    IF m > Len(json) \/ json[m].kind = "end" THEN m
    ELSE IF json[m].kind # "for" THEN f[m + 1]
    ELSE IF f[m + 1] \notin m + 1..Len(json) THEN Len(json) + 1
    ELSE f[f[m + 1] + 1]

LEMMA ClosingExists ==
    ASSUME TemplateTyped
    PROVE  \E f : f = [m \in 1..Len(json) + 1 |-> ClosingStep(f, m)]
<1>   DEFINE n == Len(json) + 1
             A == 1..n
             G == [m \in 1..n |-> [f \in [1..n -> A] |-> GuardedStep(f, m)]]
<1>1. Len(json) \in Nat /\ n \in Nat /\ A # {}
  <2>1. Len(json) \in Nat
        BY TemplateLength
  <2>2. n \in Nat /\ 1 \in A
        BY <2>1
  <2>   QED  BY <2>1, <2>2
<1>2. ASSUME NEW m \in 1..n, NEW f \in [1..n -> A] PROVE GuardedStep(f, m) \in A
  <2>1. m <= Len(json) => m + 1 \in 1..n
        BY <1>1
  <2>2. m <= Len(json) => f[m + 1] \in A
        BY <2>1
  <2>3. m <= Len(json) /\ f[m + 1] \in m + 1..Len(json) => f[m + 1] + 1 \in 1..n
        BY <1>1, <2>2
  <2>4. m <= Len(json) /\ f[m + 1] \in m + 1..Len(json) => f[f[m + 1] + 1] \in A
        BY <2>3
  <2>   QED  BY <1>1, <2>2, <2>4 DEF GuardedStep
<1>3. G \in [1..n -> [[1..n -> A] -> A]]
      BY <1>2
<1>4. ASSUME NEW m \in 1..n, NEW f \in [1..n -> A], NEW h \in [1..n -> A],
             \A k \in m + 1..n : f[k] = h[k]
      PROVE  G[m][f] = G[m][h]
  <2>1. m <= Len(json) => f[m + 1] = h[m + 1]
        BY <1>1, <1>4
  <2>2. m <= Len(json) /\ f[m + 1] \in m + 1..Len(json) => f[m + 1] + 1 \in m + 1..n
        BY <1>1
  <2>3. m <= Len(json) /\ f[m + 1] \in m + 1..Len(json) => f[f[m + 1] + 1] = h[f[m + 1] + 1]
        BY <1>4, <2>2
  <2>4. m > Len(json) <=> ~(m <= Len(json))
        BY <1>1
  <2>5. GuardedStep(f, m) = GuardedStep(h, m)
        BY <2>1, <2>3, <2>4 DEF GuardedStep
  <2>   HIDE DEF n, A
  <2>   QED  BY <2>5
<1>5. \A m \in 1..n, f \in [1..n -> A] : G[m][f] = GuardedStep(f, m)
      OBVIOUS
<1>   HIDE DEF A, G
<1>6. PICK f : MadeBy(f, n, A, G)
  <2>1. FromLater(n, A, G)
        BY <1>3, <1>4 DEF FromLater
  <2>   HIDE DEF n
  <2>   QED  BY <1>1, <2>1, Backwards
<1>7. f \in [1..n -> A] /\ \A m \in 1..n : f[m] = GuardedStep(f, m)
      BY <1>5, <1>6 DEF MadeBy
<1>   DEFINE S == {m \in 1..n : f[m] \in m..n}
<1>8. \A m \in 1..n : m \in S
  <2>1. ASSUME NEW m \in 1..n, \A k \in m + 1..n : k \in S PROVE m \in S
    <3>1. m <= Len(json) => m + 1 \in m + 1..n /\ m + 1 \in 1..n
          BY <1>1
    <3>2. m <= Len(json) => f[m + 1] \in m + 1..n
          BY <2>1, <3>1
    <3>3. m <= Len(json) /\ f[m + 1] \in m + 1..Len(json) => f[m + 1] + 1 \in m + 1..n
          BY <1>1, <3>2
    <3>4. m <= Len(json) /\ f[m + 1] \in m + 1..Len(json) =>
              f[f[m + 1] + 1] \in f[m + 1] + 1..n
          BY <2>1, <3>3
    <3>5. f[m] = GuardedStep(f, m)
          BY <1>7
    <3>   QED  BY <1>1, <3>2, <3>4, <3>5 DEF GuardedStep
  <2>   HIDE DEF S, n
  <2>   QED  BY <1>1, <2>1, FromTheEnd
<1>9. ASSUME NEW m \in 1..n PROVE GuardedStep(f, m) = ClosingStep(f, m)
  <2>1. m <= Len(json) => f[m + 1] \in m + 1..n
    <3>1. m <= Len(json) => m + 1 \in 1..n
          BY <1>1
    <3>   QED  BY <1>8, <3>1
  <2>2. m <= Len(json) => (f[m + 1] \notin m + 1..Len(json) <=> f[m + 1] > Len(json))
        BY <1>1, <2>1
  <2>3. m > Len(json) <=> ~(m <= Len(json))
        BY <1>1
  <2>   QED  BY <2>2, <2>3 DEF GuardedStep, ClosingStep
<1>10. f = [m \in 1..n |-> f[m]]
      BY <1>7
<1>11. f = [m \in 1..n |-> ClosingStep(f, m)]
  <2>   HIDE DEF n
  <2>   QED  BY <1>7, <1>9, <1>10
<1>   QED  BY <1>11

LEMMA ClosingIs ==
    ASSUME TemplateTyped, NEW m \in 1..Len(json) + 1
    PROVE  /\ Closing[m] \in m..Len(json) + 1
           /\ m > Len(json) => Closing[m] = m
           /\ m <= Len(json) =>
                /\ json[m].kind = "end" => Closing[m] = m
                /\ json[m].kind \notin {"end", "for"} => Closing[m] = Closing[m + 1]
                /\ json[m].kind = "for" =>
                      /\ Closing[m + 1] > Len(json) => Closing[m] = Len(json) + 1
                      /\ Closing[m + 1] <= Len(json) => Closing[m] = Closing[Closing[m + 1] + 1]
<1>   DEFINE n == Len(json) + 1
<1>1. Len(json) \in Nat /\ n \in Nat
      BY TemplateLength
<1>2. Closing = CHOOSE f : f = [k \in 1..Len(json) + 1 |-> ClosingStep(f, k)]
      BY DEF Closing, ClosingStep
<1>3. Closing = [k \in 1..Len(json) + 1 |-> ClosingStep(Closing, k)]
      BY <1>2, ClosingExists
<1>4. \A k \in 1..n : Closing[k] = ClosingStep(Closing, k)
      BY <1>3
<1>   DEFINE S == {k \in 1..n : Closing[k] \in k..n}
<1>5. \A k \in 1..n : k \in S
  <2>1. ASSUME NEW k \in 1..n, \A x \in k + 1..n : x \in S PROVE k \in S
    <3>1. k <= Len(json) => k + 1 \in k + 1..n
          BY <1>1
    <3>2. k <= Len(json) => Closing[k + 1] \in k + 1..n
          BY <2>1, <3>1
    <3>3. k <= Len(json) /\ ~(Closing[k + 1] > Len(json)) => Closing[k + 1] + 1 \in k + 1..n
          BY <1>1, <3>2
    <3>4. k <= Len(json) /\ ~(Closing[k + 1] > Len(json)) =>
              Closing[Closing[k + 1] + 1] \in Closing[k + 1] + 1..n
          BY <2>1, <3>3
    <3>5. Closing[k] = ClosingStep(Closing, k)
          BY <1>4
    <3>   QED  BY <1>1, <3>2, <3>4, <3>5 DEF ClosingStep
  <2>   HIDE DEF S, n
  <2>   QED  BY <1>1, <2>1, FromTheEnd
<1>6. Closing[m] \in m..n
      BY <1>5
<1>7. m <= Len(json) => Closing[m + 1] \in m + 1..n
  <2>1. m <= Len(json) => m + 1 \in 1..n
        BY <1>1
  <2>   QED  BY <1>5, <2>1
<1>8. Closing[m] = ClosingStep(Closing, m)
      BY <1>4
<1>   QED  BY <1>1, <1>6, <1>7, <1>8 DEF ClosingStep

-----------------------------------------------------------------------------
\* Loops that are skipped.

Depths == Nat \ {0}

SkipStep(f, m) ==
    [d \in Nat \ {0} |->
        IF m > Len(json) THEN Len(json) + 2
        ELSE CASE LooksLikeFor(json[m]) -> f[m + 1][d + 1]
               [] LooksLikeEnd(json[m]) -> IF d = 1 THEN m + 1 ELSE f[m + 1][d - 1]
               [] OTHER                 -> f[m + 1][d]]

LEMMA SkipStepIs ==
    ASSUME TemplateTyped, NEW m \in 1..Len(json) + 1, NEW f, NEW d \in Depths
    PROVE  /\ m > Len(json) => SkipStep(f, m)[d] = Len(json) + 2
           /\ m <= Len(json) =>
                /\ LooksLikeFor(json[m]) => SkipStep(f, m)[d] = f[m + 1][d + 1]
                /\ LooksLikeEnd(json[m]) =>
                      SkipStep(f, m)[d] = IF d = 1 THEN m + 1 ELSE f[m + 1][d - 1]
                /\ ~LooksLikeFor(json[m]) /\ ~LooksLikeEnd(json[m]) =>
                      SkipStep(f, m)[d] = f[m + 1][d]
<1>1. Len(json) \in Nat /\ (m > Len(json) <=> ~(m <= Len(json)))
      BY TemplateLength
<1>2. LooksLikeFor(json[m]) => ~LooksLikeEnd(json[m])
      BY DEF LooksLikeFor, LooksLikeEnd
<1>3. SkipStep(f, m)[d] =
          IF m > Len(json) THEN Len(json) + 2
          ELSE CASE LooksLikeFor(json[m]) -> f[m + 1][d + 1]
                 [] LooksLikeEnd(json[m]) -> IF d = 1 THEN m + 1 ELSE f[m + 1][d - 1]
                 [] OTHER                 -> f[m + 1][d]
      BY DEF SkipStep, Depths
<1>4. CASE m > Len(json)
      BY <1>1, <1>3, <1>4
<1>5. CASE m <= Len(json) /\ LooksLikeFor(json[m])
      BY <1>1, <1>2, <1>3, <1>5
<1>6. CASE m <= Len(json) /\ LooksLikeEnd(json[m])
      BY <1>1, <1>2, <1>3, <1>6
<1>7. CASE m <= Len(json) /\ ~LooksLikeFor(json[m]) /\ ~LooksLikeEnd(json[m])
      BY <1>1, <1>3, <1>7
<1>   QED  BY <1>1, <1>4, <1>5, <1>6, <1>7

LEMMA SkipExists ==
    ASSUME TemplateTyped
    PROVE  \E f : f = [m \in 1..Len(json) + 1 |-> SkipStep(f, m)]
<1>   DEFINE n == Len(json) + 1
             A == [Depths -> Nat]
             G == [m \in 1..n |-> [f \in [1..n -> A] |-> SkipStep(f, m)]]
<1>1. Len(json) \in Nat /\ n \in Nat
      BY TemplateLength
<1>2. A # {}
  <2>1. [d \in Depths |-> 0] \in A
        OBVIOUS
  <2>   QED  BY <2>1
<1>3. \A d \in Depths : d + 1 \in Depths /\ (d # 1 => d - 1 \in Depths)
      BY DEF Depths
<1>4. ASSUME NEW m \in 1..n, NEW f \in [1..n -> A] PROVE SkipStep(f, m) \in A
  <2>1. ASSUME NEW d \in Depths PROVE SkipStep(f, m)[d] \in Nat
    <3>1. m <= Len(json) => m + 1 \in 1..n /\ m + 1 \in Nat
          BY <1>1
    <3>2. m <= Len(json) => f[m + 1] \in [Depths -> Nat]
          BY <3>1
    <3>3. m <= Len(json) => /\ f[m + 1][d] \in Nat /\ f[m + 1][d + 1] \in Nat
                            /\ d # 1 => f[m + 1][d - 1] \in Nat
          BY <1>3, <3>2
    <3>4. Len(json) + 2 \in Nat /\ (m > Len(json) <=> ~(m <= Len(json)))
          BY <1>1
    <3>   HIDE DEF A
    <3>5. CASE m > Len(json)
          BY <3>4, <3>5, SkipStepIs
    <3>6. CASE m <= Len(json) /\ LooksLikeFor(json[m])
          BY <3>3, <3>6, SkipStepIs
    <3>7. CASE m <= Len(json) /\ LooksLikeEnd(json[m])
          BY <3>1, <3>3, <3>7, SkipStepIs
    <3>8. CASE m <= Len(json) /\ ~LooksLikeFor(json[m]) /\ ~LooksLikeEnd(json[m])
          BY <3>3, <3>8, SkipStepIs
    <3>   QED  BY <3>4, <3>5, <3>6, <3>7, <3>8
  <2>2. SkipStep(f, m) = [d \in Depths |-> SkipStep(f, m)[d]]
        BY DEF SkipStep, Depths
  <2>   QED  BY <2>1, <2>2
<1>5. G \in [1..n -> [[1..n -> A] -> A]]
  <2>   HIDE DEF A
  <2>   QED  BY <1>4
<1>6. ASSUME NEW m \in 1..n, NEW f \in [1..n -> A], NEW h \in [1..n -> A],
             \A k \in m + 1..n : f[k] = h[k]
      PROVE  G[m][f] = G[m][h]
  <2>1. SkipStep(f, m) = SkipStep(h, m)
    <3>1. CASE m <= Len(json)
      <4>1. m + 1 \in m + 1..n /\ ~(m > Len(json))
            BY <1>1, <3>1
      <4>2. f[m + 1] = h[m + 1]
            BY <1>6, <4>1
      <4>   QED  BY <4>1, <4>2 DEF SkipStep
    <3>2. CASE m > Len(json)
          BY <3>2 DEF SkipStep
    <3>   QED  BY <1>1, <3>1, <3>2
  <2>   HIDE DEF n, A
  <2>   QED  BY <2>1
<1>7. \A m \in 1..n, f \in [1..n -> A] : G[m][f] = SkipStep(f, m)
      OBVIOUS
<1>   HIDE DEF n, A, G
<1>8. PICK f : MadeBy(f, n, A, G)
  <2>1. FromLater(n, A, G)
        BY <1>5, <1>6 DEF FromLater
  <2>   QED  BY <1>1, <1>2, <2>1, Backwards
<1>9. f = [m \in 1..n |-> SkipStep(f, m)]
      BY <1>7, <1>8 DEF MadeBy
<1>   QED  BY <1>9 DEF n

LEMMA SkipIs ==
    ASSUME TemplateTyped, NEW m \in 1..Len(json) + 1, NEW d \in Depths
    PROVE  /\ m > Len(json) => SkipFrom(m, d) = Len(json) + 2
           /\ m <= Len(json) =>
                /\ LooksLikeFor(json[m]) => SkipFrom(m, d) = SkipFrom(m + 1, d + 1)
                /\ LooksLikeEnd(json[m]) =>
                      SkipFrom(m, d) = IF d = 1 THEN m + 1 ELSE SkipFrom(m + 1, d - 1)
                /\ ~LooksLikeFor(json[m]) /\ ~LooksLikeEnd(json[m]) =>
                      SkipFrom(m, d) = SkipFrom(m + 1, d)
<1>1. PICK f : f = CHOOSE g : g = [k \in 1..Len(json) + 1 |-> SkipStep(g, k)]
      OBVIOUS
<1>2. f = [k \in 1..Len(json) + 1 |-> SkipStep(f, k)]
      BY <1>1, SkipExists
<1>3. \A k, x : SkipFrom(k, x) = f[k][x]
      BY <1>1 DEF SkipFrom, SkipStep
<1>4. f[m] = SkipStep(f, m)
      BY <1>2
<1>   QED  BY <1>3, <1>4, SkipStepIs

\* What skip_iter counts are loops and ends, so it stops after the end that closes.
LEMMA SkipCloses ==
    ASSUME TemplateTyped, PlainLoops, NEW m \in 1..Len(json) + 1
    PROVE  SkipFrom(m, 1) = IF Closing[m] > Len(json) THEN Len(json) + 2 ELSE Closing[m] + 1
<1>   DEFINE n == Len(json) + 1
             Good(k) == /\ Closing[k] > Len(json) => \A d \in Depths : SkipFrom(k, d) = Len(json) + 2
                        /\ Closing[k] <= Len(json) =>
                              /\ SkipFrom(k, 1) = Closing[k] + 1
                              /\ \A d \in Depths : SkipFrom(k, d + 1) = SkipFrom(Closing[k] + 1, d)
             S == {k \in 1..n : Good(k)}
<1>1. Len(json) \in Nat /\ n \in Nat /\ DOMAIN json = 1..Len(json)
      BY TemplateLength
<1>2. 1 \in Depths /\ \A d \in Depths : d + 1 \in Depths /\ d + 1 # 1 /\ (d + 1) - 1 = d
      BY DEF Depths
<1>3. ASSUME NEW k \in 1..Len(json)
      PROVE  /\ LooksLikeFor(json[k]) <=> json[k].kind = "for"
             /\ LooksLikeEnd(json[k]) <=> json[k].kind = "end"
      BY <1>1 DEF PlainLoops, Tokens, LooksLikeFor, LooksLikeEnd
<1>4. ASSUME NEW k \in 1..n, \A x \in k + 1..n : x \in S PROVE k \in S
  <2>1. k <= Len(json) \/ k = Len(json) + 1
        BY <1>1
  <2>2. CASE k = Len(json) + 1
    <3>1. Closing[k] = Len(json) + 1 /\ k > Len(json)
          BY <1>1, <2>2, ClosingIs
    <3>2. \A d \in Depths : SkipFrom(k, d) = Len(json) + 2
          BY <3>1, SkipIs
    <3>   QED  BY <1>1, <3>1, <3>2
  <2>3. CASE k <= Len(json)
    <3>1. k \in 1..Len(json) /\ k + 1 \in k + 1..n /\ k + 1 \in 1..n
          BY <1>1, <2>3
    <3>2. Good(k + 1)
          BY <1>4, <3>1
    <3>3. CASE json[k].kind = "end"
      <4>1. Closing[k] = k
            BY <2>3, <3>3, ClosingIs
      <4>2. LooksLikeEnd(json[k])
            BY <1>3, <3>1, <3>3
      <4>3. SkipFrom(k, 1) = k + 1
            BY <1>2, <2>3, <4>2, SkipIs
      <4>4. \A d \in Depths : SkipFrom(k, d + 1) = SkipFrom(k + 1, d)
            BY <1>2, <2>3, <4>2, SkipIs
      <4>   QED  BY <1>1, <2>3, <4>1, <4>3, <4>4
    <3>4. CASE json[k].kind \notin {"for", "end"}
      <4>1. Closing[k] = Closing[k + 1]
            BY <2>3, <3>4, ClosingIs
      <4>2. ~LooksLikeFor(json[k]) /\ ~LooksLikeEnd(json[k])
            BY <1>3, <3>1, <3>4
      <4>3. \A d \in Depths : SkipFrom(k, d) = SkipFrom(k + 1, d)
            BY <2>3, <4>2, SkipIs
      <4>   QED  BY <1>2, <3>2, <4>1, <4>3
    <3>5. CASE json[k].kind = "for"
      <4>1. PICK c : c = Closing[k + 1]
            OBVIOUS
      <4>2. LooksLikeFor(json[k])
            BY <1>3, <3>1, <3>5
      <4>3. \A d \in Depths : SkipFrom(k, d) = SkipFrom(k + 1, d + 1)
            BY <2>3, <4>2, SkipIs
      <4>4. c \in k + 1..Len(json) + 1
            BY <3>1, <4>1, ClosingIs
      <4>5. CASE c > Len(json)
        <5>1. Closing[k] = Len(json) + 1
              BY <2>3, <3>5, <4>1, <4>5, ClosingIs
        <5>2. \A d \in Depths : SkipFrom(k, d) = Len(json) + 2
              BY <1>2, <3>2, <4>1, <4>3, <4>5
        <5>   QED  BY <1>1, <5>1, <5>2
      <4>6. CASE c <= Len(json)
        <5>1. Closing[k] = Closing[c + 1]
              BY <2>3, <3>5, <4>1, <4>6, ClosingIs
        <5>2. c + 1 \in k + 1..n
              BY <1>1, <4>4, <4>6
        <5>3. Good(c + 1)
              BY <1>4, <5>2
        <5>4. \A d \in Depths : SkipFrom(k, d) = SkipFrom(c + 1, d)
              BY <3>2, <4>1, <4>3, <4>6
        <5>   QED  BY <1>2, <5>1, <5>3, <5>4
      <4>   QED  BY <1>1, <4>4, <4>5, <4>6
    <3>   QED  BY <3>3, <3>4, <3>5
  <2>   HIDE DEF Good
  <2>   QED  BY <2>1, <2>2, <2>3
<1>   HIDE DEF S
<1>5. \A k \in 1..n : k \in S
  <2>   HIDE DEF n
  <2>   QED  BY <1>1, <1>4, FromTheEnd
<1>6. Good(m)
      BY <1>5 DEF S
<1>7. Closing[m] \in m..Len(json) + 1
      BY ClosingIs
<1>   QED  BY <1>1, <1>2, <1>6, <1>7

-----------------------------------------------------------------------------
\* Tokens and objects.

CaseType == [match : SUBSET Seq(Char), value : Seq(Char), ok : BOOLEAN]
ObjectType == [Attribute -> Seq(TemplateText)]

LEMMA TokenKinds ==
    ASSUME NEW t \in Token
    PROVE  /\ t.kind \in {"text", "var", "switch", "for", "end", "malformed"}
           /\ t.kind = "text" => t.chars \in TemplateText
           /\ t.kind = "var" => /\ t.iter \in BOOLEAN /\ t.bar \in BOOLEAN
                                /\ t.iter => t.name \in IterName
                                /\ ~t.iter => t.name \in Attribute
           /\ t.kind = "switch" => /\ t.iter = FALSE /\ t.name \in Attribute
                                   /\ t.default \in TemplateText /\ t.cases \in Seq(CaseType)
           /\ t.kind = "for" => /\ t.vars \in Seq(IterName) /\ t.vars # <<>>
                                /\ t.attrs \in Seq(Attribute) /\ t.attrs # <<>>
<1>1. CASE t \in [kind : {"text"}, chars : Seq(Char)]
      BY <1>1 DEF TemplateText
<1>2. CASE t \in [kind : {"var"}, iter : {FALSE}, name : Attribute, bar : BOOLEAN]
      BY <1>2
<1>3. CASE t \in [kind : {"var"}, iter : {TRUE}, name : IterName, bar : BOOLEAN]
      BY <1>3
<1>4. CASE t \in [kind : {"switch"}, iter : {FALSE}, name : Attribute, default : Seq(Char),
                  cases : Seq([match : SUBSET Seq(Char), value : Seq(Char), ok : BOOLEAN])]
      BY <1>4 DEF TemplateText, CaseType
<1>5. CASE t \in [kind : {"for"}, vars : Seq(IterName) \ {<<>>}, attrs : Seq(Attribute) \ {<<>>},
                spaced : BOOLEAN]
      BY <1>5
<1>6. CASE t \in [kind : {"end"}, spaced : BOOLEAN]
      BY <1>6
<1>7. CASE t = Malformed
      BY <1>7 DEF Malformed
<1>   QED  BY <1>1, <1>2, <1>3, <1>4, <1>5, <1>6, <1>7 DEF Token

LEMMA NthType ==
    ASSUME NEW values \in Seq(TemplateText), NEW n \in Nat
    PROVE  NthOrEmpty(values, n) \in TemplateText
<1>1. <<>> \in TemplateText
      BY DEF TemplateText
<1>2. n < Len(values) => n + 1 \in 1..Len(values)
      OBVIOUS
<1>3. n < Len(values) => values[n + 1] \in TemplateText
      BY <1>2
<1>   QED  BY <1>1, <1>3 DEF NthOrEmpty

LEMMA EscapeType ==
    ASSUME NEW v \in TemplateText
    PROVE  json_string_escape(v) \in TemplateText
<1>   DEFINE Escaped(c) == CASE c = "quote"     -> <<"backslash", "quote">>
                             [] c = "backslash" -> <<"backslash", "backslash">>
                             [] c = "control"   -> <<"backslash", "other">>
                             [] OTHER           -> <<c>>
             parts == [n \in DOMAIN v |-> Escaped(v[n])]
<1>1. \A c \in Char : Escaped(c) \in Seq(Char)
  <2>1. SUFFICES ASSUME NEW c \in Char PROVE Escaped(c) \in Seq(Char)
        OBVIOUS
  <2>2. {"quote", "backslash", "other"} \subseteq Char
        BY DEF Char
  <2>3. /\ <<"backslash", "quote">> \in Seq(Char) /\ <<"backslash", "backslash">> \in Seq(Char)
        /\ <<"backslash", "other">> \in Seq(Char) /\ <<c>> \in Seq(Char)
        BY <2>2
  <2>   QED  BY <2>3
<1>2. \A n \in 1..Len(v) : v[n] \in Char
      BY TextLength
<1>3. DOMAIN v = 1..Len(v) /\ Len(v) \in Nat
      BY DEF TemplateText
<1>4. parts \in [1..Len(v) -> Seq(Char)]
  <2>   HIDE DEF Escaped
  <2>   QED  BY <1>1, <1>2, <1>3
<1>5. parts \in Seq(Seq(Char))
  <2>   HIDE DEF parts
  <2>   QED  BY <1>3, <1>4
<1>6. FlattenSeq(parts) \in Seq(Char)
  <2>   HIDE DEF parts
  <2>   QED  BY <1>5, FlattenType
<1>7. json_string_escape(v) = FlattenSeq(parts)
      BY DEF json_string_escape
<1>   QED  BY <1>6, <1>7 DEF TemplateText

LEMMA ChosenType ==
    ASSUME NEW t \in Token, t.kind = "switch", NEW v
    PROVE  Chosen(t, v) \in TemplateText
<1>1. t.default \in TemplateText /\ t.cases \in Seq(CaseType)
      BY TokenKinds
<1>   DEFINE matching == {n \in DOMAIN t.cases : v \in t.cases[n].match}
<1>2. ASSUME matching # {} PROVE t.cases[Min(matching)].value \in TemplateText
  <2>1. DOMAIN t.cases = 1..Len(t.cases) /\ Len(t.cases) \in Nat
        BY <1>1
  <2>2. matching \in SUBSET Nat
        BY <2>1
  <2>3. Min(matching) \in matching
    <3>   HIDE DEF matching
    <3>   QED  BY <1>2, <2>2, MinOf
  <2>4. Min(matching) \in 1..Len(t.cases)
        BY <2>1, <2>3
  <2>5. t.cases[Min(matching)] \in CaseType
    <3>   HIDE DEF matching
    <3>   QED  BY <1>1, <2>4
  <2>   HIDE DEF matching
  <2>   QED  BY <2>5 DEF CaseType, TemplateText
<1>   QED  BY <1>1, <1>2 DEF Chosen

LEMMA MostIs ==
    ASSUME NEW n \in Nat, NEW f \in [1..n -> Nat], n # 0
    PROVE  Max({f[k] : k \in 1..n}) \in Nat
<1>   DEFINE s == {f[k] : k \in 1..n}
             T == {m \in 0..n : \E b \in Nat : \A k \in 1..m : f[k] <= b}
<1>1. 0 \in T
  <2>1. 0 \in Nat /\ \A k \in 1..0 : FALSE
        OBVIOUS
  <2>   QED  BY <2>1
<1>2. ASSUME NEW m \in 0..n - 1, m \in T PROVE m + 1 \in T
  <2>1. PICK b \in Nat : \A k \in 1..m : f[k] <= b
        BY <1>2
  <2>2. m + 1 \in 1..n /\ m + 1 \in 0..n
        OBVIOUS
  <2>3. PICK c \in Nat : c = b + f[m + 1] /\ b <= c /\ f[m + 1] <= c
    <3>1. f[m + 1] \in Nat
          BY <2>2
    <3>   QED  BY <3>1
  <2>4. ASSUME NEW k \in 1..m + 1 PROVE f[k] <= c
    <3>1. CASE k = m + 1
          BY <2>3, <3>1
    <3>2. CASE k # m + 1
      <4>1. k \in 1..m /\ k \in 1..n
            BY <3>2
      <4>2. f[k] \in Nat /\ f[k] <= b
            BY <2>1, <4>1
      <4>   QED  BY <2>3, <4>2
    <3>   QED  BY <3>1, <3>2
  <2>   QED  BY <2>2, <2>4
<1>   HIDE DEF T
<1>3. n \in T
  <2>1. \A k \in 0..n : k \in T
        BY <1>1, <1>2, UpTo
  <2>   QED  BY <2>1
<1>4. PICK b \in Nat : \A k \in 1..n : f[k] <= b
      BY <1>3 DEF T
<1>   DEFINE Below == {b - x : x \in s}
<1>5. s \in SUBSET Nat /\ \A x \in s : x <= b
      BY <1>4
<1>6. f[1] \in s
  <2>1. 1 \in 1..n
        OBVIOUS
  <2>   QED  BY <2>1
<1>   HIDE DEF s
<1>7. Below \in SUBSET Nat /\ Below # {}
      BY <1>5, <1>6
<1>8. PICK m \in Below : \A k \in Below : m <= k
  <2>   HIDE DEF Below
  <2>   QED  BY <1>7, LeastNumber
<1>9. PICK x \in s : m = b - x
      OBVIOUS
<1>10. \A y \in s : x >= y
  <2>1. SUFFICES ASSUME NEW y \in s PROVE x >= y
        OBVIOUS
  <2>2. b - y \in Below
        OBVIOUS
  <2>3. b - x <= b - y
        BY <1>8, <1>9, <2>2
  <2>   QED  BY <1>5, <2>3
<1>11. Max(s) \in s
      BY <1>10 DEF Max
<1>   QED  BY <1>5, <1>11 DEF s

LEMMA LoopValuesType ==
    ASSUME NEW t \in Token, t.kind = "for", Len(t.vars) = Len(t.attrs), NEW object \in ObjectType
    PROVE  /\ LoopValues(t, object) \in [Range(t.vars) -> Seq(TemplateText)]
           /\ Rounds(LoopValues(t, object)) \in Nat
           /\ Range(t.vars) \subseteq IterName
           /\ \A other : (\A a \in Range(t.attrs) : other[a] = object[a]) =>
                 LoopValues(t, other) = LoopValues(t, object)
<1>1. /\ t.vars \in Seq(IterName) /\ t.vars # <<>> /\ t.attrs \in Seq(Attribute)
      BY TokenKinds
<1>2. PICK n \in Nat : n = Len(t.vars) /\ n # 0 /\ DOMAIN t.vars = 1..n /\ DOMAIN t.attrs = 1..n
      BY <1>1
<1>   DEFINE FirstAt(v) == Min({k \in DOMAIN t.vars : t.vars[k] = v})
<1>3. ASSUME NEW v \in Range(t.vars) PROVE FirstAt(v) \in 1..n
  <2>1. PICK s : s = {k \in DOMAIN t.vars : t.vars[k] = v}
        OBVIOUS
  <2>2. s \in SUBSET Nat /\ s # {} /\ s \subseteq 1..n
        BY <1>2, <2>1 DEF Range
  <2>3. Min(s) \in s
        BY <2>2, MinOf
  <2>   QED  BY <2>1, <2>2, <2>3
<1>4. \A v \in Range(t.vars) : t.attrs[FirstAt(v)] \in Attribute /\ t.attrs[FirstAt(v)] \in Range(t.attrs)
  <2>   HIDE DEF FirstAt
  <2>1. SUFFICES ASSUME NEW v \in Range(t.vars)
                 PROVE  t.attrs[FirstAt(v)] \in Attribute /\ t.attrs[FirstAt(v)] \in Range(t.attrs)
        OBVIOUS
  <2>2. FirstAt(v) \in 1..n
        BY <1>3
  <2>   QED  BY <1>1, <1>2, <2>2 DEF Range
<1>5. \A o : LoopValues(t, o) = [v \in Range(t.vars) |-> o[t.attrs[FirstAt(v)]]]
      BY DEF LoopValues
<1>   HIDE DEF FirstAt
<1>6. PICK values : values = LoopValues(t, object)
      OBVIOUS
<1>7. values \in [Range(t.vars) -> Seq(TemplateText)]
      BY <1>4, <1>5, <1>6 DEF ObjectType
<1>8. Rounds(values) \in Nat
  <2>1. PICK f : f = [k \in 1..n |-> Len(values[t.vars[k]])]
        OBVIOUS
  <2>2. f \in [1..n -> Nat]
    <3>1. \A k \in 1..n : t.vars[k] \in Range(t.vars)
          BY <1>2 DEF Range
    <3>2. \A k \in 1..n : Len(values[t.vars[k]]) \in Nat
          BY <1>7, <3>1
    <3>   QED  BY <2>1, <3>2
  <2>3. {Len(values[v]) : v \in DOMAIN values} = {f[k] : k \in 1..n}
    <3>1. DOMAIN values = {t.vars[k] : k \in 1..n}
          BY <1>2, <1>7 DEF Range
    <3>   QED  BY <2>1, <3>1
  <2>   QED  BY <1>2, <2>2, <2>3, MostIs DEF Rounds
<1>9. Range(t.vars) \subseteq IterName
      BY <1>1 DEF Range
<1>10. ASSUME NEW other, \A a \in Range(t.attrs) : other[a] = object[a]
      PROVE  LoopValues(t, other) = LoopValues(t, object)
      BY <1>4, <1>5, <1>10
<1>   QED  BY <1>6, <1>7, <1>8, <1>9, <1>10

LEMMA BoundType ==
    ASSUME NEW t \in Token, t.kind = "for", Len(t.vars) = Len(t.attrs), NEW object \in ObjectType,
           NEW env \in Env, NEW n \in Nat \ {0}
    PROVE  Bound(env, t, object, n) \in Env
<1>1. PICK values : values = LoopValues(t, object)
      OBVIOUS
<1>2. values \in [Range(t.vars) -> Seq(TemplateText)] /\ Range(t.vars) \subseteq IterName
      BY <1>1, LoopValuesType
<1>3. \A v \in DOMAIN values : NthOrEmpty(values[v], n - 1) \in TemplateText
  <2>1. n - 1 \in Nat
        OBVIOUS
  <2>   QED  BY <1>2, <2>1, NthType
<1>4. Bound(env, t, object, n) =
          [v \in IterName |-> IF v \in DOMAIN values THEN {NthOrEmpty(values[v], n - 1)} ELSE env[v]]
      BY <1>1 DEF Bound
<1>   QED  BY <1>3, <1>4 DEF Env, TemplateText

-----------------------------------------------------------------------------
\* Texts one after the other.

Texts == SUBSET TemplateText

LEMMA ToThen ==
    ASSUME NEW X, NEW Y, NEW f \in X, NEW s \in Y
    PROVE  f \o s \in Then(X, Y)
BY SMT DEF Then

Splits(w, X, Y) == \E f, s : f \in X /\ s \in Y /\ w = f \o s

LEMMA OfThen == ASSUME NEW X, NEW Y, NEW w \in Then(X, Y) PROVE Splits(w, X, Y)
BY SMT DEF Then, Splits

LEMMA ThenOfTexts == ASSUME NEW X \in Texts, NEW Y \in Texts PROVE Then(X, Y) \in Texts
<1>1. \A f \in TemplateText, s \in TemplateText : f \o s \in TemplateText
      BY DEF TemplateText
<1>2. \A w \in Then(X, Y) : \E f, s : f \in X /\ s \in Y /\ w = f \o s
      BY OfThen DEF Splits
<1>3. X \subseteq TemplateText /\ Y \subseteq TemplateText
      BY DEF Texts
<1>4. Then(X, Y) \subseteq TemplateText
      BY <1>1, <1>2, <1>3
<1>   QED  BY <1>4 DEF Texts

LEMMA ThenNothing ==
    ASSUME NEW X \in Texts
    PROVE  /\ Then({<<>>}, X) = X /\ Then(X, {<<>>}) = X
           /\ Then({}, X) = {} /\ Then(X, {}) = {}
<1>1. \A s \in X : s \o <<>> = s /\ <<>> \o s = s
  <2>1. \A s \in Seq(Char) : s \o <<>> = s /\ <<>> \o s = s
        OBVIOUS
  <2>   QED  BY <2>1 DEF Texts, TemplateText
<1>   QED  BY <1>1 DEF Then

LEMMA Joined ==
    ASSUME NEW x \in TemplateText, NEW y \in TemplateText, NEW z \in TemplateText
    PROVE  (x \o y) \o z = x \o (y \o z)
BY DEF TemplateText

LEMMA ThenThen ==
    ASSUME NEW X \in Texts, NEW Y \in Texts, NEW Z \in Texts
    PROVE  Then(Then(X, Y), Z) = Then(X, Then(Y, Z))
<1>1. \A x \in X, y \in Y, z \in Z : (x \o y) \o z = x \o (y \o z)
      BY Joined DEF Texts
<1>2. Then(Then(X, Y), Z) \subseteq Then(X, Then(Y, Z))
  <2>1. SUFFICES ASSUME NEW w \in Then(Then(X, Y), Z) PROVE w \in Then(X, Then(Y, Z))
        OBVIOUS
  <2>2. PICK v, z : v \in Then(X, Y) /\ z \in Z /\ w = v \o z
    <3>1. Splits(w, Then(X, Y), Z)
          BY <2>1, OfThen
    <3>   QED  BY <3>1 DEF Splits
  <2>3. PICK x, y : x \in X /\ y \in Y /\ v = x \o y
    <3>1. Splits(v, X, Y)
          BY <2>2, OfThen
    <3>   QED  BY <3>1 DEF Splits
  <2>4. y \o z \in Then(Y, Z)
        BY <2>2, <2>3, ToThen
  <2>5. w = x \o (y \o z)
        BY <1>1, <2>2, <2>3
  <2>   QED  BY <2>2, <2>3, <2>4, <2>5, ToThen
<1>3. Then(X, Then(Y, Z)) \subseteq Then(Then(X, Y), Z)
  <2>1. SUFFICES ASSUME NEW w \in Then(X, Then(Y, Z)) PROVE w \in Then(Then(X, Y), Z)
        OBVIOUS
  <2>2. PICK x, v : x \in X /\ v \in Then(Y, Z) /\ w = x \o v
    <3>1. Splits(w, X, Then(Y, Z))
          BY <2>1, OfThen
    <3>   QED  BY <3>1 DEF Splits
  <2>3. PICK y, z : y \in Y /\ z \in Z /\ v = y \o z
    <3>1. Splits(v, Y, Z)
          BY <2>2, OfThen
    <3>   QED  BY <3>1 DEF Splits
  <2>4. x \o y \in Then(X, Y)
        BY <2>2, <2>3, ToThen
  <2>5. w = (x \o y) \o z
        BY <1>1, <2>2, <2>3
  <2>   QED  BY <2>2, <2>3, <2>4, <2>5, ToThen
<1>   QED  BY <1>2, <1>3

LEMMA ThenOne ==
    ASSUME NEW o \in TemplateText, NEW v \in TemplateText
    PROVE  Then({o}, {v}) = {o \o v}
BY DEF Then

\* InTurn(results).
TurnStep(results, f, n) ==
    IF n > Len(results) THEN {<<>>} ELSE Then(results[n], f[n + 1])

LEMMA TurnsExist ==
    ASSUME NEW results \in Seq(Texts)
    PROVE  \E f \in [1..Len(results) + 1 -> Texts] :
              f = [n \in 1..Len(results) + 1 |-> TurnStep(results, f, n)]
<1>   DEFINE n == Len(results) + 1
             G == [m \in 1..n |-> [f \in [1..n -> Texts] |-> TurnStep(results, f, m)]]
<1>1. Len(results) \in Nat /\ n \in Nat
      OBVIOUS
<1>2. {<<>>} \in Texts
      BY DEF Texts, TemplateText
<1>3. ASSUME NEW m \in 1..n, NEW f \in [1..n -> Texts] PROVE TurnStep(results, f, m) \in Texts
  <2>1. ~(m > Len(results)) => m \in 1..Len(results) /\ m + 1 \in 1..n
        BY <1>1
  <2>2. ~(m > Len(results)) => results[m] \in Texts /\ f[m + 1] \in Texts
        BY <2>1
  <2>   QED  BY <1>2, <2>2, ThenOfTexts DEF TurnStep
<1>4. G \in [1..n -> [[1..n -> Texts] -> Texts]]
  <2>   HIDE DEF n
  <2>   QED  BY <1>3
<1>5. ASSUME NEW m \in 1..n, NEW f \in [1..n -> Texts], NEW h \in [1..n -> Texts],
             \A k \in m + 1..n : f[k] = h[k]
      PROVE  G[m][f] = G[m][h]
  <2>1. ~(m > Len(results)) => m + 1 \in m + 1..n
        BY <1>1
  <2>2. TurnStep(results, f, m) = TurnStep(results, h, m)
        BY <1>5, <2>1 DEF TurnStep
  <2>   HIDE DEF n
  <2>   QED  BY <2>2
<1>6. \A m \in 1..n, f \in [1..n -> Texts] : G[m][f] = TurnStep(results, f, m)
      OBVIOUS
<1>   HIDE DEF n, G
<1>7. PICK f : MadeBy(f, n, Texts, G)
  <2>1. FromLater(n, Texts, G)
        BY <1>4, <1>5 DEF FromLater
  <2>   QED  BY <1>1, <1>2, <2>1, Backwards
<1>8. f \in [1..n -> Texts] /\ f = [m \in 1..n |-> TurnStep(results, f, m)]
      BY <1>6, <1>7 DEF MadeBy
<1>   QED  BY <1>8 DEF n

LEMMA InTurnIs ==
    ASSUME NEW results \in Seq(Texts), NEW n \in 1..Len(results) + 1
    PROVE  /\ InTurn(results)[n] \in Texts
           /\ n > Len(results) => InTurn(results)[n] = {<<>>}
           /\ n <= Len(results) => InTurn(results)[n] = Then(results[n], InTurn(results)[n + 1])
<1>1. Len(results) \in Nat
      OBVIOUS
<1>2. PICK f : f = CHOOSE g : g = [m \in 1..Len(results) + 1 |-> TurnStep(results, g, m)]
      OBVIOUS
<1>3. InTurn(results) = f
      BY <1>2 DEF InTurn, TurnStep
<1>4. f = [m \in 1..Len(results) + 1 |-> TurnStep(results, f, m)]
      BY <1>2, TurnsExist
<1>5. \A m \in 1..Len(results) + 1 : f[m] = TurnStep(results, f, m)
      BY <1>4
<1>   DEFINE k == Len(results) + 1
             S == {m \in 1..k : f[m] \in Texts}
<1>6. \A m \in 1..k : m \in S
  <2>1. ASSUME NEW m \in 1..k, \A x \in m + 1..k : x \in S PROVE m \in S
    <3>1. ~(m > Len(results)) => m + 1 \in m + 1..k /\ m \in 1..Len(results)
          BY <1>1
    <3>2. ~(m > Len(results)) => f[m + 1] \in Texts /\ results[m] \in Texts
          BY <2>1, <3>1
    <3>3. {<<>>} \in Texts
          BY DEF Texts, TemplateText
    <3>   QED  BY <1>5, <3>2, <3>3, ThenOfTexts DEF TurnStep
  <2>2. k \in Nat
        BY <1>1
  <2>   HIDE DEF S, k
  <2>   QED  BY <2>1, <2>2, FromTheEnd
<1>7. f[n] \in Texts
      BY <1>6
<1>   QED  BY <1>1, <1>3, <1>5, <1>7 DEF TurnStep

LEMMA SpelledType ==
    ASSUME NEW t \in Token, NEW object \in ObjectType, NEW env \in Env
    PROVE  Spelled(t, object, env) \in Texts
<1>1. t.kind \in {"var", "switch"} => ValueOf(t, object, env) \in Texts
  <2>1. CASE t.kind \in {"var", "switch"} /\ t.iter
        BY <2>1, TokenKinds DEF ValueOf, Env, Texts, TemplateText
  <2>2. CASE t.kind \in {"var", "switch"} /\ ~t.iter
    <3>1. t.name \in Attribute
          BY <2>2, TokenKinds
    <3>2. object[t.name] \in Seq(TemplateText)
          BY <3>1 DEF ObjectType
    <3>3. object[t.name] # <<>> => object[t.name][1] \in TemplateText
          BY <3>2
    <3>   QED  BY <2>2, <3>3 DEF ValueOf, Texts
  <2>   QED  BY <2>1, <2>2
<1>2. CASE t.kind = "text"
      BY <1>2, TokenKinds DEF Spelled, Texts
<1>3. CASE t.kind = "var"
  <2>1. Spelled(t, object, env) =
            {IF escape_by_default # t.bar THEN json_string_escape(v) ELSE v :
                v \in ValueOf(t, object, env)}
        BY <1>3 DEF Spelled
  <2>   QED  BY <1>1, <1>3, <2>1, EscapeType DEF Texts
<1>4. CASE t.kind = "switch"
  <2>1. \/ Spelled(t, object, env) = {Chosen(t, v) : v \in ValueOf(t, object, env)}
        \/ Spelled(t, object, env) = {}
        BY <1>4 DEF Spelled
  <2>   QED  BY <1>4, <2>1, ChosenType DEF Texts
<1>5. CASE t.kind \notin {"text", "var", "switch"}
  <2>1. Spelled(t, object, env) = {}
        BY <1>5 DEF Spelled
  <2>   QED  BY <2>1 DEF Texts
<1>   QED  BY <1>2, <1>3, <1>4, <1>5

-----------------------------------------------------------------------------
\* What a template means, from a place on.

\* The rounds of a loop, from what its body means.
RoundsOf(t, object, body, env) ==
    [n \in 1..Rounds(LoopValues(t, object)) |-> body[Bound(env, t, object, n)]]

MeaningStep(object, f, m) ==
    [env \in Env |->
        IF m > Len(json) \/ json[m].kind = "end" THEN {<<>>}
        ELSE IF json[m].kind # "for"
        THEN Then(Spelled(json[m], object, env), f[m + 1][env])
        ELSE IF Len(json[m].vars) # Len(json[m].attrs) \/ Closing[m + 1] > Len(json) THEN {}
        ELSE Then(InTurn(RoundsOf(json[m], object, f[m + 1], env))[1], f[Closing[m + 1] + 1][env])]

\* A loop that is written as it should be.
Looping(t) == t \in Token /\ t.kind = "for" /\ Len(t.vars) = Len(t.attrs)

Meanings == [Env -> Texts]

LEMMA RoundsOfType ==
    ASSUME NEW t, Looping(t), NEW object \in ObjectType, NEW body \in Meanings, NEW env \in Env
    PROVE  /\ RoundsOf(t, object, body, env) \in Seq(Texts)
           /\ Len(RoundsOf(t, object, body, env)) = Rounds(LoopValues(t, object))
           /\ Rounds(LoopValues(t, object)) \in Nat
           /\ \A n \in 1..Rounds(LoopValues(t, object)) :
                 RoundsOf(t, object, body, env)[n] = body[Bound(env, t, object, n)]
<1>1. t \in Token
      BY DEF Looping
<1>2. PICK r : r = Rounds(LoopValues(t, object))
      OBVIOUS
<1>3. r \in Nat
      BY <1>1, <1>2, LoopValuesType DEF Looping
<1>4. \A n \in 1..r : Bound(env, t, object, n) \in Env
  <2>1. \A n \in 1..r : n \in Nat \ {0}
        BY <1>3
  <2>   QED  BY <1>1, <2>1, BoundType DEF Looping
<1>5. RoundsOf(t, object, body, env) = [n \in 1..r |-> body[Bound(env, t, object, n)]]
      BY <1>2 DEF RoundsOf
<1>6. RoundsOf(t, object, body, env) \in [1..r -> Texts]
      BY <1>4, <1>5 DEF Meanings
<1>7. RoundsOf(t, object, body, env) \in Seq(Texts) /\ Len(RoundsOf(t, object, body, env)) = r
      BY <1>3, <1>6
<1>   QED  BY <1>2, <1>3, <1>5, <1>7

LEMMA MeaningStepType ==
    ASSUME TemplateTyped, NEW object \in ObjectType, NEW m \in 1..Len(json) + 1,
           NEW f, \A k \in m + 1..Len(json) + 1 : f[k] \in Meanings
    PROVE  MeaningStep(object, f, m) \in Meanings
<1>1. Len(json) \in Nat
      BY TemplateLength
<1>2. {<<>>} \in Texts /\ {} \in Texts
      BY DEF Texts, TemplateText
<1>3. ASSUME NEW env \in Env PROVE MeaningStep(object, f, m)[env] \in Texts
  <2>1. MeaningStep(object, f, m)[env] =
            IF m > Len(json) \/ json[m].kind = "end" THEN {<<>>}
            ELSE IF json[m].kind # "for"
            THEN Then(Spelled(json[m], object, env), f[m + 1][env])
            ELSE IF Len(json[m].vars) # Len(json[m].attrs) \/ Closing[m + 1] > Len(json) THEN {}
            ELSE Then(InTurn(RoundsOf(json[m], object, f[m + 1], env))[1], f[Closing[m + 1] + 1][env])
        BY DEF MeaningStep
  <2>2. CASE m > Len(json) \/ json[m].kind = "end"
        BY <1>2, <2>1, <2>2
  <2>3. CASE m <= Len(json) /\ json[m].kind \notin {"end", "for"}
    <3>1. m + 1 \in m + 1..Len(json) + 1 /\ json[m] \in Token /\ ~(m > Len(json))
          BY <1>1, <2>3, TemplateLength
    <3>2. f[m + 1][env] \in Texts /\ Spelled(json[m], object, env) \in Texts
          BY <3>1, SpelledType DEF Meanings
    <3>   QED  BY <2>1, <2>3, <3>1, <3>2, ThenOfTexts
  <2>4. CASE m <= Len(json) /\ json[m].kind = "for"
    <3>1. CASE Len(json[m].vars) # Len(json[m].attrs) \/ Closing[m + 1] > Len(json)
          BY <1>1, <1>2, <2>1, <2>4, <3>1
    <3>2. CASE Len(json[m].vars) = Len(json[m].attrs) /\ ~(Closing[m + 1] > Len(json))
      <4>1. m + 1 \in m + 1..Len(json) + 1 /\ m + 1 \in 1..Len(json) + 1 /\ Looping(json[m])
            BY <1>1, <2>4, <3>2, TemplateLength DEF Looping
      <4>2. Closing[m + 1] \in m + 1..Len(json) + 1
            BY <4>1, ClosingIs
      <4>3. Closing[m + 1] + 1 \in m + 1..Len(json) + 1
            BY <1>1, <3>2, <4>2
      <4>4. f[m + 1] \in Meanings /\ f[Closing[m + 1] + 1][env] \in Texts
            BY <4>1, <4>3 DEF Meanings
      <4>5. RoundsOf(json[m], object, f[m + 1], env) \in Seq(Texts)
            BY <4>1, <4>4, RoundsOfType
      <4>6. 1 \in 1..Len(RoundsOf(json[m], object, f[m + 1], env)) + 1
            BY <4>5
      <4>7. InTurn(RoundsOf(json[m], object, f[m + 1], env))[1] \in Texts
            BY <4>5, <4>6, InTurnIs
      <4>8. MeaningStep(object, f, m)[env] =
                Then(InTurn(RoundsOf(json[m], object, f[m + 1], env))[1], f[Closing[m + 1] + 1][env])
            BY <1>1, <2>1, <2>4, <3>2
      <4>   QED  BY <4>4, <4>7, <4>8, ThenOfTexts
    <3>   QED  BY <3>1, <3>2
  <2>   QED  BY <1>1, <2>2, <2>3, <2>4
<1>4. MeaningStep(object, f, m) = [env \in Env |-> MeaningStep(object, f, m)[env]]
      BY DEF MeaningStep
<1>   QED  BY <1>3, <1>4 DEF Meanings

LEMMA MeaningStepLater ==
    ASSUME TemplateTyped, NEW object \in ObjectType, NEW m \in 1..Len(json) + 1,
           NEW f, NEW h, \A k \in m + 1..Len(json) + 1 : f[k] = h[k]
    PROVE  MeaningStep(object, f, m) = MeaningStep(object, h, m)
<1>1. Len(json) \in Nat
      BY TemplateLength
<1>2. CASE m > Len(json)
      BY <1>2 DEF MeaningStep
<1>3. CASE m <= Len(json)
  <2>1. m + 1 \in m + 1..Len(json) + 1 /\ m + 1 \in 1..Len(json) + 1
        BY <1>1, <1>3
  <2>2. Closing[m + 1] \in m + 1..Len(json) + 1
        BY <2>1, ClosingIs
  <2>3. ~(Closing[m + 1] > Len(json)) => Closing[m + 1] + 1 \in m + 1..Len(json) + 1
        BY <1>1, <2>2
  <2>4. f[m + 1] = h[m + 1]
        BY <2>1
  <2>5. ~(Closing[m + 1] > Len(json)) => f[Closing[m + 1] + 1] = h[Closing[m + 1] + 1]
        BY <2>3
  <2>6. \A env : RoundsOf(json[m], object, f[m + 1], env) = RoundsOf(json[m], object, h[m + 1], env)
        BY <2>4 DEF RoundsOf
  <2>   QED  BY <2>4, <2>5, <2>6 DEF MeaningStep
<1>   QED  BY <1>1, <1>2, <1>3

LEMMA MeaningsExist ==
    ASSUME TemplateTyped, NEW object \in ObjectType
    PROVE  \E f : f = [m \in 1..Len(json) + 1 |-> MeaningStep(object, f, m)]
<1>   DEFINE n == Len(json) + 1
             G == [m \in 1..n |-> [f \in [1..n -> Meanings] |-> MeaningStep(object, f, m)]]
<1>1. Len(json) \in Nat /\ n \in Nat
      BY TemplateLength
<1>2. Meanings # {}
  <2>1. [env \in Env |-> {}] \in Meanings
        BY DEF Meanings, Texts
  <2>   QED  BY <2>1
<1>3. ASSUME NEW m \in 1..n, NEW f \in [1..n -> Meanings] PROVE MeaningStep(object, f, m) \in Meanings
  <2>1. \A k \in m + 1..n : k \in 1..n
        BY <1>1
  <2>2. \A k \in m + 1..n : f[k] \in Meanings
        BY <2>1
  <2>   QED  BY <2>2, MeaningStepType
<1>4. G \in [1..n -> [[1..n -> Meanings] -> Meanings]]
  <2>   HIDE DEF n
  <2>   QED  BY <1>3
<1>5. ASSUME NEW m \in 1..n, NEW f \in [1..n -> Meanings], NEW h \in [1..n -> Meanings],
             \A k \in m + 1..n : f[k] = h[k]
      PROVE  G[m][f] = G[m][h]
  <2>1. MeaningStep(object, f, m) = MeaningStep(object, h, m)
        BY <1>5, MeaningStepLater
  <2>   HIDE DEF n
  <2>   QED  BY <2>1
<1>6. \A m \in 1..n, f \in [1..n -> Meanings] : G[m][f] = MeaningStep(object, f, m)
      OBVIOUS
<1>   HIDE DEF n, G
<1>7. PICK f : MadeBy(f, n, Meanings, G)
  <2>1. FromLater(n, Meanings, G)
        BY <1>4, <1>5 DEF FromLater
  <2>   QED  BY <1>1, <1>2, <2>1, Backwards
<1>8. f = [m \in 1..n |-> MeaningStep(object, f, m)]
      BY <1>6, <1>7 DEF MadeBy
<1>   QED  BY <1>8 DEF n

LEMMA MeaningStepped ==
    ASSUME TemplateTyped, NEW object \in ObjectType
    PROVE  \A m \in 1..Len(json) + 1 : /\ Meaning(object)[m] = MeaningStep(object, Meaning(object), m)
                                       /\ Meaning(object)[m] \in Meanings
<1>1. PICK f : f = CHOOSE g : g = [k \in 1..Len(json) + 1 |-> MeaningStep(object, g, k)]
      OBVIOUS
<1>2. Meaning(object) = f
      BY <1>1 DEF Meaning, MeaningStep, RoundsOf
<1>3. f = [k \in 1..Len(json) + 1 |-> MeaningStep(object, f, k)]
      BY <1>1, MeaningsExist
<1>4. \A k \in 1..Len(json) + 1 : f[k] = MeaningStep(object, f, k)
      BY <1>3
<1>   DEFINE n == Len(json) + 1
             S == {m \in 1..n : f[m] \in Meanings}
<1>5. \A m \in 1..n : m \in S
  <2>1. ASSUME NEW m \in 1..n, \A x \in m + 1..n : x \in S PROVE m \in S
    <3>1. \A x \in m + 1..n : f[x] \in Meanings
          BY <2>1
    <3>2. MeaningStep(object, f, m) \in Meanings
          BY <3>1, MeaningStepType
    <3>   QED  BY <1>4, <3>2
  <2>2. n \in Nat
        BY TemplateLength
  <2>   HIDE DEF S, n
  <2>   QED  BY <2>1, <2>2, FromTheEnd
<1>   QED  BY <1>2, <1>4, <1>5

LEMMA MeaningIs ==
    ASSUME TemplateTyped, NEW object \in ObjectType, NEW m \in 1..Len(json) + 1, NEW env \in Env
    PROVE  /\ Meaning(object)[m][env] \in Texts
           /\ m > Len(json) => Meaning(object)[m][env] = {<<>>}
           /\ m <= Len(json) =>
                /\ json[m].kind = "end" => Meaning(object)[m][env] = {<<>>}
                /\ json[m].kind \notin {"end", "for"} =>
                      Meaning(object)[m][env] =
                          Then(Spelled(json[m], object, env), Meaning(object)[m + 1][env])
                /\ json[m].kind = "for" =>
                      /\ Len(json[m].vars) # Len(json[m].attrs) \/ Closing[m + 1] > Len(json) =>
                            Meaning(object)[m][env] = {}
                      /\ Len(json[m].vars) = Len(json[m].attrs) /\ Closing[m + 1] <= Len(json) =>
                            Meaning(object)[m][env] =
                                Then(InTurn(RoundsOf(json[m], object, Meaning(object)[m + 1], env))[1],
                                     Meaning(object)[Closing[m + 1] + 1][env])
<1>1. PICK f : f = Meaning(object)
      OBVIOUS
<1>2. f[m] = MeaningStep(object, f, m) /\ f[m] \in Meanings
      BY <1>1, MeaningStepped
<1>3. f[m][env] \in Texts
      BY <1>2 DEF Meanings
<1>4. f[m][env] =
          IF m > Len(json) \/ json[m].kind = "end" THEN {<<>>}
          ELSE IF json[m].kind # "for"
          THEN Then(Spelled(json[m], object, env), f[m + 1][env])
          ELSE IF Len(json[m].vars) # Len(json[m].attrs) \/ Closing[m + 1] > Len(json) THEN {}
          ELSE Then(InTurn(RoundsOf(json[m], object, f[m + 1], env))[1], f[Closing[m + 1] + 1][env])
      BY <1>2 DEF MeaningStep
<1>5. Len(json) \in Nat
      BY TemplateLength
<1>6. m <= Len(json) => Closing[m + 1] \in Nat
  <2>1. m <= Len(json) => m + 1 \in 1..Len(json) + 1
        BY <1>5
  <2>2. m <= Len(json) => Closing[m + 1] \in m + 1..Len(json) + 1
        BY <2>1, ClosingIs
  <2>   QED  BY <1>5, <2>2
<1>   QED  BY <1>1, <1>3, <1>4, <1>5, <1>6

-----------------------------------------------------------------------------
\* How far the interpreter has come: at each level, outermost first, what the
\* iteration variables are, what is still to be written after the place that is
\* reached, and where the loop is closed.

FrameType == [env : Env, rest : Texts, closed : Nat]

LoopValuesSet == UNION {[s -> Seq(TemplateText)] : s \in SUBSET IterName}
IterType == [values : LoopValuesSet, idx : Nat, max : Nat, reset : Nat]

Level(stack, d) == stack[Len(stack) - d + 1]

\* Within a loop, given what is around it.
Frame(template, closing, meaning, object, iter, outer, inner) ==
    /\ iter.reset \in 2..Len(template) + 1
    /\ Looping(template[iter.reset - 1])
    /\ iter.values = LoopValues(template[iter.reset - 1], object)
    /\ iter.max = Rounds(iter.values) /\ iter.idx \in 0..iter.max - 1
    /\ inner.env = Bound(outer.env, template[iter.reset - 1], object, iter.idx + 1)
    /\ inner.closed = closing[iter.reset] /\ closing[iter.reset - 1] = outer.closed
    /\ inner.closed > Len(template) => inner.rest = {}
    /\ inner.closed <= Len(template) =>
          inner.rest = Then(InTurn(RoundsOf(template[iter.reset - 1], object, meaning[iter.reset],
                                            outer.env))[iter.idx + 2],
                            Then(meaning[inner.closed + 1][outer.env], outer.rest))

Whole(template, closing, meaning) ==
    IF closing[1] > Len(template) THEN meaning[1][NoLoop] ELSE {}

Reached(template, closing, meaning, object, frames, stack, output, j) ==
    /\ frames \in [Nat -> FrameType] /\ stack \in Seq(IterType)
    /\ output \in TemplateText /\ j \in 1..Len(template) + 1
    /\ frames[0].env = NoLoop /\ frames[0].closed = closing[1]
    /\ frames[0].rest = IF closing[1] > Len(template) THEN {<<>>} ELSE {}
    /\ \A d \in 1..Len(stack) :
          Frame(template, closing, meaning, object, Level(stack, d), frames[d - 1], frames[d])
    /\ frames[Len(stack)].closed = closing[j]
    /\ Whole(template, closing, meaning) =
          Then({output}, Then(meaning[j][frames[Len(stack)].env], frames[Len(stack)].rest))

Reaches(frames, stack, output, j) ==
    Reached(json, Closing, Meaning(source), source, frames, stack, output, j)

ThePart == Whole(json, Closing, Meaning(source))

LEMMA FramesTyped ==
    ASSUME NEW frames, NEW stack, NEW output, NEW j, Reaches(frames, stack, output, j)
    PROVE  \A d \in Nat : /\ frames[d] \in FrameType /\ frames[d].env \in Env
                          /\ frames[d].rest \in Texts /\ frames[d].closed \in Nat
<1>1. frames \in [Nat -> FrameType]
      BY DEF Reaches, Reached
<1>   QED  BY <1>1 DEF FrameType

LEMMA ReachedTypes ==
    ASSUME TemplateTyped, source \in ObjectType,
           NEW frames, NEW stack, NEW output, NEW j, Reaches(frames, stack, output, j)
    PROVE  /\ Len(stack) \in Nat /\ Len(json) \in Nat
           /\ j \in 1..Len(json) + 1
           /\ output \in TemplateText /\ {output} \in Texts
           /\ frames[Len(stack)].env \in Env /\ frames[Len(stack)].rest \in Texts
           /\ Meaning(source)[j][frames[Len(stack)].env] \in Texts
           /\ Closing[j] \in j..Len(json) + 1
           /\ frames[Len(stack)].closed = Closing[j]
<1>1. /\ frames \in [Nat -> FrameType] /\ stack \in Seq(IterType)
      /\ output \in TemplateText /\ j \in 1..Len(json) + 1
      /\ frames[Len(stack)].closed = Closing[j]
      BY DEF Reaches, Reached
<1>2. Len(stack) \in Nat /\ Len(json) \in Nat
      BY <1>1, TemplateLength
<1>4. frames[Len(stack)].env \in Env /\ frames[Len(stack)].rest \in Texts
      BY <1>2, FramesTyped
<1>5. Meaning(source)[j][frames[Len(stack)].env] \in Texts
      BY <1>1, <1>4, MeaningIs
<1>6. Closing[j] \in j..Len(json) + 1
      BY <1>1, ClosingIs
<1>7. {output} \in Texts
      BY <1>1 DEF Texts
<1>   QED  BY <1>1, <1>2, <1>4, <1>5, <1>6, <1>7

\* At the beginning.
LEMMA ReachedFirst ==
    ASSUME TemplateTyped, source \in ObjectType
    PROVE  \E frames : Reaches(frames, <<>>, <<>>, 1)
<1>1. PICK rest : rest = IF Closing[1] > Len(json) THEN {<<>>} ELSE {}
      OBVIOUS
<1>2. Len(json) \in Nat /\ 1 \in 1..Len(json) + 1
      BY TemplateLength
<1>3. Closing[1] \in Nat
  <2>1. Closing[1] \in 1..Len(json) + 1
        BY <1>2, ClosingIs
  <2>   QED  BY <1>2, <2>1
<1>4. NoLoop \in Env
      BY DEF NoLoop, Env
<1>5. rest \in Texts /\ {<<>>} \in Texts
      BY <1>1 DEF Texts, TemplateText
<1>6. PICK frames : frames = [d \in Nat |-> [env |-> NoLoop, rest |-> rest, closed |-> Closing[1]]]
      OBVIOUS
<1>7. frames \in [Nat -> FrameType]
      BY <1>3, <1>4, <1>5, <1>6 DEF FrameType
<1>8. frames[0] = [env |-> NoLoop, rest |-> rest, closed |-> Closing[1]]
      BY <1>6
<1>9. PICK m : m = Meaning(source)[1][NoLoop]
      OBVIOUS
<1>10. m \in Texts
      BY <1>2, <1>4, <1>9, MeaningIs
<1>11. Then({<<>>}, Then(m, rest)) = IF Closing[1] > Len(json) THEN m ELSE {}
  <2>1. Then(m, rest) \in Texts
        BY <1>5, <1>10, ThenOfTexts
  <2>2. Then({<<>>}, Then(m, rest)) = Then(m, rest)
        BY <2>1, ThenNothing
  <2>   QED  BY <1>1, <1>10, <2>2, ThenNothing
<1>12. Len(<<>>) = 0 /\ <<>> \in Seq(IterType) /\ <<>> \in TemplateText
      BY DEF TemplateText
<1>13. \A d \in 1..0 : FALSE
      OBVIOUS
<1>14. /\ frames[0].env = NoLoop /\ frames[0].closed = Closing[1] /\ frames[0].rest = rest
      BY <1>8
<1>15. Whole(json, Closing, Meaning(source)) = Then({<<>>}, Then(m, rest))
      BY <1>9, <1>11 DEF Whole
<1>16. Reached(json, Closing, Meaning(source), source, frames, <<>>, <<>>, 1)
  <2>1. \A d \in 1..Len(<<>>) :
            Frame(json, Closing, Meaning(source), source, Level(<<>>, d), frames[d - 1], frames[d])
        BY <1>12, <1>13
  <2>2. /\ frames[Len(<<>>)].closed = Closing[1]
        /\ Whole(json, Closing, Meaning(source)) =
              Then({<<>>}, Then(Meaning(source)[1][frames[Len(<<>>)].env], frames[Len(<<>>)].rest))
        BY <1>9, <1>12, <1>14, <1>15
  <2>   QED  BY <1>1, <1>2, <1>7, <1>12, <1>14, <2>1, <2>2 DEF Reached
<1>   QED  BY <1>16 DEF Reaches

\* What is around the place that is reached.
Around(frames, stack, output, j, env, rest) ==
    /\ env = frames[Len(stack)].env /\ rest = frames[Len(stack)].rest
    /\ env \in Env /\ rest \in Texts
    /\ Meaning(source)[j][env] \in Texts /\ {output} \in Texts
    /\ ThePart = Then({output}, Then(Meaning(source)[j][env], rest))

LEMMA ReachedWhere ==
    ASSUME TemplateTyped, source \in ObjectType,
           NEW frames, NEW stack, NEW output, NEW j, Reaches(frames, stack, output, j)
    PROVE  \E env, rest : Around(frames, stack, output, j, env, rest)
<1>1. /\ frames[Len(stack)].env \in Env /\ frames[Len(stack)].rest \in Texts
      /\ Meaning(source)[j][frames[Len(stack)].env] \in Texts /\ {output} \in Texts
      BY ReachedTypes
<1>2. ThePart = Then({output}, Then(Meaning(source)[j][frames[Len(stack)].env],
                                    frames[Len(stack)].rest))
      BY DEF Reaches, Reached, ThePart
<1>3. Around(frames, stack, output, j, frames[Len(stack)].env, frames[Len(stack)].rest)
      BY <1>1, <1>2 DEF Around
<1>   QED  BY <1>3

\* A text, a variable or a switch.
LEMMA ReachedWritten ==
    ASSUME TemplateTyped, source \in ObjectType,
           NEW frames, NEW stack, NEW output, NEW j, Reaches(frames, stack, output, j),
           j <= Len(json), json[j].kind \notin {"for", "end"}
    PROVE  /\ Spelled(json[j], source, frames[Len(stack)].env) = {} => ThePart = {}
           /\ \A v : Spelled(json[j], source, frames[Len(stack)].env) = {v} =>
                        Reaches(frames, stack, output \o v, j + 1)
<1>0. PICK env, rest : Around(frames, stack, output, j, env, rest)
      BY ReachedWhere
<1>1. /\ env = frames[Len(stack)].env /\ rest = frames[Len(stack)].rest
      /\ env \in Env /\ rest \in Texts /\ {output} \in Texts
      /\ ThePart = Then({output}, Then(Meaning(source)[j][env], rest))
      BY <1>0 DEF Around
<1>2. Len(json) \in Nat /\ j \in 1..Len(json) + 1 /\ output \in TemplateText
      BY ReachedTypes
<1>3. /\ env \in Env /\ rest \in Texts /\ Len(json) \in Nat /\ j \in 1..Len(json) + 1
      /\ output \in TemplateText /\ {output} \in Texts
      /\ ThePart = Then({output}, Then(Meaning(source)[j][env], rest))
      BY <1>1, <1>2
<1>4. j + 1 \in 1..Len(json) + 1 /\ json[j] \in Token
      BY <1>3, TemplateLength
<1>5. PICK m : m = Meaning(source)[j + 1][env]
      OBVIOUS
<1>6. m \in Texts
      BY <1>3, <1>4, <1>5, MeaningIs
<1>7. Meaning(source)[j][env] = Then(Spelled(json[j], source, env), m)
      BY <1>3, <1>5, MeaningIs
<1>8. Spelled(json[j], source, env) \in Texts
      BY <1>3, <1>4, SpelledType
<1>9. ASSUME Spelled(json[j], source, env) = {} PROVE ThePart = {}
  <2>1. Then(Spelled(json[j], source, env), m) = {}
        BY <1>6, <1>9, ThenNothing
  <2>2. Then({}, rest) = {} /\ Then({output}, {}) = {}
        BY <1>3, ThenNothing
  <2>   QED  BY <1>3, <1>7, <2>1, <2>2
<1>10. ASSUME NEW v, Spelled(json[j], source, env) = {v}
      PROVE  Reaches(frames, stack, output \o v, j + 1)
  <2>1. v \in TemplateText /\ {v} \in Texts
        BY <1>8, <1>10 DEF Texts
  <2>2. output \o v \in TemplateText
        BY <1>3, <2>1 DEF TemplateText
  <2>3. ThePart = Then({output \o v}, Then(m, rest))
    <3>1. Then(m, rest) \in Texts
          BY <1>3, <1>6, ThenOfTexts
    <3>2. Then(Then({v}, m), rest) = Then({v}, Then(m, rest))
          BY <1>3, <1>6, <2>1, ThenThen
    <3>3. Then({output}, Then({v}, Then(m, rest))) = Then(Then({output}, {v}), Then(m, rest))
          BY <1>3, <2>1, <3>1, ThenThen
    <3>4. Then({output}, {v}) = {output \o v}
          BY <1>3, <2>1, ThenOne
    <3>   QED  BY <1>3, <1>7, <1>10, <3>2, <3>3, <3>4
  <2>4. Closing[j + 1] = Closing[j]
        BY <1>3, ClosingIs
  <2>   QED  BY <1>1, <1>2, <1>4, <1>5, <2>2, <2>3, <2>4 DEF Reaches, Reached, ThePart
<1>   QED  BY <1>1, <1>9, <1>10

LEMMA LevelsPushed ==
    ASSUME NEW S, NEW stack \in Seq(S), NEW x \in S
    PROVE  /\ <<x>> \o stack \in Seq(S) /\ Len(<<x>> \o stack) = Len(stack) + 1
           /\ Level(<<x>> \o stack, Len(stack) + 1) = x
           /\ \A d \in 1..Len(stack) : Level(<<x>> \o stack, d) = Level(stack, d)
<1>1. PICK more : more = <<x>> \o stack
      OBVIOUS
<1>2. /\ more \in Seq(S) /\ Len(more) = Len(stack) + 1 /\ more[1] = x /\ Len(stack) \in Nat
      /\ \A n \in 1..Len(stack) : more[n + 1] = stack[n]
      BY <1>1
<1>3. Level(more, Len(stack) + 1) = x
      BY <1>2 DEF Level
<1>4. ASSUME NEW d \in 1..Len(stack) PROVE Level(more, d) = Level(stack, d)
  <2>1. PICK n : n = Len(stack) - d + 1
        OBVIOUS
  <2>2. n \in 1..Len(stack) /\ (Len(stack) + 1) - d + 1 = n + 1
        BY <1>2, <2>1
  <2>3. more[n + 1] = stack[n]
        BY <1>2, <2>2
  <2>   QED  BY <1>2, <2>1, <2>2, <2>3 DEF Level
<1>   QED  BY <1>1, <1>2, <1>3, <1>4

LEMMA LevelsPopped ==
    ASSUME NEW S, NEW stack \in Seq(S), stack # <<>>
    PROVE  /\ Tail(stack) \in Seq(S) /\ Len(Tail(stack)) = Len(stack) - 1 /\ Len(stack) \in Nat \ {0}
           /\ Level(stack, Len(stack)) = Head(stack) /\ Head(stack) = stack[1] /\ Head(stack) \in S
           /\ \A d \in 1..Len(stack) - 1 : Level(Tail(stack), d) = Level(stack, d)
<1>1. PICK less : less = Tail(stack)
      OBVIOUS
<1>2. /\ less \in Seq(S) /\ Len(less) = Len(stack) - 1 /\ Len(stack) \in Nat \ {0}
      /\ Head(stack) = stack[1]
      /\ \A n \in 1..Len(stack) - 1 : less[n] = stack[n + 1]
      BY <1>1
<1>3. Len(stack) - Len(stack) + 1 = 1 /\ stack[1] \in S
  <2>1. 1 \in 1..Len(stack)
        BY <1>2
  <2>   QED  BY <1>2, <2>1
<1>4. ASSUME NEW d \in 1..Len(stack) - 1 PROVE Level(less, d) = Level(stack, d)
  <2>1. PICK n : n = (Len(stack) - 1) - d + 1
        OBVIOUS
  <2>2. n \in 1..Len(stack) - 1 /\ Len(stack) - d + 1 = n + 1
        BY <1>2, <2>1
  <2>3. less[n] = stack[n + 1]
        BY <1>2, <2>2
  <2>   QED  BY <1>2, <2>1, <2>2, <2>3 DEF Level
<1>   QED  BY <1>1, <1>2, <1>3, <1>4 DEF Level

LEMMA LevelsAgain ==
    ASSUME NEW stack \in Seq(IterType), stack # <<>>
    PROVE  \E x \in IterType :
              /\ x.values = Head(stack).values /\ x.max = Head(stack).max
              /\ x.reset = Head(stack).reset /\ x.idx = Head(stack).idx + 1
              /\ [stack EXCEPT ![1].idx = @ + 1] \in Seq(IterType)
              /\ Len([stack EXCEPT ![1].idx = @ + 1]) = Len(stack)
              /\ Level([stack EXCEPT ![1].idx = @ + 1], Len(stack)) = x
              /\ \A d \in 1..Len(stack) - 1 :
                    Level([stack EXCEPT ![1].idx = @ + 1], d) = Level(stack, d)
<1>1. PICK same : same = [stack EXCEPT ![1].idx = @ + 1]
      OBVIOUS
<1>2. PICK x : x = [stack[1] EXCEPT !.idx = @ + 1]
      OBVIOUS
<1>3. Len(stack) \in Nat \ {0} /\ 1 \in 1..Len(stack) /\ DOMAIN stack = 1..Len(stack)
  <2>1. Len(stack) \in Nat \ {0}
        BY LevelsPopped
  <2>   QED  BY <2>1
<1>4. stack[1] \in IterType /\ Head(stack) = stack[1]
      BY <1>3
<1>5. /\ x \in IterType /\ x.idx = stack[1].idx + 1
      /\ x.values = stack[1].values /\ x.max = stack[1].max /\ x.reset = stack[1].reset
      BY <1>2, <1>4 DEF IterType
<1>6. same = [n \in 1..Len(stack) |-> IF n = 1 THEN x ELSE stack[n]]
      BY <1>1, <1>2, <1>3
<1>7. same \in Seq(IterType) /\ Len(same) = Len(stack)
  <2>1. \A n \in 1..Len(stack) : stack[n] \in IterType
        OBVIOUS
  <2>2. same \in [1..Len(stack) -> IterType]
        BY <1>5, <1>6, <2>1
  <2>   QED  BY <1>3, <2>2
<1>8. Level(same, Len(stack)) = x
  <2>1. Len(stack) - Len(stack) + 1 = 1
        BY <1>3
  <2>2. same[1] = x
        BY <1>3, <1>6
  <2>   QED  BY <1>7, <2>1, <2>2 DEF Level
<1>9. ASSUME NEW d \in 1..Len(stack) - 1 PROVE Level(same, d) = Level(stack, d)
  <2>1. PICK n : n = Len(stack) - d + 1
        OBVIOUS
  <2>2. n \in 1..Len(stack) /\ n # 1
        BY <1>3, <2>1
  <2>3. same[n] = stack[n]
        BY <1>6, <2>2
  <2>   QED  BY <1>7, <2>1, <2>3 DEF Level
<1>   QED  BY <1>1, <1>4, <1>5, <1>7, <1>8, <1>9

\* A loop that means nothing.
LEMMA ReachedNothing ==
    ASSUME TemplateTyped, source \in ObjectType,
           NEW frames, NEW stack, NEW output, NEW j, Reaches(frames, stack, output, j),
           j <= Len(json), json[j].kind = "for",
           Len(json[j].vars) # Len(json[j].attrs) \/ Closing[j + 1] > Len(json)
    PROVE  ThePart = {}
<1>0. PICK env, rest : Around(frames, stack, output, j, env, rest)
      BY ReachedWhere
<1>1. env \in Env /\ rest \in Texts /\ ThePart = Then({output}, Then(Meaning(source)[j][env], rest))
      BY <1>0 DEF Around
<1>2. {output} \in Texts /\ j \in 1..Len(json) + 1
      BY ReachedTypes
<1>3. Meaning(source)[j][env] = {}
      BY <1>1, <1>2, MeaningIs
<1>4. Then({}, rest) = {} /\ Then({output}, {}) = {}
      BY <1>1, <1>2, ThenNothing
<1>   QED  BY <1>1, <1>3, <1>4

\* A loop without rounds.
LEMMA ReachedSkipped ==
    ASSUME TemplateTyped, source \in ObjectType,
           NEW frames, NEW stack, NEW output, NEW j, Reaches(frames, stack, output, j),
           j <= Len(json), Looping(json[j]), Closing[j + 1] <= Len(json),
           Rounds(LoopValues(json[j], source)) = 0
    PROVE  Reaches(frames, stack, output, Closing[j + 1] + 1)
<1>0. PICK env, rest : Around(frames, stack, output, j, env, rest)
      BY ReachedWhere
<1>1. /\ env = frames[Len(stack)].env /\ rest = frames[Len(stack)].rest
      /\ env \in Env /\ rest \in Texts
      /\ ThePart = Then({output}, Then(Meaning(source)[j][env], rest))
      BY <1>0 DEF Around
<1>2. /\ Len(json) \in Nat /\ j \in 1..Len(json) + 1
      BY ReachedTypes
<1>3. PICK c : c = Closing[j + 1]
      OBVIOUS
<1>4. j + 1 \in 1..Len(json) + 1 /\ c \in j + 1..Len(json)
  <2>1. j + 1 \in 1..Len(json) + 1
        BY <1>2
  <2>   QED  BY <1>2, <1>3, <2>1, ClosingIs
<1>5. c + 1 \in 1..Len(json) + 1
      BY <1>2, <1>4
<1>6. PICK body : body = Meaning(source)[j + 1]
      OBVIOUS
<1>7. body \in Meanings
      BY <1>4, <1>6, MeaningStepped
<1>8. PICK rounds : rounds = RoundsOf(json[j], source, body, env)
      OBVIOUS
<1>9. rounds \in Seq(Texts) /\ Len(rounds) = 0
      BY <1>1, <1>7, <1>8, RoundsOfType
<1>10. InTurn(rounds)[1] = {<<>>}
  <2>1. 1 \in 1..Len(rounds) + 1 /\ 1 > Len(rounds)
        BY <1>9
  <2>   QED  BY <1>9, <2>1, InTurnIs
<1>11. Meaning(source)[j][env] = Then(InTurn(rounds)[1], Meaning(source)[c + 1][env])
      BY <1>1, <1>2, <1>3, <1>6, <1>8, MeaningIs DEF Looping
<1>12. Meaning(source)[c + 1][env] \in Texts
      BY <1>1, <1>5, MeaningIs
<1>13. Meaning(source)[j][env] = Meaning(source)[c + 1][env]
      BY <1>10, <1>11, <1>12, ThenNothing
<1>14. Closing[j] = Closing[c + 1]
      BY <1>2, <1>3, ClosingIs DEF Looping
<1>15. ThePart = Then({output}, Then(Meaning(source)[c + 1][env], rest))
      BY <1>1, <1>13
<1>   QED  BY <1>1, <1>3, <1>5, <1>14, <1>15 DEF Reaches, Reached, ThePart

LEMMA ThenFour ==
    ASSUME NEW A \in Texts, NEW B \in Texts, NEW X \in Texts, NEW Y \in Texts
    PROVE  Then(Then(Then(A, B), X), Y) = Then(A, Then(B, Then(X, Y)))
<1>1. Then(A, B) \in Texts /\ Then(X, Y) \in Texts
      BY ThenOfTexts
<1>2. Then(Then(Then(A, B), X), Y) = Then(Then(A, B), Then(X, Y))
      BY <1>1, ThenThen
<1>3. Then(Then(A, B), Then(X, Y)) = Then(A, Then(B, Then(X, Y)))
      BY <1>1, ThenThen
<1>   QED  BY <1>2, <1>3

\* A loop that has rounds.
LEMMA ReachedInto ==
    ASSUME TemplateTyped, source \in ObjectType,
           NEW frames, NEW stack, NEW output, NEW j, Reaches(frames, stack, output, j),
           j <= Len(json), Looping(json[j]), Rounds(LoopValues(json[j], source)) # 0,
           NEW iter,
           iter = [values |-> LoopValues(json[j], source), idx |-> 0,
                   max |-> Rounds(LoopValues(json[j], source)), reset |-> j + 1]
    PROVE  \E more : Reaches(more, <<iter>> \o stack, output, j + 1)
<1>0. PICK env, rest : Around(frames, stack, output, j, env, rest)
      BY ReachedWhere
<1>1. /\ env = frames[Len(stack)].env /\ rest = frames[Len(stack)].rest
      /\ env \in Env /\ rest \in Texts /\ {output} \in Texts
      /\ ThePart = Then({output}, Then(Meaning(source)[j][env], rest))
      BY <1>0 DEF Around
<1>2. /\ Len(json) \in Nat /\ j \in 1..Len(json) + 1 /\ output \in TemplateText
      /\ frames[Len(stack)].closed = Closing[j]
      BY ReachedTypes
<1>3. PICK c : c = Closing[j + 1]
      OBVIOUS
<1>4. j + 1 \in 1..Len(json) + 1 /\ j + 1 \in 2..Len(json) + 1 /\ c \in j + 1..Len(json) + 1 /\ c \in Nat
  <2>1. j + 1 \in 1..Len(json) + 1 /\ j + 1 \in 2..Len(json) + 1
        BY <1>2
  <2>2. c \in j + 1..Len(json) + 1
        BY <1>3, <2>1, ClosingIs
  <2>   QED  BY <1>2, <2>1, <2>2
<1>5. PICK body : body = Meaning(source)[j + 1]
      OBVIOUS
<1>6. body \in Meanings
      BY <1>4, <1>5, MeaningStepped
<1>7. PICK rounds : rounds = RoundsOf(json[j], source, body, env)
      OBVIOUS
<1>8. /\ rounds \in Seq(Texts) /\ Len(rounds) = Rounds(LoopValues(json[j], source))
      /\ Rounds(LoopValues(json[j], source)) \in Nat
      /\ \A n \in 1..Len(rounds) : rounds[n] = body[Bound(env, json[j], source, n)]
      BY <1>1, <1>6, <1>7, RoundsOfType
<1>9. PICK inside : inside = Bound(env, json[j], source, 1)
      OBVIOUS
<1>10. json[j] \in Token /\ json[j].kind = "for" /\ inside \in Env
      BY <1>1, <1>9, BoundType DEF Looping
<1>11. 1 \in 1..Len(rounds) /\ 1 \in 1..Len(rounds) + 1 /\ 2 \in 1..Len(rounds) + 1
      BY <1>8
<1>12. PICK turn : turn = InTurn(rounds)[2]
      OBVIOUS
<1>13. turn \in Texts /\ InTurn(rounds)[1] = Then(body[inside], turn) /\ body[inside] \in Texts
  <2>1. turn \in Texts
        BY <1>8, <1>11, <1>12, InTurnIs
  <2>2. InTurn(rounds)[1] = Then(rounds[1], InTurn(rounds)[1 + 1])
        BY <1>8, <1>11, InTurnIs
  <2>3. rounds[1] = body[inside]
        BY <1>8, <1>9, <1>11
  <2>   QED  BY <1>6, <1>10, <1>12, <2>1, <2>2, <2>3 DEF Meanings
<1>14. PICK after : after = IF c > Len(json) THEN {} ELSE Meaning(source)[c + 1][env]
      OBVIOUS
<1>15. after \in Texts
  <2>1. ~(c > Len(json)) => c + 1 \in 1..Len(json) + 1
        BY <1>2, <1>4
  <2>2. {} \in Texts
        BY DEF Texts
  <2>   QED  BY <1>1, <1>14, <2>1, <2>2, MeaningIs
<1>16. PICK remains : remains = Then(turn, Then(after, rest))
      OBVIOUS
<1>17. remains \in Texts /\ (c > Len(json) => remains = {})
  <2>1. Then(after, rest) \in Texts
        BY <1>1, <1>15, ThenOfTexts
  <2>2. remains \in Texts
        BY <1>13, <1>16, <2>1, ThenOfTexts
  <2>3. c > Len(json) => Then(after, rest) = {}
        BY <1>1, <1>14, ThenNothing
  <2>   QED  BY <1>13, <1>16, <2>2, <2>3, ThenNothing
<1>18. ThePart = Then({output}, Then(body[inside], remains))
  <2>1. CASE c > Len(json)
    <3>1. ThePart = {}
          BY <1>3, <1>10, <2>1, ReachedNothing
    <3>2. Then(body[inside], remains) = {} /\ Then({output}, {}) = {}
          BY <1>1, <1>13, <1>17, <2>1, ThenNothing
    <3>   QED  BY <3>1, <3>2
  <2>2. CASE c <= Len(json)
    <3>1. Meaning(source)[j][env] = Then(InTurn(rounds)[1], Meaning(source)[c + 1][env])
          BY <1>1, <1>2, <1>3, <1>5, <1>7, <2>2, MeaningIs DEF Looping
    <3>2. after = Meaning(source)[c + 1][env]
          BY <1>2, <1>4, <1>14, <2>2
    <3>3. Then(Meaning(source)[j][env], rest) = Then(Then(Then(body[inside], turn), after), rest)
          BY <1>13, <3>1, <3>2
    <3>4. Then(Meaning(source)[j][env], rest) = Then(body[inside], remains)
          BY <1>1, <1>13, <1>15, <1>16, <3>3, ThenFour
    <3>   QED  BY <1>1, <3>4
  <2>   QED  BY <1>2, <1>4, <2>1, <2>2
<1>   DEFINE D == Len(stack)
<1>19. PICK top : top = [env |-> inside, rest |-> remains, closed |-> c]
      OBVIOUS
<1>20. PICK more : more = [frames EXCEPT ![D + 1] = top]
      OBVIOUS
<1>21. /\ frames \in [Nat -> FrameType] /\ stack \in Seq(IterType)
       /\ frames[0].env = NoLoop /\ frames[0].closed = Closing[1]
       /\ frames[0].rest = IF Closing[1] > Len(json) THEN {<<>>} ELSE {}
       /\ \A d \in 1..D : Frame(json, Closing, Meaning(source), source, Level(stack, d),
                                frames[d - 1], frames[d])
      BY DEF Reaches, Reached
<1>22. D \in Nat
      BY <1>21
<1>23. top \in FrameType /\ top.env = inside /\ top.rest = remains /\ top.closed = c
      BY <1>4, <1>10, <1>17, <1>19 DEF FrameType
<1>24. more \in [Nat -> FrameType] /\ more[D + 1] = top /\ \A d \in 0..D : more[d] = frames[d]
      BY <1>20, <1>21, <1>22, <1>23
<1>25. iter \in IterType
  <2>1. LoopValues(json[j], source) \in LoopValuesSet
    <3>1. LoopValues(json[j], source) \in [Range(json[j].vars) -> Seq(TemplateText)]
          BY <1>10, LoopValuesType DEF Looping
    <3>2. Range(json[j].vars) \in SUBSET IterName
          BY <1>10, LoopValuesType DEF Looping
    <3>   QED  BY <3>1, <3>2 DEF LoopValuesSet
  <2>   QED  BY <1>2, <1>8, <2>1 DEF IterType
<1>26. PICK longer : longer = <<iter>> \o stack
      OBVIOUS
<1>27. /\ longer \in Seq(IterType) /\ Len(longer) = D + 1 /\ Level(longer, D + 1) = iter
       /\ \A d \in 1..D : Level(longer, d) = Level(stack, d)
      BY <1>21, <1>25, <1>26, LevelsPushed
<1>28. Frame(json, Closing, Meaning(source), source, iter, frames[D], top)
  <2>1. iter.reset = j + 1 /\ (j + 1) - 1 = j
        BY <1>2
  <2>2. iter.idx = 0 /\ iter.idx + 1 = 1 /\ iter.idx + 2 = 2
        OBVIOUS
  <2>3. iter.values = LoopValues(json[j], source) /\ iter.max = Rounds(iter.values)
        OBVIOUS
  <2>4. iter.idx \in 0..iter.max - 1
        BY <1>8, <2>2, <2>3
  <2>5. top.env = Bound(frames[D].env, json[j], source, iter.idx + 1)
        BY <1>1, <1>9, <1>23, <2>2
  <2>6. frames[D].closed = Closing[j] /\ top.closed = Closing[j + 1]
        BY <1>2, <1>3, <1>23
  <2>7. top.closed <= Len(json) =>
            top.rest = Then(InTurn(RoundsOf(json[j], source, Meaning(source)[iter.reset],
                                            frames[D].env))[iter.idx + 2],
                            Then(Meaning(source)[top.closed + 1][frames[D].env], frames[D].rest))
    <3>1. c <= Len(json) => after = Meaning(source)[c + 1][env]
          BY <1>2, <1>4, <1>14
    <3>2. turn = InTurn(RoundsOf(json[j], source, Meaning(source)[iter.reset],
                                 frames[D].env))[iter.idx + 2]
          BY <1>1, <1>5, <1>7, <1>12, <2>1, <2>2
    <3>   QED  BY <1>1, <1>16, <1>23, <3>1, <3>2
  <2>   QED  BY <1>4, <1>17, <1>23, <2>1, <2>3, <2>4, <2>5, <2>6, <2>7 DEF Frame
<1>29. ASSUME NEW d \in 1..D + 1
      PROVE  Frame(json, Closing, Meaning(source), source, Level(longer, d), more[d - 1], more[d])
  <2>1. CASE d = D + 1
    <3>1. d - 1 = D /\ D \in 0..D
          BY <1>22, <2>1
    <3>   QED  BY <1>24, <1>27, <1>28, <2>1, <3>1
  <2>2. CASE d # D + 1
    <3>1. d \in 1..D /\ d \in 0..D /\ d - 1 \in 0..D
          BY <1>22, <2>2
    <3>   QED  BY <1>21, <1>24, <1>27, <3>1
  <2>   QED  BY <2>1, <2>2
<1>30. Reached(json, Closing, Meaning(source), source, more, longer, output, j + 1)
  <2>1. 0 \in 0..D
        BY <1>22
  <2>2. more[0] = frames[0]
        BY <1>24, <2>1
  <2>3. Whole(json, Closing, Meaning(source)) =
            Then({output}, Then(Meaning(source)[j + 1][more[Len(longer)].env], more[Len(longer)].rest))
        BY <1>5, <1>18, <1>23, <1>24, <1>27 DEF ThePart
  <2>4. more[Len(longer)].closed = Closing[j + 1]
        BY <1>3, <1>23, <1>24, <1>27
  <2>   HIDE DEF D
  <2>   QED  BY <1>2, <1>4, <1>21, <1>24, <1>27, <1>29, <2>2, <2>3, <2>4 DEF Reached
<1>   QED  BY <1>26, <1>30 DEF Reaches

\* An end, or the end of the template, outside of the loops.
LEMMA ReachedOutside ==
    ASSUME TemplateTyped, source \in ObjectType,
           NEW frames, NEW output, NEW j, Reaches(frames, <<>>, output, j)
    PROVE  /\ j <= Len(json) /\ json[j].kind = "end" => ThePart = {}
           /\ j > Len(json) => ThePart = {output}
<1>0. PICK env, rest : Around(frames, <<>>, output, j, env, rest)
      BY ReachedWhere
<1>1. /\ env = frames[Len(<<>>)].env /\ rest = frames[Len(<<>>)].rest
      /\ env \in Env /\ rest \in Texts /\ {output} \in Texts
      /\ ThePart = Then({output}, Then(Meaning(source)[j][env], rest))
      BY <1>0 DEF Around
<1>2. /\ Len(json) \in Nat /\ j \in 1..Len(json) + 1
      /\ frames[Len(<<>>)].closed = Closing[j]
      BY ReachedTypes
<1>3. /\ frames[0].closed = Closing[1]
      /\ frames[0].rest = IF Closing[1] > Len(json) THEN {<<>>} ELSE {}
      BY DEF Reaches, Reached
<1>4. rest = IF Closing[j] > Len(json) THEN {<<>>} ELSE {}
      BY <1>1, <1>2, <1>3
<1>5. ASSUME j <= Len(json), json[j].kind = "end" PROVE ThePart = {}
  <2>1. Closing[j] = j /\ Meaning(source)[j][env] = {<<>>}
        BY <1>1, <1>2, <1>5, ClosingIs, MeaningIs
  <2>2. rest = {}
        BY <1>2, <1>4, <1>5, <2>1
  <2>3. Then({<<>>}, {}) = {} /\ Then({output}, {}) = {}
        BY <1>1, <2>2, ThenNothing
  <2>   QED  BY <1>1, <2>1, <2>2, <2>3
<1>6. ASSUME j > Len(json) PROVE ThePart = {output}
  <2>1. Closing[j] = j /\ Meaning(source)[j][env] = {<<>>}
        BY <1>1, <1>2, <1>6, ClosingIs, MeaningIs
  <2>2. rest = {<<>>}
        BY <1>4, <1>6, <2>1
  <2>3. Then({<<>>}, rest) = rest /\ Then({output}, {<<>>}) = {output}
        BY <1>1, ThenNothing
  <2>   QED  BY <1>1, <2>1, <2>2, <2>3
<1>   QED  BY <1>5, <1>6

\* The round that is written, and the loop that it is in.
LEMMA ReachedInLoop ==
    ASSUME TemplateTyped, source \in ObjectType,
           NEW frames, NEW stack, NEW output, NEW j, Reaches(frames, stack, output, j), stack # <<>>
    PROVE  /\ Len(stack) \in Nat \ {0} /\ Len(stack) - 1 \in Nat /\ Len(stack) \in 1..Len(stack)
           /\ Frame(json, Closing, Meaning(source), source, Head(stack),
                    frames[Len(stack) - 1], frames[Len(stack)])
<1>1. /\ stack \in Seq(IterType)
      /\ \A d \in 1..Len(stack) : Frame(json, Closing, Meaning(source), source, Level(stack, d),
                                        frames[d - 1], frames[d])
      BY DEF Reaches, Reached
<1>2. Len(stack) \in Nat \ {0} /\ Level(stack, Len(stack)) = Head(stack)
      BY <1>1, LevelsPopped
<1>3. Len(stack) \in 1..Len(stack) /\ Len(stack) - 1 \in Nat
      BY <1>2
<1>4. Frame(json, Closing, Meaning(source), source, Level(stack, Len(stack)),
            frames[Len(stack) - 1], frames[Len(stack)])
      BY <1>1, <1>3
<1>   QED  BY <1>2, <1>3, <1>4

\* The end of the template, within a loop.
LEMMA ReachedUnclosed ==
    ASSUME TemplateTyped, source \in ObjectType,
           NEW frames, NEW stack, NEW output, NEW j, Reaches(frames, stack, output, j), stack # <<>>,
           j > Len(json)
    PROVE  ThePart = {}
<1>0. PICK env, rest : Around(frames, stack, output, j, env, rest)
      BY ReachedWhere
<1>1. /\ env = frames[Len(stack)].env /\ rest = frames[Len(stack)].rest
      /\ env \in Env /\ rest \in Texts /\ {output} \in Texts
      /\ Meaning(source)[j][env] \in Texts
      /\ ThePart = Then({output}, Then(Meaning(source)[j][env], rest))
      BY <1>0 DEF Around
<1>2. /\ Len(json) \in Nat /\ j \in 1..Len(json) + 1
      /\ frames[Len(stack)].closed = Closing[j]
      BY ReachedTypes
<1>3. Closing[j] = j
      BY <1>2, ClosingIs
<1>4. Frame(json, Closing, Meaning(source), source, Head(stack),
            frames[Len(stack) - 1], frames[Len(stack)])
      BY ReachedInLoop
<1>5. rest = {}
      BY <1>1, <1>2, <1>3, <1>4 DEF Frame
<1>6. Then(Meaning(source)[j][env], {}) = {} /\ Then({output}, {}) = {}
      BY <1>1, ThenNothing
<1>   QED  BY <1>1, <1>5, <1>6

\* What is still to be written at the end of a round.
RoundEnd(frames, stack, output, j, outer, iter, t, rounds) ==
    /\ outer = frames[Len(stack) - 1] /\ iter = Head(stack) /\ t = json[iter.reset - 1]
    /\ rounds = RoundsOf(t, source, Meaning(source)[iter.reset], outer.env)
    /\ Frame(json, Closing, Meaning(source), source, iter, outer, frames[Len(stack)])
    /\ iter.reset \in 2..Len(json) + 1 /\ Looping(t) /\ Closing[iter.reset] = j
    /\ Closing[j + 1] = outer.closed /\ j + 1 \in 1..Len(json) + 1
    /\ outer.env \in Env /\ outer.rest \in Texts /\ outer.closed \in Nat
    /\ rounds \in Seq(Texts) /\ Len(rounds) = iter.max /\ iter.max \in Nat
    /\ \A n \in 1..Len(rounds) :
          rounds[n] = Meaning(source)[iter.reset][Bound(outer.env, t, source, n)]
    /\ Meaning(source)[j + 1][outer.env] \in Texts
    /\ ThePart = Then({output}, Then(InTurn(rounds)[iter.idx + 2],
                                     Then(Meaning(source)[j + 1][outer.env], outer.rest)))

LEMMA ReachedRoundEnd ==
    ASSUME TemplateTyped, source \in ObjectType,
           NEW frames, NEW stack, NEW output, NEW j, Reaches(frames, stack, output, j), stack # <<>>,
           j <= Len(json), json[j].kind = "end"
    PROVE  \E outer, iter, t, rounds : RoundEnd(frames, stack, output, j, outer, iter, t, rounds)
<1>   DEFINE outer == frames[Len(stack) - 1]
             iter == Head(stack)
             t == json[iter.reset - 1]
             rounds == RoundsOf(t, source, Meaning(source)[iter.reset], outer.env)
<1>0. PICK env, rest : Around(frames, stack, output, j, env, rest)
      BY ReachedWhere
<1>1. /\ env = frames[Len(stack)].env /\ rest = frames[Len(stack)].rest
      /\ env \in Env /\ rest \in Texts /\ {output} \in Texts
      /\ ThePart = Then({output}, Then(Meaning(source)[j][env], rest))
      BY <1>0 DEF Around
<1>2. /\ Len(json) \in Nat /\ j \in 1..Len(json) + 1
      /\ frames[Len(stack)].closed = Closing[j]
      BY ReachedTypes
<1>3. /\ Len(stack) - 1 \in Nat
      /\ Frame(json, Closing, Meaning(source), source, iter, outer, frames[Len(stack)])
      BY ReachedInLoop
<1>4. Closing[j] = j /\ Meaning(source)[j][env] = {<<>>}
      BY <1>1, <1>2, ClosingIs, MeaningIs
<1>5. /\ iter.reset \in 2..Len(json) + 1 /\ Looping(t)
      /\ iter.values = LoopValues(t, source) /\ iter.max = Rounds(iter.values)
      /\ Closing[iter.reset] = j /\ Closing[iter.reset - 1] = outer.closed
      BY <1>2, <1>3, <1>4 DEF Frame
<1>6. rest = Then(InTurn(rounds)[iter.idx + 2], Then(Meaning(source)[j + 1][outer.env], outer.rest))
      BY <1>1, <1>2, <1>3, <1>4 DEF Frame
<1>7. outer.env \in Env /\ outer.rest \in Texts /\ outer.closed \in Nat
      BY <1>3, FramesTyped
<1>8. j + 1 \in 1..Len(json) + 1 /\ iter.reset \in 1..Len(json) + 1
      BY <1>2, <1>5
<1>9. Meaning(source)[j + 1][outer.env] \in Texts
      BY <1>7, <1>8, MeaningIs
<1>10. Meaning(source)[iter.reset] \in Meanings
      BY <1>8, MeaningStepped
<1>11. /\ rounds \in Seq(Texts) /\ Len(rounds) = iter.max /\ iter.max \in Nat
       /\ \A n \in 1..Len(rounds) :
             rounds[n] = Meaning(source)[iter.reset][Bound(outer.env, t, source, n)]
      BY <1>5, <1>7, <1>10, RoundsOfType
<1>12. Closing[j + 1] = outer.closed
  <2>1. PICK p : p = iter.reset - 1
        OBVIOUS
  <2>2. p \in 1..Len(json) + 1 /\ p <= Len(json) /\ p + 1 = iter.reset
        BY <1>2, <1>5, <2>1
  <2>3. json[p].kind = "for" /\ Closing[p + 1] = j
        BY <1>5, <2>1, <2>2 DEF Looping
  <2>4. Closing[p] = Closing[j + 1]
        BY <2>2, <2>3, ClosingIs
  <2>   QED  BY <1>5, <2>1, <2>4
<1>13. Then({<<>>}, rest) = rest
      BY <1>1, ThenNothing
<1>14. RoundEnd(frames, stack, output, j, outer, iter, t, rounds)
  <2>1. ThePart = Then({output}, Then(InTurn(rounds)[iter.idx + 2],
                                      Then(Meaning(source)[j + 1][outer.env], outer.rest)))
        BY <1>1, <1>4, <1>6, <1>13
  <2>   QED  BY <1>3, <1>5, <1>7, <1>8, <1>9, <1>11, <1>12, <2>1 DEF RoundEnd
<1>   QED  BY <1>14

\* The last round.
LEMMA ReachedOut ==
    ASSUME TemplateTyped, source \in ObjectType,
           NEW frames, NEW stack, NEW output, NEW j, Reaches(frames, stack, output, j), stack # <<>>,
           j <= Len(json), json[j].kind = "end", ~NextRound(Head(stack))
    PROVE  Reaches(frames, Tail(stack), output, j + 1)
<1>0. PICK outer, iter, t, rounds : RoundEnd(frames, stack, output, j, outer, iter, t, rounds)
      BY ReachedRoundEnd
<1>1. outer = frames[Len(stack) - 1] /\ iter = Head(stack)
      BY <1>0 DEF RoundEnd
<1>2. t = json[iter.reset - 1]
      BY <1>0 DEF RoundEnd
<1>3. rounds = RoundsOf(t, source, Meaning(source)[iter.reset], outer.env)
      BY <1>0 DEF RoundEnd
<1>4. /\ Closing[j + 1] = outer.closed /\ j + 1 \in 1..Len(json) + 1
      /\ outer.rest \in Texts /\ Meaning(source)[j + 1][outer.env] \in Texts
      /\ rounds \in Seq(Texts) /\ Len(rounds) = iter.max /\ iter.max \in Nat
      BY <1>0 DEF RoundEnd
<1>5. ThePart = Then({output}, Then(InTurn(rounds)[iter.idx + 2],
                                    Then(Meaning(source)[j + 1][outer.env], outer.rest)))
      BY <1>0 DEF RoundEnd
<1>6. iter.idx \in 0..iter.max - 1 /\ Len(stack) \in Nat \ {0} /\ ~(iter.idx + 1 < iter.max)
      BY <1>0, <1>1, ReachedInLoop DEF RoundEnd, Frame, NextRound
<1>7. iter.idx + 2 \in 1..Len(rounds) + 1 /\ iter.idx + 2 > Len(rounds)
  <2>1. ASSUME NEW i, NEW m \in Nat, i \in 0..m - 1, ~(i + 1 < m)
        PROVE  i + 2 \in 1..m + 1 /\ i + 2 > m
        BY <2>1
  <2>   QED  BY <1>4, <1>6, <2>1
<1>8. InTurn(rounds)[iter.idx + 2] = {<<>>}
      BY <1>4, <1>7, InTurnIs
<1>9. Then({<<>>}, Then(Meaning(source)[j + 1][outer.env], outer.rest)) =
          Then(Meaning(source)[j + 1][outer.env], outer.rest)
  <2>1. Then(Meaning(source)[j + 1][outer.env], outer.rest) \in Texts
        BY <1>4, ThenOfTexts
  <2>   QED  BY <2>1, ThenNothing
<1>10. ThePart = Then({output}, Then(Meaning(source)[j + 1][outer.env], outer.rest))
      BY <1>5, <1>8, <1>9
<1>11. PICK less : less = Tail(stack)
      OBVIOUS
<1>12. /\ frames \in [Nat -> FrameType] /\ stack \in Seq(IterType) /\ output \in TemplateText
       /\ frames[0].env = NoLoop /\ frames[0].closed = Closing[1]
       /\ frames[0].rest = IF Closing[1] > Len(json) THEN {<<>>} ELSE {}
       /\ \A d \in 1..Len(stack) : Frame(json, Closing, Meaning(source), source, Level(stack, d),
                                         frames[d - 1], frames[d])
      BY DEF Reaches, Reached
<1>13. /\ less \in Seq(IterType) /\ Len(less) = Len(stack) - 1
       /\ \A d \in 1..Len(stack) - 1 : Level(less, d) = Level(stack, d)
      BY <1>11, <1>12, LevelsPopped
<1>14. \A d \in 1..Len(less) : Frame(json, Closing, Meaning(source), source, Level(less, d),
                                     frames[d - 1], frames[d])
  <2>1. ASSUME NEW d \in 1..Len(less)
        PROVE  Frame(json, Closing, Meaning(source), source, Level(less, d), frames[d - 1], frames[d])
    <3>1. d \in 1..Len(stack) - 1 /\ d \in 1..Len(stack)
          BY <1>6, <1>13
    <3>   QED  BY <1>12, <1>13, <3>1
  <2>   QED  BY <2>1
<1>15. /\ frames[Len(less)].closed = Closing[j + 1]
       /\ Whole(json, Closing, Meaning(source)) =
             Then({output}, Then(Meaning(source)[j + 1][frames[Len(less)].env], frames[Len(less)].rest))
      BY <1>1, <1>4, <1>10, <1>13 DEF ThePart
<1>16. Reached(json, Closing, Meaning(source), source, frames, less, output, j + 1)
      BY <1>4, <1>12, <1>13, <1>14, <1>15 DEF Reached
<1>   QED  BY <1>11, <1>16 DEF Reaches

\* Another round.
LEMMA ReachedAgain ==
    ASSUME TemplateTyped, source \in ObjectType,
           NEW frames, NEW stack, NEW output, NEW j, Reaches(frames, stack, output, j), stack # <<>>,
           j <= Len(json), json[j].kind = "end", NextRound(Head(stack))
    PROVE  \E more : Reaches(more, [stack EXCEPT ![1].idx = @ + 1], output, Head(stack).reset)
<1>0. PICK outer, iter, t, rounds : RoundEnd(frames, stack, output, j, outer, iter, t, rounds)
      BY ReachedRoundEnd
<1>1. outer = frames[Len(stack) - 1] /\ iter = Head(stack)
      BY <1>0 DEF RoundEnd
<1>2. t = json[iter.reset - 1]
      BY <1>0 DEF RoundEnd
<1>3. rounds = RoundsOf(t, source, Meaning(source)[iter.reset], outer.env)
      BY <1>0 DEF RoundEnd
<1>4. /\ iter.reset \in 2..Len(json) + 1 /\ Looping(t) /\ Closing[iter.reset] = j
      /\ outer.env \in Env /\ outer.rest \in Texts
      /\ Meaning(source)[j + 1][outer.env] \in Texts
      /\ rounds \in Seq(Texts) /\ Len(rounds) = iter.max /\ iter.max \in Nat
      BY <1>0 DEF RoundEnd
<1>5. \A n \in 1..Len(rounds) :
          rounds[n] = Meaning(source)[iter.reset][Bound(outer.env, t, source, n)]
      BY <1>0 DEF RoundEnd
<1>6. ThePart = Then({output}, Then(InTurn(rounds)[iter.idx + 2],
                                    Then(Meaning(source)[j + 1][outer.env], outer.rest)))
      BY <1>0 DEF RoundEnd
<1>7. /\ Frame(json, Closing, Meaning(source), source, iter, outer, frames[Len(stack)])
      /\ Len(stack) \in Nat \ {0}
      BY <1>0, ReachedInLoop DEF RoundEnd
<1>8. iter.idx \in 0..iter.max - 1 /\ iter.idx + 1 < iter.max
      BY <1>1, <1>7 DEF Frame, NextRound
<1>9. PICK inside : inside = Bound(outer.env, t, source, iter.idx + 2)
      OBVIOUS
<1>10. PICK turn : turn = InTurn(rounds)[iter.idx + 3]
      OBVIOUS
<1>11. inside \in Env
  <2>1. iter.idx + 2 \in Nat \ {0}
        BY <1>8
  <2>   QED  BY <1>4, <1>9, <2>1, BoundType DEF Looping
<1>12. /\ iter.idx + 2 \in 1..Len(rounds) /\ iter.idx + 2 \in 1..Len(rounds) + 1
       /\ iter.idx + 3 \in 1..Len(rounds) + 1 /\ (iter.idx + 2) + 1 = iter.idx + 3
  <2>1. ASSUME NEW i, NEW m \in Nat, i \in 0..m - 1, i + 1 < m
        PROVE  /\ i + 2 \in 1..m /\ i + 2 \in 1..m + 1
               /\ i + 3 \in 1..m + 1 /\ (i + 2) + 1 = i + 3
        BY <2>1
  <2>   QED  BY <1>4, <1>8, <2>1
<1>13. PICK round : round = Meaning(source)[iter.reset][inside]
      OBVIOUS
<1>14. turn \in Texts /\ round \in Texts /\ InTurn(rounds)[iter.idx + 2] = Then(round, turn)
  <2>1. turn \in Texts
        BY <1>4, <1>10, <1>12, InTurnIs
  <2>2. InTurn(rounds)[iter.idx + 2] = Then(rounds[iter.idx + 2], InTurn(rounds)[(iter.idx + 2) + 1])
        BY <1>4, <1>12, InTurnIs
  <2>3. rounds[iter.idx + 2] = round
        BY <1>5, <1>9, <1>12, <1>13
  <2>4. round \in Texts
    <3>1. iter.reset \in 1..Len(json) + 1
          BY <1>4, TemplateLength
    <3>   QED  BY <1>11, <1>13, <3>1, MeaningIs
  <2>   QED  BY <1>10, <1>12, <2>1, <2>2, <2>3, <2>4
<1>15. PICK after : after = Then(Meaning(source)[j + 1][outer.env], outer.rest)
      OBVIOUS
<1>16. PICK remains : remains = Then(turn, after)
      OBVIOUS
<1>17. after \in Texts /\ remains \in Texts
      BY <1>4, <1>14, <1>15, <1>16, ThenOfTexts
<1>18. ThePart = Then({output}, Then(round, remains))
  <2>1. Then(Then(round, turn), after) = Then(round, remains)
        BY <1>14, <1>16, <1>17, ThenThen
  <2>   QED  BY <1>6, <1>14, <1>15, <2>1
<1>   DEFINE D == Len(stack)
<1>19. PICK top : top = [env |-> inside, rest |-> remains, closed |-> j]
      OBVIOUS
<1>20. PICK more : more = [frames EXCEPT ![D] = top]
      OBVIOUS
<1>21. /\ frames \in [Nat -> FrameType] /\ stack \in Seq(IterType) /\ output \in TemplateText
       /\ frames[0].env = NoLoop /\ frames[0].closed = Closing[1]
       /\ frames[0].rest = IF Closing[1] > Len(json) THEN {<<>>} ELSE {}
       /\ \A d \in 1..D : Frame(json, Closing, Meaning(source), source, Level(stack, d),
                                frames[d - 1], frames[d])
      BY DEF Reaches, Reached
<1>22. D \in Nat \ {0} /\ Len(json) \in Nat /\ j \in Nat /\ j <= Len(json)
  <2>1. j \in 1..Len(json) + 1 /\ Len(json) \in Nat
        BY ReachedTypes
  <2>   QED  BY <1>7, <2>1
<1>23. top \in FrameType /\ top.env = inside /\ top.rest = remains /\ top.closed = j
      BY <1>11, <1>17, <1>19, <1>22 DEF FrameType
<1>24. more \in [Nat -> FrameType] /\ more[D] = top /\ \A d \in 0..D - 1 : more[d] = frames[d]
      BY <1>20, <1>21, <1>22, <1>23
<1>25. PICK nstack : nstack = [stack EXCEPT ![1].idx = @ + 1]
      OBVIOUS
<1>26. PICK x : /\ x \in IterType /\ x.values = iter.values /\ x.max = iter.max
                /\ x.reset = iter.reset /\ x.idx = iter.idx + 1
                /\ nstack \in Seq(IterType) /\ Len(nstack) = D /\ Level(nstack, D) = x
                /\ \A d \in 1..D - 1 : Level(nstack, d) = Level(stack, d)
      BY <1>1, <1>21, <1>25, LevelsAgain
<1>27. Frame(json, Closing, Meaning(source), source, x, outer, top)
  <2>1. x.idx \in 0..x.max - 1 /\ x.idx + 1 = iter.idx + 2 /\ x.idx + 2 = iter.idx + 3
    <3>1. ASSUME NEW i, NEW m \in Nat, i \in 0..m - 1, i + 1 < m
          PROVE  i + 1 \in 0..m - 1 /\ (i + 1) + 1 = i + 2 /\ (i + 1) + 2 = i + 3
          BY <3>1
    <3>   QED  BY <1>4, <1>8, <1>26, <3>1
  <2>2. /\ x.values = LoopValues(json[x.reset - 1], source) /\ x.max = Rounds(x.values)
        /\ Closing[x.reset - 1] = outer.closed
        BY <1>7, <1>26 DEF Frame
  <2>3. t = json[x.reset - 1] /\ x.reset \in 2..Len(json) + 1
        BY <1>2, <1>4, <1>26
  <2>4. top.env = Bound(outer.env, t, source, x.idx + 1)
        BY <1>9, <1>23, <2>1
  <2>5. top.rest = Then(InTurn(RoundsOf(t, source, Meaning(source)[x.reset], outer.env))[x.idx + 2],
                        Then(Meaning(source)[top.closed + 1][outer.env], outer.rest))
        BY <1>3, <1>10, <1>15, <1>16, <1>23, <1>26, <2>1
  <2>6. ~(top.closed > Len(json)) /\ top.closed = Closing[x.reset]
        BY <1>4, <1>22, <1>23, <1>26
  <2>   QED  BY <1>4, <2>1, <2>2, <2>3, <2>4, <2>5, <2>6 DEF Frame
<1>28. ASSUME NEW d \in 1..D
      PROVE  Frame(json, Closing, Meaning(source), source, Level(nstack, d), more[d - 1], more[d])
  <2>1. CASE d = D
    <3>1. d - 1 \in 0..D - 1
          BY <1>22, <2>1
    <3>2. more[d - 1] = outer
          BY <1>1, <1>24, <2>1, <3>1
    <3>   QED  BY <1>24, <1>26, <1>27, <2>1, <3>2
  <2>2. CASE d # D
    <3>1. d \in 1..D - 1 /\ d \in 0..D - 1 /\ d - 1 \in 0..D - 1
          BY <1>22, <2>2
    <3>2. more[d] = frames[d] /\ more[d - 1] = frames[d - 1] /\ Level(nstack, d) = Level(stack, d)
          BY <1>24, <1>26, <3>1
    <3>   QED  BY <1>21, <3>2
  <2>   QED  BY <2>1, <2>2
<1>29. Reached(json, Closing, Meaning(source), source, more, nstack, output, iter.reset)
  <2>1. 0 \in 0..D - 1 /\ iter.reset \in 1..Len(json) + 1
        BY <1>4, <1>22
  <2>2. more[0] = frames[0]
        BY <1>24, <2>1
  <2>3. Whole(json, Closing, Meaning(source)) =
            Then({output}, Then(Meaning(source)[iter.reset][more[Len(nstack)].env], more[Len(nstack)].rest))
        BY <1>13, <1>18, <1>23, <1>24, <1>26 DEF ThePart
  <2>4. more[Len(nstack)].closed = Closing[iter.reset]
        BY <1>4, <1>23, <1>24, <1>26
  <2>   HIDE DEF D
  <2>   QED  BY <1>21, <1>24, <1>26, <1>28, <2>1, <2>2, <2>3, <2>4 DEF Reached
<1>   QED  BY <1>1, <1>25, <1>29 DEF Reaches

-----------------------------------------------------------------------------
\* Values that the interpreter finds are those that the template means.

LEMMA InnermostBinds ==
    ASSUME TemplateTyped, source \in ObjectType,
           NEW frames, NEW stack, NEW output, NEW j, Reaches(frames, stack, output, j),
           NEW name \in IterName
    PROVE  \A d \in 0..Len(stack) :
              /\ (\A x \in 1..d : name \notin DOMAIN Level(stack, x).values) =>
                    frames[d].env[name] = {}
              /\ \A x \in 1..d :
                    /\ name \in DOMAIN Level(stack, x).values
                    /\ \A y \in x + 1..d : name \notin DOMAIN Level(stack, y).values
                    => frames[d].env[name] =
                          {NthOrEmpty(Level(stack, x).values[name], Level(stack, x).idx)}
<1>   DEFINE Has(x) == name \in DOMAIN Level(stack, x).values
             Value(x) == {NthOrEmpty(Level(stack, x).values[name], Level(stack, x).idx)}
             Good(d) == /\ (\A x \in 1..d : ~Has(x)) => frames[d].env[name] = {}
                        /\ \A x \in 1..d : Has(x) /\ (\A y \in x + 1..d : ~Has(y)) =>
                              frames[d].env[name] = Value(x)
             n == Len(stack)
             T == {d \in 0..n : Good(d)}
<1>1. /\ frames[0].env = NoLoop
      /\ \A d \in 1..n : Frame(json, Closing, Meaning(source), source, Level(stack, d),
                               frames[d - 1], frames[d])
      BY DEF Reaches, Reached
<1>2. n \in Nat
      BY ReachedTypes
<1>3. ASSUME NEW d \in 1..n
      PROVE  frames[d].env[name] = IF Has(d) THEN Value(d) ELSE frames[d - 1].env[name]
  <2>1. PICK iter : iter = Level(stack, d)
        OBVIOUS
  <2>2. Frame(json, Closing, Meaning(source), source, iter, frames[d - 1], frames[d])
        BY <1>1, <2>1
  <2>3. PICK t : t = json[iter.reset - 1]
        OBVIOUS
  <2>4. /\ frames[d].env = Bound(frames[d - 1].env, t, source, iter.idx + 1)
        /\ iter.values = LoopValues(t, source) /\ iter.idx \in 0..iter.max - 1
        BY <2>2, <2>3 DEF Frame
  <2>5. (iter.idx + 1) - 1 = iter.idx
        BY <2>4
  <2>6. frames[d].env[name] = IF name \in DOMAIN iter.values
                              THEN {NthOrEmpty(iter.values[name], (iter.idx + 1) - 1)}
                              ELSE frames[d - 1].env[name]
        BY <2>4 DEF Bound
  <2>   QED  BY <2>1, <2>5, <2>6
<1>   HIDE DEF Has, Value
<1>4. 0 \in T
  <2>1. frames[0].env[name] = {}
        BY <1>1 DEF NoLoop
  <2>2. \A x \in 1..0 : FALSE
        OBVIOUS
  <2>3. Good(0)
        BY <2>1, <2>2
  <2>   HIDE DEF Good
  <2>   QED  BY <1>2, <2>3
<1>5. ASSUME NEW d \in 0..n - 1, d \in T PROVE d + 1 \in T
  <2>1. PICK e : e = d + 1
        OBVIOUS
  <2>2. e \in 1..n /\ e \in 0..n /\ e - 1 = d
        BY <1>2, <2>1
  <2>3. frames[e].env[name] = IF Has(e) THEN Value(e) ELSE frames[d].env[name]
        BY <1>3, <2>2
  <2>4. Good(d)
        BY <1>5
  <2>5. \A x \in 1..d : x \in 1..e
        BY <2>2
  <2>6. (\A x \in 1..e : ~Has(x)) => frames[e].env[name] = {}
        BY <2>2, <2>3, <2>4, <2>5
  <2>7. ASSUME NEW x \in 1..e, Has(x), \A y \in x + 1..e : ~Has(y)
        PROVE  frames[e].env[name] = Value(x)
    <3>1. CASE x = e
          BY <2>3, <2>7, <3>1
    <3>2. CASE x # e
      <4>1. x \in 1..d /\ e \in x + 1..e /\ \A y \in x + 1..d : y \in x + 1..e
            BY <2>2, <3>2
      <4>2. frames[d].env[name] = Value(x)
            BY <2>4, <2>7, <4>1
      <4>3. ~Has(e)
            BY <2>7, <4>1
      <4>   QED  BY <2>3, <4>2, <4>3
    <3>   QED  BY <3>1, <3>2
  <2>8. Good(e)
        BY <2>6, <2>7
  <2>   HIDE DEF Good
  <2>   QED  BY <2>1, <2>2, <2>8
<1>   HIDE DEF T
<1>6. \A d \in 0..n : d \in T
      BY <1>2, <1>4, <1>5, UpTo
<1>7. \A d \in 0..n : Good(d)
      BY <1>6 DEF T
<1>   QED  BY <1>7 DEF Has, Value

\* A value that is got, and the set of the one that is meant.
AsMeant(value, meant) ==
    \/ value.result = "crash"
    \/ value.result = "missing" /\ meant = {}
    \/ value.result = "value" /\ meant = {value.value}

LEMMA LoopValueMeant ==
    ASSUME TemplateTyped, source \in ObjectType,
           NEW frames, NEW stack, NEW output, NEW j, Reaches(frames, stack, output, j),
           NEW name \in IterName, NEW value \in InLoops(stack, name)
    PROVE  AsMeant(value, frames[Len(stack)].env[name])
<1>   DEFINE having == {n \in DOMAIN stack : name \in DOMAIN stack[n].values}
             n == Len(stack)
<1>1. /\ n \in Nat /\ DOMAIN stack = 1..n /\ having \subseteq 1..n
  <2>1. stack \in Seq(IterType)
        BY DEF Reaches, Reached
  <2>   QED  BY <2>1
<1>2. PICK best : best = Min(having)
      OBVIOUS
<1>3. \/ value.result = "crash"
      \/ having = {} /\ value.result = "missing"
      \/ having # {} /\ value.result = "value"
                     /\ value.value = NthOrEmpty(stack[best].values[name], stack[best].idx)
  <2>1. PICK found : found = IF having = {} THEN [result |-> "missing", value |-> <<>>]
                             ELSE [result |-> "value",
                                   value |-> NthOrEmpty(stack[best].values[name], stack[best].idx)]
        OBVIOUS
  <2>2. value = found \/ value = [result |-> "crash", value |-> <<>>]
        BY <1>2, <2>1 DEF InLoops
  <2>   HIDE DEF having
  <2>   QED  BY <2>1, <2>2
<1>4. \A d \in 1..n : Level(stack, d) = stack[n - d + 1] /\ n - d + 1 \in 1..n
      BY <1>1 DEF Level
<1>5. CASE having = {}
  <2>1. \A d \in 1..n : name \notin DOMAIN Level(stack, d).values
        BY <1>1, <1>4, <1>5
  <2>2. n \in 0..n
        BY <1>1
  <2>3. frames[n].env[name] = {}
        BY <2>1, <2>2, InnermostBinds
  <2>   QED  BY <1>3, <1>5, <2>3 DEF AsMeant
<1>6. CASE having # {}
  <2>1. best \in having /\ \A m \in having : best <= m
    <3>1. having \in SUBSET Nat
          BY <1>1
    <3>   HIDE DEF having
    <3>   QED  BY <1>2, <1>6, <3>1, MinOf
  <2>2. PICK x : x = n - best + 1
        OBVIOUS
  <2>3. best \in 1..n /\ x \in 1..n /\ n - x + 1 = best /\ n \in 0..n
        BY <1>1, <2>1, <2>2
  <2>4. Level(stack, x) = stack[best] /\ name \in DOMAIN Level(stack, x).values
        BY <1>4, <2>1, <2>3
  <2>5. ASSUME NEW y \in x + 1..n PROVE name \notin DOMAIN Level(stack, y).values
    <3>1. PICK m : m = n - y + 1
          OBVIOUS
    <3>2. m \in 1..n /\ m < best /\ y \in 1..n
          BY <1>1, <2>3, <3>1
    <3>3. Level(stack, y) = stack[m]
          BY <1>4, <3>1, <3>2
    <3>4. m \notin having
          BY <1>1, <2>1, <2>3, <3>2
    <3>   QED  BY <1>1, <3>2, <3>3, <3>4
  <2>6. frames[n].env[name] = {NthOrEmpty(Level(stack, x).values[name], Level(stack, x).idx)}
        BY <2>3, <2>4, <2>5, InnermostBinds
  <2>   QED  BY <1>3, <1>6, <2>4, <2>6 DEF AsMeant
<1>   QED  BY <1>5, <1>6

\* The object that was loaded has what the template uses of the object.
UsesAgree ==
    \A n \in 1..Len(json) :
        /\ json[n].kind \in {"var", "switch"} /\ ~json[n].iter =>
              user[json[n].name] = source[json[n].name]
        /\ json[n].kind = "for" => \A a \in Range(json[n].attrs) : user[a] = source[a]

LEMMA GotAsMeant ==
    ASSUME TemplateTyped, source \in ObjectType, UsesAgree,
           NEW frames, NEW output, NEW j, Reaches(frames, iteration_stack, output, j),
           j <= Len(json), json[j].kind \in {"var", "switch"},
           NEW value \in get_value(json[j])
    PROVE  AsMeant(value, ValueOf(json[j], source, frames[Len(iteration_stack)].env))
<1>1. j \in 1..Len(json) /\ json[j] \in Token
  <2>1. j \in 1..Len(json) + 1 /\ Len(json) \in Nat
        BY ReachedTypes
  <2>2. j \in 1..Len(json)
        BY <2>1
  <2>   QED  BY <2>2, TemplateLength
<1>2. CASE json[j].iter
  <2>1. json[j].name \in IterName
        BY <1>1, <1>2, TokenKinds
  <2>2. value \in InLoops(iteration_stack, json[j].name)
        BY <1>2 DEF get_value
  <2>3. AsMeant(value, frames[Len(iteration_stack)].env[json[j].name])
        BY <2>1, <2>2, LoopValueMeant
  <2>   QED  BY <1>2, <2>3 DEF ValueOf
<1>3. CASE ~json[j].iter
  <2>1. json[j].name \in Attribute
        BY <1>1, <1>3, TokenKinds
  <2>2. PICK values : values = source[json[j].name]
        OBVIOUS
  <2>3. user[json[j].name] = values
        BY <1>1, <1>3, <2>2 DEF UsesAgree
  <2>4. values \in Seq(TemplateText)
        BY <2>1, <2>2 DEF ObjectType
  <2>5. values # <<>> => Head(values) = values[1]
        BY <2>4
  <2>6. CASE values = <<>>
    <3>1. value = [result |-> "missing", value |-> <<>>]
          BY <1>3, <2>3, <2>6 DEF get_value
    <3>2. ValueOf(json[j], source, frames[Len(iteration_stack)].env) = {}
          BY <1>3, <2>2, <2>6 DEF ValueOf
    <3>   QED  BY <3>1, <3>2 DEF AsMeant
  <2>7. CASE values # <<>>
    <3>1. value = [result |-> "value", value |-> Head(values)]
          BY <1>3, <2>3, <2>7 DEF get_value
    <3>2. ValueOf(json[j], source, frames[Len(iteration_stack)].env) = {values[1]}
          BY <1>3, <2>2, <2>7 DEF ValueOf
    <3>   QED  BY <2>5, <2>7, <3>1, <3>2 DEF AsMeant
  <2>   QED  BY <2>6, <2>7
<1>   QED  BY <1>2, <1>3

-----------------------------------------------------------------------------
\* What a step of the interpreter comes to.

Comes ==
    \/ rendering' = "crashed"
    \/ rendering' = "failed" /\ ThePart = {}
    \/ /\ rendering' = "parse"
       /\ \E frames : Reaches(frames, iteration_stack', output_string', j_iter')

Interpreting ==
    /\ TemplateTyped /\ source \in ObjectType /\ UsesAgree /\ PlainLoops
    /\ rendering = "parse" /\ j_iter <= Len(json)
    /\ \E frames : Reaches(frames, iteration_stack, output_string, j_iter)

\* What is written is what the token means.
LEMMA WrittenComes ==
    ASSUME Interpreting, NEW frames, Reaches(frames, iteration_stack, output_string, j_iter),
           Here.kind \notin {"for", "end"}, NEW chars,
           Spelled(Here, source, frames[Len(iteration_stack)].env) = {chars}, Write(chars)
    PROVE  Comes
<1>1. TemplateTyped /\ source \in ObjectType /\ j_iter <= Len(json) /\ rendering = "parse"
      BY DEF Interpreting
<1>2. Reaches(frames, iteration_stack, output_string \o chars, j_iter + 1)
      BY <1>1, ReachedWritten DEF Here
<1>   QED  BY <1>1, <1>2 DEF Comes, Write

LEMMA UnwrittenComes ==
    ASSUME Interpreting, NEW frames, Reaches(frames, iteration_stack, output_string, j_iter),
           Here.kind \notin {"for", "end"},
           Spelled(Here, source, frames[Len(iteration_stack)].env) = {}, ParserFails
    PROVE  Comes
<1>1. TemplateTyped /\ source \in ObjectType /\ j_iter <= Len(json)
      BY DEF Interpreting
<1>2. ThePart = {}
      BY <1>1, ReachedWritten DEF Here
<1>   QED  BY <1>2 DEF Comes, ParserFails

LEMMA CopyComes == ASSUME Interpreting, copy_char PROVE Comes
<1>1. PICK frames : Reaches(frames, iteration_stack, output_string, j_iter)
      BY DEF Interpreting
<1>2. Here.kind = "text" /\ Write(Here.chars)
      BY DEF copy_char
<1>3. Spelled(Here, source, frames[Len(iteration_stack)].env) = {Here.chars}
      BY <1>2 DEF Spelled
<1>   QED  BY <1>1, <1>2, <1>3, WrittenComes

LEMMA NoReplacementComes == ASSUME Interpreting, NoReplacement PROVE Comes
<1>1. PICK frames : Reaches(frames, iteration_stack, output_string, j_iter)
      BY DEF Interpreting
<1>2. Here.kind = "malformed" /\ ParserFails
      BY DEF NoReplacement
<1>3. Spelled(Here, source, frames[Len(iteration_stack)].env) = {}
      BY <1>2 DEF Spelled
<1>   QED  BY <1>1, <1>2, <1>3, UnwrittenComes

LEMMA SimpleComes == ASSUME Interpreting, replacement_simple PROVE Comes
<1>1. PICK frames : Reaches(frames, iteration_stack, output_string, j_iter)
      BY DEF Interpreting
<1>2. PICK value \in get_value(Here) :
         \/ ValueMissing(value)
         \/ Crashes(value)
         \/ /\ value.result = "value"
            /\ Write(IF escape_by_default # Here.bar THEN json_string_escape(value.value)
                     ELSE value.value)
      BY DEF replacement_simple
<1>3. Here.kind = "var"
      BY DEF replacement_simple
<1>4. PICK meant : meant = ValueOf(Here, source, frames[Len(iteration_stack)].env)
      OBVIOUS
<1>5. AsMeant(value, meant)
      BY <1>1, <1>2, <1>3, <1>4, GotAsMeant DEF Interpreting, Here
<1>6. Spelled(Here, source, frames[Len(iteration_stack)].env) =
          {IF escape_by_default # Here.bar THEN json_string_escape(v) ELSE v : v \in meant}
      BY <1>3, <1>4 DEF Spelled
<1>7. CASE ValueMissing(value)
  <2>1. value.result = "missing" /\ ParserFails
        BY <1>7 DEF ValueMissing
  <2>2. Spelled(Here, source, frames[Len(iteration_stack)].env) = {}
        BY <1>5, <1>6, <2>1 DEF AsMeant
  <2>   QED  BY <1>1, <1>3, <2>1, <2>2, UnwrittenComes
<1>8. CASE Crashes(value)
      BY <1>8 DEF Crashes, Comes
<1>9. CASE /\ value.result = "value"
           /\ Write(IF escape_by_default # Here.bar THEN json_string_escape(value.value)
                    ELSE value.value)
  <2>1. meant = {value.value}
        BY <1>5, <1>9 DEF AsMeant
  <2>2. PICK chars : chars = IF escape_by_default # Here.bar THEN json_string_escape(value.value)
                             ELSE value.value
        OBVIOUS
  <2>3. Spelled(Here, source, frames[Len(iteration_stack)].env) = {chars}
        BY <1>6, <2>1, <2>2
  <2>4. Write(chars)
        BY <1>9, <2>2
  <2>   QED  BY <1>1, <1>3, <2>3, <2>4, WrittenComes
<1>   QED  BY <1>2, <1>7, <1>8, <1>9

LEMMA ConditionalComes == ASSUME Interpreting, replacement_conditional PROVE Comes
<1>1. PICK frames : Reaches(frames, iteration_stack, output_string, j_iter)
      BY DEF Interpreting
<1>   DEFINE AllOk == \A n \in DOMAIN Here.cases : Here.cases[n].ok
<1>2. PICK value \in get_value(Here) :
         \/ ValueMissing(value)
         \/ Crashes(value)
         \/ /\ value.result = "value"
            /\ IF AllOk THEN Write(Chosen(Here, value.value)) ELSE ParserFails
      BY DEF replacement_conditional
<1>3. Here.kind = "switch"
      BY DEF replacement_conditional
<1>4. PICK meant : meant = ValueOf(Here, source, frames[Len(iteration_stack)].env)
      OBVIOUS
<1>5. AsMeant(value, meant)
      BY <1>1, <1>2, <1>3, <1>4, GotAsMeant DEF Interpreting, Here
<1>6. Spelled(Here, source, frames[Len(iteration_stack)].env) =
          IF AllOk THEN {Chosen(Here, v) : v \in meant} ELSE {}
      BY <1>3, <1>4 DEF Spelled
<1>   HIDE DEF AllOk
<1>7. CASE ValueMissing(value)
  <2>1. value.result = "missing" /\ ParserFails
        BY <1>7 DEF ValueMissing
  <2>2. Spelled(Here, source, frames[Len(iteration_stack)].env) = {}
        BY <1>5, <1>6, <2>1 DEF AsMeant
  <2>   QED  BY <1>1, <1>3, <2>1, <2>2, UnwrittenComes
<1>8. CASE Crashes(value)
      BY <1>8 DEF Crashes, Comes
<1>9. CASE value.result = "value" /\ AllOk /\ Write(Chosen(Here, value.value))
  <2>1. meant = {value.value}
        BY <1>5, <1>9 DEF AsMeant
  <2>2. Spelled(Here, source, frames[Len(iteration_stack)].env) = {Chosen(Here, value.value)}
        BY <1>6, <1>9, <2>1
  <2>   QED  BY <1>1, <1>3, <1>9, <2>2, WrittenComes
<1>10. CASE ~AllOk /\ ParserFails
  <2>1. Spelled(Here, source, frames[Len(iteration_stack)].env) = {}
        BY <1>6, <1>10
  <2>   QED  BY <1>1, <1>3, <1>10, <2>1, UnwrittenComes
<1>   QED  BY <1>2, <1>7, <1>8, <1>9, <1>10

LEMMA IterStartComes == ASSUME Interpreting, iter_start PROVE Comes
<1>1. PICK frames : Reaches(frames, iteration_stack, output_string, j_iter)
      BY DEF Interpreting
<1>2. /\ TemplateTyped /\ source \in ObjectType /\ UsesAgree /\ PlainLoops
      /\ rendering = "parse" /\ j_iter <= Len(json)
      BY DEF Interpreting
<1>3. Here.kind = "for" /\ Here = json[j_iter]
      BY DEF iter_start, Here
<1>4. j_iter \in 1..Len(json) /\ Len(json) \in Nat /\ Here \in Token
  <2>1. j_iter \in 1..Len(json) + 1 /\ Len(json) \in Nat
        BY <1>1, <1>2, ReachedTypes
  <2>2. j_iter \in 1..Len(json)
        BY <1>2, <2>1
  <2>   QED  BY <1>2, <1>3, <2>1, <2>2, TemplateLength
<1>5. CASE Len(Here.vars) # Len(Here.attrs)
  <2>1. ParserFails
        BY <1>5 DEF iter_start
  <2>2. ThePart = {}
        BY <1>1, <1>2, <1>3, <1>5, ReachedNothing
  <2>   QED  BY <2>1, <2>2 DEF ParserFails, Comes
<1>6. CASE Len(Here.vars) = Len(Here.attrs)
  <2>1. PICK values : values = LoopValues(Here, source)
        OBVIOUS
  <2>2. Looping(json[j_iter]) /\ Looping(Here)
        BY <1>3, <1>4, <1>6 DEF Looping
  <2>3. LoopValues(Here, user) = values
    <3>1. \A a \in Range(Here.attrs) : user[a] = source[a]
          BY <1>2, <1>3, <1>4 DEF UsesAgree
    <3>   QED  BY <1>2, <1>3, <1>4, <1>6, <2>1, <3>1, LoopValuesType
  <2>4. IF Rounds(values) = 0 THEN skip_iter
        ELSE /\ iteration_stack' = <<[values |-> values, idx |-> 0, max |-> Rounds(values),
                                      reset |-> j_iter + 1]>> \o iteration_stack
             /\ j_iter' = j_iter + 1
             /\ UNCHANGED <<rendering, output_string>>
        BY <1>6, <2>3 DEF iter_start
  <2>5. CASE Rounds(values) = 0
    <3>1. PICK c : c = Closing[j_iter + 1]
          OBVIOUS
    <3>2. j_iter + 1 \in 1..Len(json) + 1
          BY <1>4
    <3>3. c \in j_iter + 1..Len(json) + 1
          BY <1>2, <3>1, <3>2, ClosingIs
    <3>4. SkipFrom(j_iter + 1, 1) = IF c > Len(json) THEN Len(json) + 2 ELSE c + 1
          BY <1>2, <3>1, <3>2, SkipCloses
    <3>5. CASE c > Len(json)
      <4>1. SkipFrom(j_iter + 1, 1) > Len(json) + 1
            BY <1>4, <3>4, <3>5
      <4>2. ParserFails
            BY <2>4, <2>5, <4>1 DEF skip_iter
      <4>3. ThePart = {}
            BY <1>1, <1>2, <1>3, <3>1, <3>5, ReachedNothing
      <4>   QED  BY <4>2, <4>3 DEF ParserFails, Comes
    <3>6. CASE c <= Len(json)
      <4>1. SkipFrom(j_iter + 1, 1) = c + 1 /\ ~(c + 1 > Len(json) + 1)
            BY <1>4, <3>3, <3>4, <3>6
      <4>2. j_iter' = c + 1 /\ UNCHANGED <<rendering, iteration_stack, output_string>>
            BY <2>4, <2>5, <4>1 DEF skip_iter
      <4>3. Reaches(frames, iteration_stack, output_string, c + 1)
            BY <1>1, <1>2, <1>3, <2>1, <2>2, <2>5, <3>1, <3>6, ReachedSkipped
      <4>   QED  BY <1>2, <4>2, <4>3 DEF Comes
    <3>   QED  BY <1>4, <3>3, <3>5, <3>6
  <2>6. CASE Rounds(values) # 0
    <3>1. PICK iter : iter = [values |-> values, idx |-> 0, max |-> Rounds(values),
                              reset |-> j_iter + 1]
          OBVIOUS
    <3>2. \E more : Reaches(more, <<iter>> \o iteration_stack, output_string, j_iter + 1)
          BY <1>1, <1>2, <1>3, <2>1, <2>2, <2>6, <3>1, ReachedInto
    <3>   QED  BY <1>2, <2>4, <2>6, <3>1, <3>2 DEF Comes
  <2>   QED  BY <2>5, <2>6
<1>   QED  BY <1>5, <1>6

LEMMA IterEndComes == ASSUME Interpreting, iter_end PROVE Comes
<1>1. PICK frames : Reaches(frames, iteration_stack, output_string, j_iter)
      BY DEF Interpreting
<1>2. TemplateTyped /\ source \in ObjectType /\ rendering = "parse" /\ j_iter <= Len(json)
      BY DEF Interpreting
<1>3. json[j_iter].kind = "end"
      BY DEF iter_end, Here
<1>4. CASE iteration_stack = <<>>
  <2>1. ParserFails
        BY <1>4 DEF iter_end
  <2>2. ThePart = {}
        BY <1>1, <1>2, <1>3, <1>4, ReachedOutside
  <2>   QED  BY <2>1, <2>2 DEF ParserFails, Comes
<1>5. CASE iteration_stack # <<>> /\ NextRound(Head(iteration_stack))
  <2>1. /\ iteration_stack' = [iteration_stack EXCEPT ![1].idx = @ + 1]
        /\ j_iter' = Head(iteration_stack).reset /\ UNCHANGED <<rendering, output_string>>
        BY <1>5 DEF iter_end
  <2>2. \E more : Reaches(more, [iteration_stack EXCEPT ![1].idx = @ + 1], output_string,
                          Head(iteration_stack).reset)
        BY <1>1, <1>2, <1>3, <1>5, ReachedAgain
  <2>   QED  BY <1>2, <2>1, <2>2 DEF Comes
<1>6. CASE iteration_stack # <<>> /\ ~NextRound(Head(iteration_stack))
  <2>1. /\ iteration_stack' = Tail(iteration_stack) /\ j_iter' = j_iter + 1
        /\ UNCHANGED <<rendering, output_string>>
        BY <1>6 DEF iter_end
  <2>2. Reaches(frames, Tail(iteration_stack), output_string, j_iter + 1)
        BY <1>1, <1>2, <1>3, <1>6, ReachedOut
  <2>   QED  BY <1>2, <2>1, <2>2 DEF Comes
<1>   QED  BY <1>4, <1>5, <1>6

-----------------------------------------------------------------------------
\* The invariant.

HasMeaning == AsksForAll /\ PlainLoops

RenderInv ==
    /\ rendering \in {"load_template", "fetch", "parse", "verify", "rendered", "failed", "crashed"}
    /\ TemplateTyped /\ source \in ObjectType
    /\ rendering = "fetch" => scim_variables = find_variables(json) \cup HiddenAttributes
    /\ rendering \in {"load_template", "fetch"} =>
          j_iter = 1 /\ iteration_stack = <<>> /\ output_string = <<>>
    /\ rendering = "parse" /\ HasMeaning =>
          UsesAgree /\ \E frames : Reaches(frames, iteration_stack, output_string, j_iter)
    /\ rendering \in {"verify", "rendered"} /\ HasMeaning => Result(source) = {output_string}
    /\ rendering = "failed" /\ HasMeaning =>
          \/ ThePart = {}
          \/ Result(source) = {output_string} /\ (output_string = <<>> \/ ~IsJson(output_string))

LEMMA ResultIs == Result(source) = {NoTrailingCommas(s) : s \in ThePart}
BY DEF Result, ThePart, Whole

LEMMA RenderInvStart == TemplatesInit => RenderInv
<1>   SUFFICES ASSUME TemplatesInit PROVE RenderInv
      OBVIOUS
<1>1. json \in Seq(Token) /\ source \in [Attribute -> Seq(Seq(Char))]
      BY TemplateAssumption DEF TemplatesInit
<1>2. TemplateTyped /\ source \in ObjectType
      BY <1>1 DEF TemplateTyped, ObjectType, TemplateText
<1>   QED  BY <1>2 DEF TemplatesInit, RenderInv

\* What a step does not change.
LEMMA SameTemplate ==
    ASSUME json' = json, source' = source, escape_by_default' = escape_by_default
    PROVE  /\ HasMeaning' = HasMeaning /\ TemplateTyped' = TemplateTyped
           /\ (source \in ObjectType)' = (source \in ObjectType)
           /\ Closing' = Closing /\ Meaning(source)' = Meaning(source)
           /\ Result(source)' = Result(source) /\ ThePart' = ThePart
           /\ find_variables(json)' = find_variables(json)
<1>1. HasMeaning' = HasMeaning
      BY Zenon DEF HasMeaning, AsksForAll, PlainLoops, Tokens, find_variables
<1>2. TemplateTyped' = TemplateTyped /\ (source \in ObjectType)' = (source \in ObjectType)
      BY DEF TemplateTyped
<1>3. Closing' = Closing
      BY Zenon DEF Closing
<1>5. Meaning(source)' = Meaning(source)
      BY SMT, <1>3 DEF Meaning, Spelled
<1>6. Result(source)' = Result(source)
      BY <1>3, <1>5 DEF Result
<1>7. ThePart' = ThePart
      BY <1>3, <1>5 DEF ThePart
<1>8. find_variables(json)' = find_variables(json)
      BY DEF find_variables
<1>   QED  BY <1>1, <1>2, <1>3, <1>5, <1>6, <1>7, <1>8

LEMMA SameReach ==
    ASSUME json' = json, source' = source, escape_by_default' = escape_by_default
    PROVE  (\E frames : Reaches(frames, iteration_stack, output_string, j_iter))' <=>
               \E frames : Reaches(frames, iteration_stack', output_string', j_iter')
<1>1. Closing' = Closing /\ Meaning(source)' = Meaning(source)
      BY SameTemplate
<1>   QED  BY <1>1 DEF Reaches

LEMMA RenderKept ==
    ASSUME RenderInv, json' = json, source' = source, escape_by_default' = escape_by_default,
           rendering' = rendering, user' = user, scim_variables' = scim_variables, j_iter' = j_iter,
           iteration_stack' = iteration_stack, output_string' = output_string
    PROVE  RenderInv'
<1>1. /\ HasMeaning' = HasMeaning /\ TemplateTyped' = TemplateTyped
      /\ (source \in ObjectType)' = (source \in ObjectType)
      /\ Result(source)' = Result(source) /\ ThePart' = ThePart
      /\ find_variables(json)' = find_variables(json)
      BY SameTemplate
<1>2. UsesAgree' = UsesAgree
      BY DEF UsesAgree
<1>3. (\E frames : Reaches(frames, iteration_stack, output_string, j_iter))' <=>
          \E frames : Reaches(frames, iteration_stack, output_string, j_iter)
      BY SameReach
<1>   QED  BY <1>1, <1>2, <1>3 DEF RenderInv

LEMMA AskedFor ==
    ASSUME TemplateTyped, AsksForAll, NEW n \in 1..Len(json)
    PROVE  /\ json[n].kind \in {"var", "switch"} /\ ~json[n].iter =>
                 json[n].name \in find_variables(json) \cup HiddenAttributes
           /\ json[n].kind = "for" => \A a \in Range(json[n].attrs) :
                 a \in find_variables(json) \cup HiddenAttributes
<1>1. n \in DOMAIN json
      BY TemplateLength
<1>2. CASE json[n].kind = "switch" /\ ~json[n].iter
      BY <1>1, <1>2 DEF find_variables
<1>3. CASE json[n].kind = "var" /\ ~json[n].iter /\ ~json[n].bar
      BY <1>1, <1>3 DEF find_variables
<1>4. CASE json[n].kind = "var" /\ ~json[n].iter /\ json[n].bar
      BY <1>1, <1>4 DEF AsksForAll, Tokens
<1>5. CASE json[n].kind = "for"
      BY <1>1, <1>5 DEF find_variables
<1>   QED  BY <1>2, <1>3, <1>4, <1>5

LEMMA RenderInvStep == RenderInv /\ [TemplatesNext]_templateVars => RenderInv'
<1>   SUFFICES ASSUME RenderInv, [TemplatesNext]_templateVars PROVE RenderInv'
      OBVIOUS
<1>0. TemplateTyped /\ source \in ObjectType
      BY DEF RenderInv
<1>1. ASSUME json' = json, source' = source, escape_by_default' = escape_by_default
      PROVE  /\ HasMeaning' = HasMeaning /\ TemplateTyped' = TRUE /\ (source \in ObjectType)' = TRUE
             /\ Result(source)' = Result(source) /\ ThePart' = ThePart
             /\ find_variables(json)' = find_variables(json)
             /\ (\E frames : Reaches(frames, iteration_stack, output_string, j_iter))' <=>
                   \E frames : Reaches(frames, iteration_stack', output_string', j_iter')
  <2>1. /\ HasMeaning' = HasMeaning /\ TemplateTyped' = TemplateTyped
        /\ (source \in ObjectType)' = (source \in ObjectType)
        /\ Result(source)' = Result(source) /\ ThePart' = ThePart
        /\ find_variables(json)' = find_variables(json)
        BY <1>1, SameTemplate
  <2>2. (\E frames : Reaches(frames, iteration_stack, output_string, j_iter))' <=>
            \E frames : Reaches(frames, iteration_stack', output_string', j_iter')
        BY <1>1, SameReach
  <2>   QED  BY <1>0, <2>1, <2>2
<1>2. CASE load_template
  <2>1. /\ json' = json /\ source' = source /\ escape_by_default' = escape_by_default
        /\ rendering = "load_template" /\ rendering' = "fetch"
        /\ scim_variables' = find_variables(json) \cup HiddenAttributes
        /\ j_iter' = j_iter /\ iteration_stack' = iteration_stack /\ output_string' = output_string
        BY <1>2 DEF load_template
  <2>2. j_iter = 1 /\ iteration_stack = <<>> /\ output_string = <<>>
        BY <2>1 DEF RenderInv
  <2>   QED  BY <1>1, <2>1, <2>2 DEF RenderInv
<1>3. CASE Fetch
  <2>1. /\ json' = json /\ source' = source /\ escape_by_default' = escape_by_default
        /\ rendering = "fetch" /\ rendering' = "parse"
        /\ j_iter' = j_iter /\ iteration_stack' = iteration_stack /\ output_string' = output_string
        /\ \/ user' = [a \in Attribute |-> IF a \in scim_variables THEN source[a] ELSE <<>>]
           \/ user' = source
        BY <1>3 DEF Fetch
  <2>2. /\ j_iter = 1 /\ iteration_stack = <<>> /\ output_string = <<>>
        /\ scim_variables = find_variables(json) \cup HiddenAttributes
        BY <2>1 DEF RenderInv
  <2>3. \E frames : Reaches(frames, iteration_stack', output_string', j_iter')
        BY <1>0, <2>1, <2>2, ReachedFirst
  <2>4. ASSUME HasMeaning PROVE UsesAgree'
    <3>1. PICK object : object = user'
          OBVIOUS
    <3>2. \A n \in 1..Len(json) :
              /\ json[n].kind \in {"var", "switch"} /\ ~json[n].iter =>
                    object[json[n].name] = source[json[n].name]
              /\ json[n].kind = "for" => \A a \in Range(json[n].attrs) : object[a] = source[a]
      <4>1. CASE user' = source
            BY <3>1, <4>1
      <4>2. CASE user' = [a \in Attribute |-> IF a \in scim_variables THEN source[a] ELSE <<>>]
        <5>1. \A a \in Attribute : a \in find_variables(json) \cup HiddenAttributes =>
                                       object[a] = source[a]
              BY <2>2, <3>1, <4>2
        <5>2. ASSUME NEW n \in 1..Len(json), json[n].kind \in {"var", "switch"}, ~json[n].iter
              PROVE  json[n].name \in Attribute
              BY <1>0, <5>2, TemplateLength, TokenKinds
        <5>3. ASSUME NEW n \in 1..Len(json), json[n].kind = "for", NEW a \in Range(json[n].attrs)
              PROVE  a \in Attribute
          <6>1. json[n].attrs \in Seq(Attribute)
                BY <1>0, <5>3, TemplateLength, TokenKinds
          <6>   QED  BY <5>3, <6>1 DEF Range
        <5>4. ASSUME NEW n \in 1..Len(json)
              PROVE  /\ json[n].kind \in {"var", "switch"} /\ ~json[n].iter =>
                           json[n].name \in find_variables(json) \cup HiddenAttributes
                     /\ json[n].kind = "for" => \A a \in Range(json[n].attrs) :
                           a \in find_variables(json) \cup HiddenAttributes
              BY <1>0, <2>4, AskedFor DEF HasMeaning
        <5>   QED  BY <5>1, <5>2, <5>3, <5>4
      <4>   QED  BY <2>1, <4>1, <4>2
    <3>   QED  BY <2>1, <3>1, <3>2 DEF UsesAgree
  <2>   QED  BY <1>1, <2>1, <2>3, <2>4 DEF RenderInv
<1>4. CASE parse
  <2>1. /\ json' = json /\ source' = source /\ escape_by_default' = escape_by_default
        /\ user' = user /\ rendering = "parse" /\ j_iter <= Len(json)
        BY <1>4 DEF parse
  <2>2. rendering' \in {"parse", "failed", "crashed"}
        BY <1>4 DEF parse, copy_char, replacement_simple, replacement_conditional, iter_start,
                    iter_end, NoReplacement, ValueMissing, Crashes, ParserFails, Write, skip_iter
  <2>3. ASSUME HasMeaning PROVE Comes
    <3>1. Interpreting
          BY <1>0, <2>1, <2>3 DEF RenderInv, Interpreting, HasMeaning
    <3>2. \/ copy_char \/ replacement_simple \/ replacement_conditional
          \/ iter_start \/ iter_end \/ NoReplacement
          BY <1>4 DEF parse
    <3>   QED  BY <3>1, <3>2, CopyComes, SimpleComes, ConditionalComes, IterStartComes,
                  IterEndComes, NoReplacementComes
  <2>4. HasMeaning => UsesAgree'
    <3>1. UsesAgree' = UsesAgree
          BY <2>1 DEF UsesAgree
    <3>   QED  BY <2>1, <3>1 DEF RenderInv
  <2>   QED  BY <1>1, <2>1, <2>2, <2>3, <2>4 DEF RenderInv, Comes
<1>5. CASE EndOfTemplate
  <2>1. /\ json' = json /\ source' = source /\ escape_by_default' = escape_by_default
        /\ rendering = "parse" /\ j_iter > Len(json)
        BY <1>5 DEF EndOfTemplate
  <2>2. CASE iteration_stack = <<>>
    <3>1. rendering' = "verify" /\ output_string' = remove_trailing_commas(output_string)
          BY <1>5, <2>2 DEF EndOfTemplate
    <3>2. ASSUME HasMeaning PROVE Result(source) = {output_string'}
      <4>1. PICK frames : Reaches(frames, <<>>, output_string, j_iter)
            BY <2>1, <2>2, <3>2 DEF RenderInv
      <4>2. ThePart = {output_string} /\ output_string \in TemplateText
        <5>1. ThePart = {output_string}
              BY <1>0, <2>1, <4>1, ReachedOutside
        <5>2. output_string \in TemplateText
              BY <1>0, <4>1, ReachedTypes
        <5>   QED  BY <5>1, <5>2
      <4>3. Result(source) = {NoTrailingCommas(output_string)}
            BY <4>2, ResultIs
      <4>   QED  BY <3>1, <4>2, <4>3, CommasRemoved
    <3>   QED  BY <1>1, <2>1, <3>1, <3>2 DEF RenderInv
  <2>3. CASE iteration_stack # <<>>
    <3>1. rendering' = "failed"
          BY <1>5, <2>3 DEF EndOfTemplate, ParserFails
    <3>2. ASSUME HasMeaning PROVE ThePart = {}
      <4>1. PICK frames : Reaches(frames, iteration_stack, output_string, j_iter)
            BY <2>1, <3>2 DEF RenderInv
      <4>   QED  BY <1>0, <2>1, <2>3, <4>1, ReachedUnclosed
    <3>   QED  BY <1>1, <2>1, <3>1, <3>2 DEF RenderInv
  <2>   QED  BY <2>2, <2>3
<1>6. CASE verify_json
  <2>1. /\ json' = json /\ source' = source /\ escape_by_default' = escape_by_default
        /\ rendering = "verify" /\ output_string' = output_string
        /\ \/ rendering' = "rendered"
           \/ rendering' = "failed" /\ (output_string = <<>> \/ ~IsJson(output_string))
        BY <1>6 DEF verify_json
  <2>2. HasMeaning => Result(source) = {output_string}
        BY <2>1 DEF RenderInv
  <2>   QED  BY <1>1, <2>1, <2>2 DEF RenderInv
<1>7. CASE UNCHANGED templateVars
      BY <1>7, RenderKept DEF templateVars
<1>   QED  BY <1>2, <1>3, <1>4, <1>5, <1>6, <1>7 DEF TemplatesNext

\* What is rendered is what the template means for the object in the data
\* source, and rendering fails where it means nothing (scim_json_parser,
\* load_template, remove_trailing_commas): for templates of any length with
\* loops nested to any depth, and for any objects.
THEOREM RenderedIsMeant == TemplatesSpec => []RenderedAsMeant
<1>1. RenderInv => RenderedAsMeant
  <2>   SUFFICES ASSUME RenderInv, HasMeaning PROVE RenderedAsMeant
        BY DEF RenderedAsMeant, HasMeaning
  <2>1. rendering \in {"verify", "rendered"} => Result(source) = {output_string}
        BY DEF RenderInv
  <2>2. ASSUME rendering = "failed", NEW result \in Result(source), result # <<>>, IsJson(result)
        PROVE  FALSE
    <3>1. CASE ThePart = {}
          BY <2>2, <3>1, ResultIs
    <3>2. CASE Result(source) = {output_string} /\ (output_string = <<>> \/ ~IsJson(output_string))
          BY <2>2, <3>2
    <3>   QED  BY <2>2, <3>1, <3>2 DEF RenderInv
  <2>   QED  BY <2>1, <2>2 DEF RenderedAsMeant
<1>   QED  BY <1>1, RenderInvStart, RenderInvStep, PTL DEF TemplatesSpec
=============================================================================
