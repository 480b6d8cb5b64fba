--------------------------- MODULE TextFileProofs ---------------------------
(***************************************************************************)
(* What is read of a text file is what was written, for every file.        *)
(*                                                                         *)
(* Configuration files (SettingsAsWritten): from each place the grammar    *)
(* gives a file at most one value, one assignment and one line, and these  *)
(* are the parser's (ValueIs, AssignmentIs, LineIs).  What a file says is  *)
(* a recursion from its end (MeaningsExist, RestIs); the invariant is      *)
(* SettingsSoFar.                                                          *)
(*                                                                         *)
(* CSV files (RowsAsWritten): the file is taken apart into texts at        *)
(* places: a character of a quoted field, a field, a record, a table.      *)
(* FieldIsRead and FieldIsWritten say of one field that its text is read   *)
(* as it, and that what is read as it is its text; two invariants carry    *)
(* that on to the file, FileSoFar (what has been read so far is what the   *)
(* file begins with) and TableIsRead (of a file that is a writing of a     *)
(* table, no other rows are read and no record is refused).  A mark before *)
(* a quote ends the reading (MarkIsRefused).                               *)
(***************************************************************************)
EXTENDS ConfigFile, CsvFile, FoldLemmas

-----------------------------------------------------------------------------
\* Places in a configuration file.

ConfigText == Seq(ConfigChar)

LEMMA PastIs ==
    ASSUME input \in ConfigText, NEW n \in 1..Len(input) + 1, NEW chars
    PROVE  /\ Past(n, chars) \in n..Len(input) + 1
           /\ Only(n, Past(n, chars), chars)
           /\ AtEnd(Past(n, chars)) \/ ~At(Past(n, chars), chars)
<1>   DEFINE s == {m \in n..Len(input) + 1 : m > Len(input) \/ input[m] \notin chars}
<1>1. Len(input) \in Nat
      BY DEF ConfigText
<1>2. s \in SUBSET Nat /\ Len(input) + 1 \in s
      BY <1>1
<1>3. Min(s) \in s /\ \A k \in s : Min(s) <= k
      BY <1>2, MinOf
<1>4. ASSUME NEW k \in n..Min(s) - 1 PROVE input[k] \in chars
      BY <1>1, <1>3, <1>4
<1>   QED  BY <1>1, <1>3, <1>4 DEF Past, Only, At, AtEnd

LEMMA PastOnly ==
    ASSUME input \in ConfigText, NEW n \in 1..Len(input) + 1, NEW chars,
           NEW q \in n..Len(input) + 1, Only(n, q, chars), ~At(q, chars)
    PROVE  Past(n, chars) = q
<1>   DEFINE s == {m \in n..Len(input) + 1 : m > Len(input) \/ input[m] \notin chars}
<1>1. Len(input) \in Nat
      BY DEF ConfigText
<1>2. s \in SUBSET Nat /\ q \in s
      BY <1>1 DEF At
<1>3. ASSUME NEW m \in s PROVE q <= m
      BY <1>1, <1>3 DEF Only
<1>4. Min(s) = q
      BY <1>2, <1>3, MinIs
<1>   QED  BY <1>4 DEF Past

\* Where a line can end, and where a value that is not closed does.
EndsLine(n) == AtEnd(n) \/ At(n, LineEnd)
StopsValue(n) == AtEnd(n) \/ At(n, LineEnd \cup {"#"})

LEMMA CharIs ==
    ASSUME input \in ConfigText, NEW n \in 1..Len(input)
    PROVE  input[n] \in ConfigChar
BY DEF ConfigText

LEMMA EndIsNotText ==
    ASSUME input \in ConfigText, NEW n \in Nat, StopsValue(n)
    PROVE  ~At(n, VarId) /\ ~At(n, Blank) /\ ~At(n, {"<"}) /\ ~At(n, {"?"}) /\ ~At(n, {"="})
           /\ ~At(n, ConfigChar \ (LineEnd \cup {"#"}))
<1>1. Len(input) \in Nat
      BY DEF ConfigText
<1>   QED  BY <1>1 DEF StopsValue, AtEnd, At, VarId, Blank, LineEnd

LEMMA CommentPlace ==
    ASSUME input \in ConfigText, NEW c \in 1..Len(input) + 1
    PROVE  rule_comment(c) \in c..Len(input) + 1
BY PastIs DEF rule_comment, ConfigText

\* A comment goes up to the end of its line.
LEMMA CommentIs ==
    ASSUME input \in ConfigText, NEW c \in 1..Len(input) + 1, NEW n \in c..Len(input) + 1, EndsLine(n)
    PROVE  IsComment(c, n) <=> n = rule_comment(c)
<1>1. Len(input) \in Nat
      BY DEF ConfigText
<1>2. CASE At(c, {"#"})
  <2>1. input[c] = "#" /\ c \in 1..Len(input)
        BY <1>1, <1>2 DEF At
  <2>2. n # c
        BY <2>1 DEF EndsLine, AtEnd, At, LineEnd
  <2>3. Only(c + 1, n, ConfigChar \ LineEnd) <=> Only(c, n, ConfigChar \ LineEnd)
        BY <1>1, <2>1, <2>2 DEF Only, ConfigChar, LineEnd
  <2>4. ~At(n, ConfigChar \ LineEnd)
        BY DEF EndsLine, AtEnd, At
  <2>5. rule_comment(c) = Past(c, ConfigChar \ LineEnd)
        BY <1>2 DEF rule_comment
  <2>6. Only(c, n, ConfigChar \ LineEnd) <=> n = rule_comment(c)
        BY <2>4, <2>5, PastOnly, PastIs
  <2>   QED  BY <2>1, <2>2, <2>3, <2>6 DEF IsComment
<1>3. CASE ~At(c, {"#"})
  <2>1. n = c \/ input[c] # "#"
        BY <1>1, <1>3 DEF At
  <2>   QED  BY <1>3, <2>1 DEF IsComment, rule_comment
<1>   QED  BY <1>2, <1>3

LEMMA CommentStops ==
    ASSUME input \in ConfigText, NEW c \in 1..Len(input) + 1, NEW n \in c..Len(input) + 1,
           EndsLine(n),
           IsComment(c, n)
    PROVE  StopsValue(c)
<1>1. Len(input) \in Nat
      BY DEF ConfigText
<1>2. CASE c = n
      BY <1>2 DEF EndsLine, StopsValue, At
<1>3. CASE c # n
      BY <1>1, <1>3 DEF IsComment, StopsValue, At
<1>   QED  BY <1>2, <1>3

\* The places of a line after its blanks.
LEMMA BlanksAre ==
    ASSUME input \in ConfigText, NEW m \in 1..Len(input) + 1, NEW c \in m..Len(input) + 1,
           ~At(c, Blank)
    PROVE  Only(m, c, Blank) <=> c = Past(m, Blank)
BY PastOnly, PastIs

-----------------------------------------------------------------------------
\* Values.

White == Blank \cup LineEnd

LEMMA TrimmedIs ==
    ASSUME NEW text \in ConfigText, NEW k \in 0..Len(text),
           \A n \in k + 1..Len(text) : text[n] \in White, k > 0 => text[k] \notin White
    PROVE  Trimmed(text) = SubSeq(text, 1, k)
<1>   DEFINE kept == {n \in DOMAIN text : text[n] \notin White}
<1>1. Len(text) \in Nat /\ DOMAIN text = 1..Len(text)
      BY DEF ConfigText
<1>2. CASE k = 0
  <2>1. kept = {} /\ SubSeq(text, 1, k) = <<>>
        BY <1>1, <1>2 DEF ConfigText
  <2>   QED  BY <2>1 DEF Trimmed, White
<1>3. CASE k > 0
  <2>1. kept \in SUBSET (1..Len(text)) /\ k \in kept /\ \A m \in kept : m <= k
        BY <1>1, <1>3
  <2>2. Max(kept) = k
        BY <1>1, <2>1, MaxIs
  <2>   QED  BY <2>1, <2>2 DEF Trimmed, White
<1>   QED  BY <1>1, <1>2, <1>3

LEMMA TrimmedAt ==
    ASSUME NEW text \in ConfigText
    PROVE  \E k \in 0..Len(text) :
              (\A n \in k + 1..Len(text) : text[n] \in White) /\ (k > 0 => text[k] \notin White)
<1>   DEFINE kept == {n \in 1..Len(text) : text[n] \notin White}
<1>1. Len(text) \in Nat
      BY DEF ConfigText
<1>2. CASE kept = {}
      BY <1>1, <1>2
<1>3. CASE kept # {}
  <2>1. Max(kept) \in kept /\ \A k \in kept : k <= Max(kept)
        BY <1>1, <1>3, MaxOf
  <2>2. PICK k : k = Max(kept)
        OBVIOUS
  <2>3. k \in 0..Len(text) /\ k > 0 /\ text[k] \notin White
        BY <1>1, <2>1, <2>2
  <2>4. ASSUME NEW n \in k + 1..Len(text) PROVE text[n] \in White
        BY <1>1, <2>1, <2>2, <2>3, <2>4
  <2>   QED  BY <2>3, <2>4
<1>   QED  BY <1>2, <1>3

\* A part of the file.
LEMMA PartIs ==
    ASSUME input \in ConfigText, NEW m \in 1..Len(input) + 1, NEW n \in m..Len(input) + 1
    PROVE  /\ SubSeq(input, m, n - 1) \in ConfigText
           /\ Len(SubSeq(input, m, n - 1)) = n - m
           /\ \A k \in 1..n - m : SubSeq(input, m, n - 1)[k] = input[m + k - 1]
<1>1. Len(input) \in Nat
      BY DEF ConfigText
<1>   QED  BY <1>1 DEF ConfigText

LEMMA PartOfPart ==
    ASSUME input \in ConfigText, NEW m \in 1..Len(input) + 1, NEW n \in m..Len(input) + 1,
           NEW k \in 0..n - m
    PROVE  SubSeq(SubSeq(input, m, n - 1), 1, k) = SubSeq(input, m, m + k - 1)
<1>1. PICK part : part = SubSeq(input, m, n - 1)
      OBVIOUS
<1>2. /\ part \in ConfigText /\ Len(part) = n - m /\ Len(input) \in Nat
      /\ \A x \in 1..n - m : part[x] = input[m + x - 1]
      BY <1>1, PartIs DEF ConfigText
<1>3. PICK a, b : a = SubSeq(part, 1, k) /\ b = SubSeq(input, m, m + k - 1)
      OBVIOUS
<1>4. a \in ConfigText /\ Len(a) = k /\ \A x \in 1..k : a[x] = part[x]
      BY <1>2, <1>3 DEF ConfigText
<1>5. b \in ConfigText /\ Len(b) = k /\ \A x \in 1..k : b[x] = input[m + x - 1]
  <2>1. PICK e : e = m + k
        OBVIOUS
  <2>2. e \in m..Len(input) + 1 /\ e - 1 = m + k - 1 /\ e - m = k
        BY <1>2, <2>1
  <2>3. b = SubSeq(input, m, e - 1)
        BY <1>3, <2>2
  <2>4. e \in m..Len(input) + 1
        BY <2>2
  <2>5. /\ SubSeq(input, m, e - 1) \in ConfigText
        /\ Len(SubSeq(input, m, e - 1)) = e - m
        /\ \A x \in 1..e - m : SubSeq(input, m, e - 1)[x] = input[m + x - 1]
        BY <2>4, PartIs, Zenon
  <2>   QED  BY <2>2, <2>3, <2>5
<1>6. \A x \in 1..k : a[x] = b[x]
      BY <1>2, <1>4, <1>5
<1>7. a = b
      BY <1>4, <1>5, <1>6 DEF ConfigText
<1>   QED  BY <1>1, <1>3, <1>7

OpensValue(s) == At(s, {"<"}) /\ At(s + 1, {"?"})
ClosesAt(j) == input[j] = "?" /\ input[j + 1] = ">"

\* A value in one line, from place s to c, is there up to its last character that
\* is not blank.
LEMMA SingleIs ==
    ASSUME input \in ConfigText, NEW s \in 1..Len(input) + 1, NEW c \in s..Len(input) + 1,
           StopsValue(c), ~OpensValue(s), NEW i \in {s, s + 2}, NEW j \in s..c
    PROVE  IsValue(s, c, i, j) <=>
              /\ i = s /\ c = SingleLine(s).next
              /\ Only(j, c, Blank) /\ (j > s => input[j - 1] \notin Blank)
<1>1. Len(input) \in Nat
      BY DEF ConfigText
<1>2. ~(s + 1 < c /\ input[s] = "<" /\ input[s + 1] = "?")
      BY <1>1 DEF OpensValue, At
<1>3. IsValue(s, c, i, j) <=>
          /\ i = s /\ Only(s, c, ConfigChar \ (LineEnd \cup {"#"}))
          /\ Only(j, c, Blank) /\ (j > s => input[j - 1] \notin Blank)
      BY <1>2 DEF IsValue, OpensValue
<1>4. ~At(c, ConfigChar \ (LineEnd \cup {"#"}))
  <2>1. c \in Nat
        BY <1>1
  <2>   QED  BY <2>1, EndIsNotText
<1>5. Only(s, c, ConfigChar \ (LineEnd \cup {"#"})) <=> c = SingleLine(s).next
      BY <1>4, PastOnly, PastIs DEF SingleLine
<1>   QED  BY <1>3, <1>5

LEMMA SingleText ==
    ASSUME input \in ConfigText, NEW s \in 1..Len(input) + 1, NEW c \in s..Len(input) + 1,
           c = SingleLine(s).next, NEW j \in s..c, Only(j, c, Blank),
           j > s => input[j - 1] \notin Blank
    PROVE  SingleLine(s).value = SubSeq(input, s, j - 1)
<1>1. Len(input) \in Nat
      BY DEF ConfigText
<1>2. PICK text : text = SubSeq(input, s, c - 1)
      OBVIOUS
<1>3. /\ text \in ConfigText /\ Len(text) = c - s
      /\ \A k \in 1..c - s : text[k] = input[s + k - 1]
      BY <1>2, PartIs
<1>4. Only(s, c, ConfigChar \ (LineEnd \cup {"#"}))
      BY PastIs DEF SingleLine
<1>5. j - s \in 0..Len(text)
      BY <1>1, <1>3
<1>6. ASSUME NEW n \in (j - s) + 1..Len(text) PROVE text[n] \in White
  <2>1. s + n - 1 \in j..c - 1 /\ n \in 1..c - s
        BY <1>1, <1>3
  <2>   QED  BY <1>3, <2>1 DEF Only, White
<1>7. j - s > 0 => text[j - s] \notin White
  <2>1. SUFFICES ASSUME j - s > 0 PROVE text[j - s] \notin White
        OBVIOUS
  <2>2. j - 1 \in s..c - 1 /\ j - s \in 1..c - s /\ s + (j - s) - 1 = j - 1 /\ j > s
        BY <1>1, <2>1
  <2>3. text[j - s] = input[j - 1]
        BY <1>3, <2>2
  <2>4. input[j - 1] \notin LineEnd /\ input[j - 1] \notin Blank
        BY <1>4, <2>2 DEF Only
  <2>   QED  BY <2>3, <2>4 DEF White
<1>8. Trimmed(text) = SubSeq(text, 1, j - s)
      BY <1>3, <1>5, <1>6, <1>7, TrimmedIs
<1>9. SubSeq(text, 1, j - s) = SubSeq(input, s, j - 1)
  <2>1. j - s \in 0..c - s /\ s + (j - s) - 1 = j - 1
        BY <1>1
  <2>   QED  BY <1>2, <2>1, PartOfPart
<1>   QED  BY <1>2, <1>8, <1>9 DEF SingleLine

LEMMA SingleEnd ==
    ASSUME input \in ConfigText, NEW s \in 1..Len(input) + 1
    PROVE  LET c == SingleLine(s).next
           IN  /\ c \in s..Len(input) + 1 /\ StopsValue(c)
               /\ \E j \in s..c : Only(j, c, Blank) /\ (j > s => input[j - 1] \notin Blank)
<1>   DEFINE c == SingleLine(s).next
<1>1. Len(input) \in Nat
      BY DEF ConfigText
<1>2. c \in s..Len(input) + 1 /\ Only(s, c, ConfigChar \ (LineEnd \cup {"#"}))
      /\ (AtEnd(c) \/ ~At(c, ConfigChar \ (LineEnd \cup {"#"})))
      BY PastIs DEF SingleLine
<1>3. StopsValue(c)
      BY <1>1, <1>2, CharIs DEF StopsValue, AtEnd, At
<1>4. PICK text : text = SubSeq(input, s, c - 1)
      OBVIOUS
<1>   HIDE DEF c
<1>5. /\ text \in ConfigText /\ Len(text) = c - s
      /\ \A k \in 1..c - s : text[k] = input[s + k - 1]
      BY <1>2, <1>4, PartIs
<1>6. PICK k \in 0..Len(text) :
          (\A n \in k + 1..Len(text) : text[n] \in White) /\ (k > 0 => text[k] \notin White)
      BY <1>5, TrimmedAt
<1>7. s + k \in s..c /\ k \in Nat
      BY <1>1, <1>2, <1>5
<1>8. ASSUME NEW n \in s + k..c - 1 PROVE input[n] \in Blank
  <2>1. n - s + 1 \in k + 1..Len(text) /\ n - s + 1 \in 1..c - s /\ s + (n - s + 1) - 1 = n
        BY <1>1, <1>2, <1>5, <1>6, <1>7
  <2>2. input[n] \in White
        BY <1>5, <1>6, <2>1
  <2>3. input[n] \notin LineEnd
    <3>1. n \in s..c - 1
          BY <1>1, <1>2, <1>7
    <3>   QED  BY <1>2, <3>1 DEF Only
  <2>   QED  BY <2>2, <2>3 DEF White
<1>9. s + k > s => input[s + k - 1] \notin Blank
  <2>1. SUFFICES ASSUME s + k > s PROVE input[s + k - 1] \notin Blank
        OBVIOUS
  <2>2. k > 0 /\ k \in 1..c - s
        BY <1>1, <1>2, <1>5, <1>6, <2>1
  <2>   QED  BY <1>5, <1>6, <2>2 DEF White
<1>10. Only(s + k, c, Blank)
       BY <1>8 DEF Only
<1>   QED  BY <1>2, <1>3, <1>7, <1>9, <1>10 DEF c

CloseOf(s) == Min({m \in s + 2..Len(input) - 1 : ClosesAt(m)})

\* A value between <? and ?>, from place s to c, is closed by the first ?> there is.
LEMMA MultiIs ==
    ASSUME input \in ConfigText, NEW s \in 1..Len(input) + 1, NEW c \in s..Len(input) + 1,
           StopsValue(c), OpensValue(s), NEW i \in {s, s + 2}, NEW j \in s..c
    PROVE  /\ IsValue(s, c, i, j) =>
                 /\ i = s + 2 /\ MultiLine(s).ok /\ c = MultiLine(s).next
                 /\ MultiLine(s).value = SubSeq(input, i, j - 1) /\ j = CloseOf(s)
           /\ i = s + 2 /\ MultiLine(s).ok /\ c = MultiLine(s).next /\ j = CloseOf(s) =>
                 IsValue(s, c, i, j)
<1>   DEFINE closing == {m \in s + 2..Len(input) - 1 : ClosesAt(m)}
<1>1. Len(input) \in Nat /\ s \in Nat /\ c \in Nat /\ s + 1 \in Nat
      BY DEF ConfigText
<1>2. ~At(c, {"<"}) /\ ~At(c, {"?"}) /\ ~At(c, Blank)
      BY <1>1, EndIsNotText
<1>3. s + 1 <= Len(input) /\ input[s] = "<" /\ input[s + 1] = "?"
      BY <1>1 DEF OpensValue, At
<1>4. c # s /\ c # s + 1
      BY <1>2 DEF OpensValue
<1>5. s + 1 < c
      BY <1>1, <1>4
<1>6. IsValue(s, c, i, j) <=>
          /\ i = s + 2 /\ j >= i /\ j + 1 < c /\ ClosesAt(j)
          /\ \A k \in i..j - 1 : ~(k + 1 < c /\ ClosesAt(k))
          /\ Only(j + 2, c, Blank)
      BY <1>3, <1>5 DEF IsValue, ClosesAt
<1>7. ASSUME IsValue(s, c, i, j)
      PROVE  /\ i = s + 2 /\ closing # {} /\ j = Min(closing) /\ j + 2 <= c /\ Only(j + 2, c, Blank)
  <2>1. /\ i = s + 2 /\ j >= i /\ j + 1 < c /\ ClosesAt(j)
        /\ \A k \in i..j - 1 : ~(k + 1 < c /\ ClosesAt(k))
        /\ Only(j + 2, c, Blank)
        BY <1>6, <1>7
  <2>2. j \in closing /\ closing \in SUBSET Nat
        BY <1>1, <2>1
  <2>3. ASSUME NEW m \in closing PROVE j <= m
        BY <1>1, <2>1, <2>3
  <2>4. Min(closing) = j
        BY <2>2, <2>3, MinIs
  <2>   QED  BY <1>1, <2>1, <2>2, <2>4
<1>8. ASSUME i = s + 2, closing # {}, j = Min(closing), j + 2 <= c, Only(j + 2, c, Blank)
      PROVE  IsValue(s, c, i, j)
  <2>1. closing \in SUBSET Nat
        BY <1>1
  <2>2. j \in closing /\ \A m \in closing : j <= m
        BY <1>8, <2>1, MinOf
  <2>3. j >= i /\ j + 1 < c /\ ClosesAt(j)
        BY <1>1, <1>8, <2>2
  <2>4. ASSUME NEW k \in i..j - 1, k + 1 < c, ClosesAt(k) PROVE FALSE
    <3>1. k \in closing /\ ~(j <= k)
          BY <1>1, <1>8, <2>2, <2>4
    <3>   QED  BY <2>2, <3>1
  <2>   QED  BY <1>6, <1>8, <2>3, <2>4
<1>9. closing # {} => Min(closing) \in s + 2..Len(input) - 1
  <2>1. closing \in SUBSET Nat
        BY <1>1
  <2>   QED  BY <2>1, MinOf
<1>10. ASSUME closing # {}, j = Min(closing)
       PROVE  j + 2 <= c /\ Only(j + 2, c, Blank) <=> c = Past(j + 2, Blank)
  <2>1. j + 2 \in 1..Len(input) + 1
        BY <1>1, <1>9, <1>10
  <2>2. c = Past(j + 2, Blank) => j + 2 <= c /\ Only(j + 2, c, Blank)
        BY <1>1, <2>1, PastIs
  <2>3. j + 2 <= c => c \in j + 2..Len(input) + 1
        BY <1>1, <2>1
  <2>   QED  BY <1>2, <2>1, <2>2, <2>3, PastOnly
<1>11. PICK end, p, text : /\ end = Min(closing) /\ p = Past(Min(closing) + 2, Blank)
                           /\ text = SubSeq(input, s + 2, Min(closing) - 1)
       OBVIOUS
<1>12. MultiLine(s) = IF closing = {} THEN Failed ELSE [ok |-> TRUE, value |-> text, next |-> p]
       BY <1>11 DEF MultiLine, ClosesAt
<1>   HIDE DEF closing
<1>13. closing = {} => ~MultiLine(s).ok
       BY <1>12 DEF Failed
<1>14. closing # {} => MultiLine(s).ok /\ MultiLine(s).value = text /\ MultiLine(s).next = p
       BY <1>12
<1>15. ASSUME IsValue(s, c, i, j)
       PROVE  /\ i = s + 2 /\ MultiLine(s).ok /\ c = MultiLine(s).next
              /\ MultiLine(s).value = SubSeq(input, i, j - 1) /\ j = end
  <2>1. i = s + 2 /\ closing # {} /\ j = end /\ j + 2 <= c /\ Only(j + 2, c, Blank)
        BY <1>7, <1>11, <1>15
  <2>2. c = p
        BY <1>10, <1>11, <2>1
  <2>   QED  BY <1>11, <1>14, <2>1, <2>2
<1>16. ASSUME i = s + 2, MultiLine(s).ok, c = MultiLine(s).next, j = end
       PROVE  IsValue(s, c, i, j)
  <2>1. closing # {} /\ c = p
        BY <1>13, <1>14, <1>16
  <2>   QED  BY <1>8, <1>10, <1>11, <1>16, <2>1
<1>   QED  BY <1>11, <1>15, <1>16 DEF closing, CloseOf

LEMMA MultiEnd ==
    ASSUME input \in ConfigText, NEW s \in 1..Len(input) + 1, MultiLine(s).ok
    PROVE  /\ MultiLine(s).next \in s..Len(input) + 1 /\ CloseOf(s) \in s..MultiLine(s).next
           /\ MultiLine(s).value = SubSeq(input, s + 2, CloseOf(s) - 1)
<1>   DEFINE closing == {m \in s + 2..Len(input) - 1 : ClosesAt(m)}
<1>1. Len(input) \in Nat
      BY DEF ConfigText
<1>2. closing # {} /\ MultiLine(s).next = Past(Min(closing) + 2, Blank)
      /\ MultiLine(s).value = SubSeq(input, s + 2, Min(closing) - 1)
      BY DEF MultiLine, ClosesAt, Failed
<1>3. closing \in SUBSET Nat
      BY <1>1
<1>4. Min(closing) \in s + 2..Len(input) - 1
      BY <1>2, <1>3, MinOf
<1>5. PICK p : p = Min(closing)
      OBVIOUS
<1>6. p + 2 \in 1..Len(input) + 1 /\ p \in s + 2..Len(input) - 1
      BY <1>1, <1>4, <1>5
<1>7. Past(p + 2, Blank) \in p + 2..Len(input) + 1
      BY <1>6, PastIs
<1>   QED  BY <1>1, <1>2, <1>5, <1>6, <1>7 DEF CloseOf

\* What the parser takes for the value that starts at place s.
ValueAt(s) == IF AtEnd(s) THEN [ok |-> TRUE, value |-> <<>>, next |-> s] ELSE rule_value(s)

LEMMA ValueOfLine ==
    ASSUME input \in ConfigText, NEW s \in 1..Len(input) + 1, ~OpensValue(s)
    PROVE  ValueAt(s) = SingleLine(s)
<1>1. Len(input) \in Nat
      BY DEF ConfigText
<1>2. CASE ~AtEnd(s)
      BY <1>2 DEF ValueAt, rule_value, OpensValue
<1>3. CASE AtEnd(s)
  <2>1. s = Len(input) + 1
        BY <1>1, <1>3 DEF AtEnd
  <2>2. SingleLine(s).next = s
    <3>1. SingleLine(s).next \in s..Len(input) + 1
          BY PastIs DEF SingleLine
    <3>   QED  BY <1>1, <2>1, <3>1
  <2>3. Only(s, s, Blank)
        BY <1>1 DEF Only
  <2>4. SingleLine(s).value = SubSeq(input, s, s - 1)
    <3>1. s \in s..Len(input) + 1 /\ s \in s..s /\ ~(s > s)
          BY <1>1
    <3>   QED  BY <2>2, <2>3, <3>1, SingleText
  <2>5. SubSeq(input, s, s - 1) = <<>>
        BY <1>1 DEF ConfigText
  <2>6. SingleLine(s) = [ok |-> TRUE, value |-> <<>>, next |-> s]
        BY <2>2, <2>4, <2>5 DEF SingleLine
  <2>   QED  BY <1>3, <2>6 DEF ValueAt
<1>   QED  BY <1>2, <1>3

\* It is a value of the grammar, and the only one.
LEMMA ValueIs ==
    ASSUME input \in ConfigText, NEW s \in 1..Len(input) + 1, NEW c \in s..Len(input) + 1,
           StopsValue(c)
    PROVE  /\ \A i \in {s, s + 2}, j \in s..c : IsValue(s, c, i, j) =>
                 /\ ValueAt(s).ok /\ c = ValueAt(s).next
                 /\ SubSeq(input, i, j - 1) = ValueAt(s).value
           /\ ValueAt(s).ok /\ c = ValueAt(s).next =>
                 \E i \in {s, s + 2}, j \in s..c : IsValue(s, c, i, j)
<1>1. CASE OpensValue(s)
  <2>1. ValueAt(s) = MultiLine(s)
        BY <1>1 DEF ValueAt, rule_value, OpensValue, AtEnd, At
  <2>2. ASSUME NEW i \in {s, s + 2}, NEW j \in s..c, IsValue(s, c, i, j)
        PROVE  /\ ValueAt(s).ok /\ c = ValueAt(s).next
               /\ SubSeq(input, i, j - 1) = ValueAt(s).value
    <3>1. /\ MultiLine(s).ok /\ c = MultiLine(s).next
          /\ MultiLine(s).value = SubSeq(input, i, j - 1)
          BY <1>1, <2>2, MultiIs
    <3>   QED  BY <2>1, <3>1, Zenon
  <2>3. ASSUME MultiLine(s).ok, c = MultiLine(s).next
        PROVE  \E i \in {s, s + 2}, j \in s..c : IsValue(s, c, i, j)
    <3>1. PICK j : j = CloseOf(s)
          OBVIOUS
    <3>2. j \in s..c
          BY <2>3, <3>1, MultiEnd
    <3>3. s + 2 \in {s, s + 2} /\ MultiLine(s).value = SubSeq(input, s + 2, j - 1)
          BY <2>3, <3>1, MultiEnd
    <3>4. IsValue(s, c, s + 2, j)
          BY <1>1, <2>3, <3>1, <3>2, <3>3, MultiIs
    <3>   QED  BY <3>2, <3>3, <3>4
  <2>   QED  BY <2>1, <2>2, <2>3
<1>2. CASE ~OpensValue(s)
  <2>1. ValueAt(s) = SingleLine(s) /\ SingleLine(s).ok
        BY <1>2, ValueOfLine DEF SingleLine
  <2>2. ASSUME NEW i \in {s, s + 2}, NEW j \in s..c, IsValue(s, c, i, j)
        PROVE  /\ ValueAt(s).ok /\ c = ValueAt(s).next
               /\ SubSeq(input, i, j - 1) = ValueAt(s).value
    <3>1. i = s /\ c = SingleLine(s).next /\ Only(j, c, Blank) /\ (j > s => input[j - 1] \notin Blank)
          BY <1>2, <2>2, SingleIs
    <3>2. SingleLine(s).value = SubSeq(input, s, j - 1)
          BY <3>1, SingleText
    <3>   QED  BY <2>1, <3>1, <3>2
  <2>3. ASSUME c = SingleLine(s).next
        PROVE  \E i \in {s, s + 2}, j \in s..c : IsValue(s, c, i, j)
    <3>1. PICK j \in s..c : Only(j, c, Blank) /\ (j > s => input[j - 1] \notin Blank)
          BY <2>3, SingleEnd
    <3>2. s \in {s, s + 2}
          OBVIOUS
    <3>3. IsValue(s, c, s, j)
          BY <1>2, <2>3, <3>1, <3>2, SingleIs
    <3>   QED  BY <3>2, <3>3
  <2>   QED  BY <2>1, <2>2, <2>3
<1>   QED  BY <1>1, <1>2

LEMMA ValueEnd ==
    ASSUME input \in ConfigText, NEW s \in 1..Len(input) + 1, ValueAt(s).ok
    PROVE  ValueAt(s).next \in s..Len(input) + 1
<1>1. CASE OpensValue(s)
  <2>1. ValueAt(s) = MultiLine(s)
        BY <1>1 DEF ValueAt, rule_value, OpensValue, AtEnd, At
  <2>   QED  BY <2>1, MultiEnd
<1>2. CASE ~OpensValue(s)
      BY <1>2, ValueOfLine, SingleEnd
<1>   QED  BY <1>1, <1>2

-----------------------------------------------------------------------------
\* Assignments and lines.

LEMMA AssignedIs ==
    ASSUME input \in ConfigText, NEW a \in 1..Len(input) + 1
    PROVE  LET e == Past(Past(a, VarId), Blank)
           IN  rule_assign(a) = IF ~At(e, {"="}) THEN Failed ELSE ValueAt(Past(e + 1, Blank))
BY DEF rule_assign, ValueAt

\* The places of the parts of an assignment, from place a on.
LEMMA AssignmentPlaces ==
    ASSUME input \in ConfigText, NEW a \in 1..Len(input) + 1, At(a, VarId), rule_assign(a).ok
    PROVE  \E v, e, s :
              /\ v = Past(a, VarId) /\ v \in a + 1..Len(input) + 1
              /\ e = Past(v, Blank) /\ e \in v..Len(input) /\ input[e] = "="
              /\ s = Past(e + 1, Blank) /\ s \in e + 1..Len(input) + 1
              /\ rule_assign(a) = ValueAt(s)
<1>1. Len(input) \in Nat
      BY DEF ConfigText
<1>2. PICK v : v = Past(a, VarId)
      OBVIOUS
<1>3. v \in a..Len(input) + 1 /\ (AtEnd(v) \/ ~At(v, VarId))
      BY <1>2, PastIs
<1>4. v # a
      BY <1>1, <1>3 DEF AtEnd, At
<1>5. v \in a + 1..Len(input) + 1 /\ v \in 1..Len(input) + 1
      BY <1>1, <1>3, <1>4
<1>6. PICK e : e = Past(v, Blank)
      OBVIOUS
<1>7. e \in v..Len(input) + 1
      BY <1>5, <1>6, PastIs
<1>8. rule_assign(a) = IF ~At(e, {"="}) THEN Failed ELSE ValueAt(Past(e + 1, Blank))
      BY <1>2, <1>6, AssignedIs
<1>9. At(e, {"="}) /\ rule_assign(a) = ValueAt(Past(e + 1, Blank))
  <2>1. Failed.ok = FALSE
        BY DEF Failed
  <2>   QED  BY <1>8, <2>1
<1>10. e \in v..Len(input) /\ input[e] = "=" /\ e + 1 \in 1..Len(input) + 1
       BY <1>1, <1>5, <1>7, <1>9 DEF At
<1>11. Past(e + 1, Blank) \in e + 1..Len(input) + 1
       BY <1>10, PastIs
<1>   QED  BY <1>2, <1>5, <1>6, <1>9, <1>10, <1>11

LEMMA AssignedEnd ==
    ASSUME input \in ConfigText, NEW a \in 1..Len(input) + 1, At(a, VarId), rule_assign(a).ok
    PROVE  rule_assign(a).next \in a + 1..Len(input) + 1
<1>1. Len(input) \in Nat
      BY DEF ConfigText
<1>2. PICK v, e, s :
          /\ v \in a + 1..Len(input) + 1 /\ e \in v..Len(input)
          /\ s \in e + 1..Len(input) + 1 /\ rule_assign(a) = ValueAt(s)
      BY AssignmentPlaces
<1>3. s \in 1..Len(input) + 1
      BY <1>1, <1>2
<1>4. ValueAt(s).next \in s..Len(input) + 1
      BY <1>2, <1>3, ValueEnd
<1>   QED  BY <1>1, <1>2, <1>4

\* The parts of an assignment of the grammar.
IsAssigned(a, c, v, e, s, i, j) ==
    /\ v \in a + 1..c /\ Only(a, v, VarId)
    /\ e \in v..c - 1 /\ input[e] = "=" /\ Only(v, e, Blank)
    /\ s \in e + 1..c /\ Only(e + 1, s, Blank) /\ ~(s < c /\ At(s, Blank))
    /\ i \in {s, s + 2} /\ j \in s..c /\ IsValue(s, c, i, j)

LEMMA AssignmentsAre ==
    ASSUME NEW a, NEW c, NEW x
    PROVE  x \in Assignments(a, c) <=>
              \E v, e, s, i, j :
                 /\ IsAssigned(a, c, v, e, s, i, j)
                 /\ x = <<SubSeq(input, a, v - 1), SubSeq(input, i, j - 1)>>
<1>   DEFINE names == {v \in a + 1..c : Only(a, v, VarId)}
             Equals(v) == {e \in v..c - 1 : input[e] = "=" /\ Only(v, e, Blank)}
             Starts(e) == {s \in e + 1..c : Only(e + 1, s, Blank) /\ ~(s < c /\ At(s, Blank))}
             Texts(s) == {t \in {s, s + 2} \X (s..c) : IsValue(s, c, t[1], t[2])}
             TextsFrom(e) == UNION {Texts(s) : s \in Starts(e)}
             Values(v) == UNION {TextsFrom(e) : e \in Equals(v)}
             Pairs(v) == {<<SubSeq(input, a, v - 1), SubSeq(input, t[1], t[2] - 1)>> :
                             t \in Values(v)}
<1>1. ASSUME NEW s, NEW t
      PROVE  t \in Texts(s) <=>
                \E i, j : t = <<i, j>> /\ i \in {s, s + 2} /\ j \in s..c /\ IsValue(s, c, i, j)
      OBVIOUS
<1>   HIDE DEF Texts
<1>2. ASSUME NEW v, NEW t
      PROVE  t \in Values(v) <=> \E e \in Equals(v) : \E s \in Starts(e) : t \in Texts(s)
  <2>1. \A e : t \in TextsFrom(e) <=> \E s \in Starts(e) : t \in Texts(s)
        OBVIOUS
  <2>   HIDE DEF TextsFrom
  <2>2. t \in Values(v) <=> \E e \in Equals(v) : t \in TextsFrom(e)
        OBVIOUS
  <2>   QED  BY <2>1, <2>2, Zenon
<1>3. x \in Assignments(a, c) <=>
         \E v \in names : \E t \in Values(v) :
            x = <<SubSeq(input, a, v - 1), SubSeq(input, t[1], t[2] - 1)>>
  <2>1. Assignments(a, c) = UNION {Pairs(v) : v \in names}
        BY DEF Assignments, Texts
  <2>   HIDE DEF Values
  <2>2. \A v : x \in Pairs(v) <=> \E t \in Values(v) :
            x = <<SubSeq(input, a, v - 1), SubSeq(input, t[1], t[2] - 1)>>
        OBVIOUS
  <2>   HIDE DEF Pairs
  <2>3. x \in UNION {Pairs(v) : v \in names} <=> \E v \in names : x \in Pairs(v)
        OBVIOUS
  <2>   QED  BY <2>1, <2>2, <2>3, Zenon
<1>   HIDE DEF Values
<1>4. ASSUME x \in Assignments(a, c)
      PROVE  \E v, e, s, i, j :
                 /\ IsAssigned(a, c, v, e, s, i, j)
                 /\ x = <<SubSeq(input, a, v - 1), SubSeq(input, i, j - 1)>>
  <2>1. PICK v \in names : \E t \in Values(v) :
            x = <<SubSeq(input, a, v - 1), SubSeq(input, t[1], t[2] - 1)>>
        BY <1>3, <1>4, Zenon
  <2>2. PICK t \in Values(v) : x = <<SubSeq(input, a, v - 1), SubSeq(input, t[1], t[2] - 1)>>
        BY <2>1, Zenon
  <2>3. PICK e \in Equals(v) : \E s \in Starts(e) : t \in Texts(s)
        BY <1>2, <2>2, Zenon
  <2>4. PICK s \in Starts(e) : t \in Texts(s)
        BY <2>3, Zenon
  <2>5. PICK i, j : t = <<i, j>> /\ i \in {s, s + 2} /\ j \in s..c /\ IsValue(s, c, i, j)
        BY <1>1, <2>4, Zenon
  <2>6. x = <<SubSeq(input, a, v - 1), SubSeq(input, i, j - 1)>>
        BY <2>2, <2>5
  <2>7. IsAssigned(a, c, v, e, s, i, j)
        BY <2>1, <2>3, <2>4, <2>5, Zenon DEF IsAssigned
  <2>   QED  BY <2>6, <2>7, Zenon
<1>5. ASSUME NEW v, NEW e, NEW s, NEW i, NEW j, IsAssigned(a, c, v, e, s, i, j),
             x = <<SubSeq(input, a, v - 1), SubSeq(input, i, j - 1)>>
      PROVE  x \in Assignments(a, c)
  <2>1. <<i, j>> \in Texts(s)
        BY <1>1, <1>5, Zenon DEF IsAssigned
  <2>2. e \in Equals(v) /\ s \in Starts(e) /\ v \in names
        BY <1>5, Zenon DEF IsAssigned
  <2>3. <<i, j>> \in Values(v)
        BY <1>2, <2>1, <2>2, Zenon
  <2>4. x = <<SubSeq(input, a, v - 1), SubSeq(input, <<i, j>>[1], <<i, j>>[2] - 1)>>
        BY <1>5
  <2>   QED  BY <1>3, <2>2, <2>3, <2>4, Zenon
<1>   QED  BY <1>4, <1>5, Zenon

\* There is at most one assignment from one place to another, the parser's.
LEMMA AssignmentIs ==
    ASSUME input \in ConfigText, NEW a \in 1..Len(input) + 1, NEW c \in a..Len(input) + 1,
           StopsValue(c), NEW x
    PROVE  x \in Assignments(a, c) <=>
              /\ At(a, VarId) /\ rule_assign(a).ok /\ c = rule_assign(a).next
              /\ x = <<NameAt(a), rule_assign(a).value>>
<1>1. Len(input) \in Nat
      BY DEF ConfigText
<1>2. ASSUME x \in Assignments(a, c)
      PROVE  /\ At(a, VarId) /\ rule_assign(a).ok /\ c = rule_assign(a).next
             /\ x = <<NameAt(a), rule_assign(a).value>>
  <2>1. PICK v, e, s, i, j :
            /\ IsAssigned(a, c, v, e, s, i, j)
            /\ x = <<SubSeq(input, a, v - 1), SubSeq(input, i, j - 1)>>
        BY <1>2, AssignmentsAre
  <2>2. /\ v \in a + 1..c /\ e \in v..c - 1 /\ s \in e + 1..c
        /\ Only(a, v, VarId) /\ input[e] = "=" /\ Only(v, e, Blank)
        /\ Only(e + 1, s, Blank) /\ ~(s < c /\ At(s, Blank))
        /\ i \in {s, s + 2} /\ j \in s..c /\ IsValue(s, c, i, j)
        BY <2>1 DEF IsAssigned
  <2>3. /\ v \in a..Len(input) + 1 /\ v \in 1..Len(input) + 1 /\ e \in v..Len(input) + 1
        /\ e \in 1..Len(input) /\ e + 1 \in 1..Len(input) + 1
        /\ s \in e + 1..Len(input) + 1 /\ s \in 1..Len(input) + 1
        /\ c \in s..Len(input) + 1
        BY <1>1, <2>2
  <2>4. At(a, VarId)
        BY <1>1, <2>2 DEF Only, At
  <2>5. ~At(v, VarId)
    <3>1. CASE v = e
          BY <2>2, <3>1 DEF At, VarId
    <3>2. CASE v # e
      <4>1. input[v] \in Blank
            BY <1>1, <2>2, <3>2 DEF Only
      <4>   QED  BY <4>1 DEF At, Blank, VarId
    <3>   QED  BY <3>1, <3>2
  <2>6. v = Past(a, VarId)
        BY <2>2, <2>3, <2>5, PastOnly
  <2>7. ~At(e, Blank) /\ At(e, {"="})
        BY <2>2, <2>3 DEF At, Blank
  <2>8. e = Past(v, Blank)
        BY <2>2, <2>3, <2>7, PastOnly
  <2>9. ~At(c, Blank)
        BY <1>1, EndIsNotText
  <2>10. ~At(s, Blank)
         BY <1>1, <2>2, <2>9
  <2>11. s = Past(e + 1, Blank)
         BY <2>2, <2>3, <2>10, PastOnly
  <2>12. rule_assign(a) = ValueAt(s)
         BY <2>6, <2>7, <2>8, <2>11, AssignedIs
  <2>13. /\ ValueAt(s).ok /\ c = ValueAt(s).next
         /\ SubSeq(input, i, j - 1) = ValueAt(s).value
         BY <2>2, <2>3, ValueIs
  <2>14. NameAt(a) = SubSeq(input, a, v - 1)
         BY <2>6 DEF NameAt
  <2>   QED  BY <2>1, <2>4, <2>12, <2>13, <2>14
<1>3. ASSUME At(a, VarId), rule_assign(a).ok, c = rule_assign(a).next,
             x = <<NameAt(a), rule_assign(a).value>>
      PROVE  x \in Assignments(a, c)
  <2>1. PICK v, e, s :
            /\ v = Past(a, VarId) /\ v \in a + 1..Len(input) + 1
            /\ e = Past(v, Blank) /\ e \in v..Len(input) /\ input[e] = "="
            /\ s = Past(e + 1, Blank) /\ s \in e + 1..Len(input) + 1
            /\ rule_assign(a) = ValueAt(s)
        BY <1>3, AssignmentPlaces
  <2>2. v \in 1..Len(input) + 1 /\ e + 1 \in 1..Len(input) + 1 /\ s \in 1..Len(input) + 1
        BY <1>1, <2>1
  <2>3. ValueAt(s).next \in s..Len(input) + 1
        BY <1>3, <2>1, <2>2, ValueEnd
  <2>4. c \in s..Len(input) + 1 /\ ValueAt(s).ok /\ c = ValueAt(s).next
        BY <1>3, <2>1, <2>3
  <2>5. PICK i \in {s, s + 2}, j \in s..c : IsValue(s, c, i, j)
        BY <2>2, <2>4, ValueIs
  <2>6. SubSeq(input, i, j - 1) = ValueAt(s).value
        BY <2>2, <2>4, <2>5, ValueIs
  <2>7. x = <<SubSeq(input, a, v - 1), SubSeq(input, i, j - 1)>>
        BY <1>3, <2>1, <2>6 DEF NameAt
  <2>8. v \in a + 1..c /\ e \in v..c - 1 /\ s \in e + 1..c
        BY <1>1, <2>1, <2>4
  <2>9. Only(a, v, VarId) /\ Only(v, e, Blank) /\ Only(e + 1, s, Blank)
        BY <2>1, <2>2, PastIs
  <2>10. ~(s < c /\ At(s, Blank))
    <3>1. AtEnd(s) \/ ~At(s, Blank)
          BY <2>1, <2>2, PastIs
    <3>   QED  BY <1>1, <2>1, <2>4, <3>1 DEF AtEnd
  <2>11. IsAssigned(a, c, v, e, s, i, j)
         BY <2>1, <2>5, <2>8, <2>9, <2>10 DEF IsAssigned
  <2>   QED  BY <2>7, <2>11, AssignmentsAre
<1>   QED  BY <1>2, <1>3

-----------------------------------------------------------------------------
\* Lines.

\* What the parser makes of the line from place m on: nothing, or an assignment;
\* whether it is one, and where it ends.
Assigns(m) == At(Past(m, Blank), VarId)
Assigned(m) == rule_assign(Past(m, Blank))
Line(m) == IF Assigns(m) THEN <<<<NameAt(Past(m, Blank)), Assigned(m).value>>>> ELSE <<>>
EndOfLine(m) == rule_comment(IF Assigns(m) THEN Assigned(m).next ELSE Past(m, Blank))
LineReads(m) == (Assigns(m) => Assigned(m).ok) /\ EndsLine(EndOfLine(m))

LEMMA EndOfLinePlace ==
    ASSUME input \in ConfigText, NEW m \in 1..Len(input) + 1, Assigns(m) => Assigned(m).ok
    PROVE  /\ EndOfLine(m) \in m..Len(input) + 1
           /\ Assigns(m) => /\ Assigned(m).next \in m..Len(input) + 1
                            /\ EndOfLine(m) \in Assigned(m).next..Len(input) + 1
           /\ ~Assigns(m) => EndOfLine(m) \in Past(m, Blank)..Len(input) + 1
<1>1. Len(input) \in Nat
      BY DEF ConfigText
<1>2. Past(m, Blank) \in m..Len(input) + 1 /\ Past(m, Blank) \in 1..Len(input) + 1
  <2>1. Past(m, Blank) \in m..Len(input) + 1
        BY PastIs
  <2>   QED  BY <1>1, <2>1
<1>3. CASE Assigns(m)
  <2>1. Assigned(m).next \in Past(m, Blank) + 1..Len(input) + 1
        BY <1>2, <1>3, AssignedEnd DEF Assigns, Assigned
  <2>2. Assigned(m).next \in 1..Len(input) + 1 /\ Assigned(m).next \in m..Len(input) + 1
        BY <1>1, <1>2, <2>1
  <2>3. EndOfLine(m) \in Assigned(m).next..Len(input) + 1
        BY <1>3, <2>2, CommentPlace DEF EndOfLine
  <2>   QED  BY <1>1, <1>3, <2>2, <2>3
<1>4. CASE ~Assigns(m)
  <2>1. EndOfLine(m) \in Past(m, Blank)..Len(input) + 1
        BY <1>2, <1>4, CommentPlace DEF EndOfLine
  <2>   QED  BY <1>1, <1>2, <1>4, <2>1
<1>   QED  BY <1>3, <1>4

LEMMA LineMeaningsAre ==
    ASSUME NEW m, NEW n, NEW y
    PROVE  y \in LineMeanings(m, n) <=>
              \E c \in m..n : IsComment(c, n) /\
                 \/ \E a \in m..c : Only(m, a, Blank) /\ \E x \in Assignments(a, c) : y = <<x>>
                 \/ c \in m..c /\ Only(m, c, Blank) /\ y = <<>>
<1>   DEFINE Starts(c) == {a \in m..c : Only(m, a, Blank)}
             From(c) == UNION {Assignments(a, c) : a \in Starts(c)}
             Said(c) == {<<x>> : x \in From(c)} \cup (IF c \in Starts(c) THEN {<<>>} ELSE {})
             Comments == {c \in m..n : IsComment(c, n)}
<1>1. LineMeanings(m, n) = UNION {Said(c) : c \in Comments}
      BY DEF LineMeanings
<1>2. ASSUME NEW c
      PROVE  y \in Said(c) <=>
                \/ \E a \in m..c : Only(m, a, Blank) /\ \E x \in Assignments(a, c) : y = <<x>>
                \/ c \in m..c /\ Only(m, c, Blank) /\ y = <<>>
  <2>1. \A x : x \in From(c) <=> \E a \in m..c : Only(m, a, Blank) /\ x \in Assignments(a, c)
        OBVIOUS
  <2>   HIDE DEF From
  <2>2. y \in {<<x>> : x \in From(c)} <=> \E x \in From(c) : y = <<x>>
        OBVIOUS
  <2>3. y \in Said(c) <=> (\E x \in From(c) : y = <<x>>) \/ (c \in Starts(c) /\ y = <<>>)
        BY <2>2
  <2>   QED  BY <2>1, <2>3
<1>   HIDE DEF Said
<1>3. y \in UNION {Said(c) : c \in Comments} <=> \E c \in Comments : y \in Said(c)
      OBVIOUS
<1>   QED  BY <1>1, <1>2, <1>3

\* A line of the grammar that goes up to a line end is the parser's, and says that.
LEMMA LineIs ==
    ASSUME input \in ConfigText, NEW m \in 1..Len(input) + 1, NEW n \in m..Len(input) + 1, EndsLine(n),
           NEW y
    PROVE  y \in LineMeanings(m, n) <=> LineReads(m) /\ n = EndOfLine(m) /\ y = Line(m)
<1>   DEFINE start == Past(m, Blank)
<1>1. Len(input) \in Nat /\ start \in m..Len(input) + 1 /\ start \in 1..Len(input) + 1
  <2>1. Len(input) \in Nat
        BY DEF ConfigText
  <2>2. start \in m..Len(input) + 1
        BY PastIs
  <2>   QED  BY <2>1, <2>2
<1>2. ASSUME NEW c \in m..n, IsComment(c, n)
      PROVE  /\ c \in 1..Len(input) + 1 /\ c \in m..Len(input) + 1 /\ n \in c..Len(input) + 1
             /\ StopsValue(c) /\ n = rule_comment(c)
             /\ ~At(c, VarId) /\ ~At(c, Blank) /\ c \in Nat
  <2>1. c \in 1..Len(input) + 1 /\ c \in m..Len(input) + 1 /\ n \in c..Len(input) + 1 /\ c \in Nat
        BY <1>1, <1>2
  <2>2. StopsValue(c) /\ n = rule_comment(c)
        BY <1>2, <2>1, CommentStops, CommentIs
  <2>   QED  BY <2>1, <2>2, EndIsNotText
<1>3. ASSUME y \in LineMeanings(m, n) PROVE LineReads(m) /\ n = EndOfLine(m) /\ y = Line(m)
  <2>1. PICK c \in m..n :
            /\ IsComment(c, n)
            /\ \/ \E a \in m..c : Only(m, a, Blank) /\ \E x \in Assignments(a, c) : y = <<x>>
               \/ c \in m..c /\ Only(m, c, Blank) /\ y = <<>>
        BY <1>3, LineMeaningsAre
  <2>2. /\ c \in 1..Len(input) + 1 /\ c \in m..Len(input) + 1 /\ n \in c..Len(input) + 1
        /\ StopsValue(c) /\ n = rule_comment(c) /\ ~At(c, VarId) /\ ~At(c, Blank)
        BY <1>2, <2>1
  <2>3. ASSUME NEW a \in m..c, Only(m, a, Blank), NEW x \in Assignments(a, c), y = <<x>>
        PROVE  LineReads(m) /\ n = EndOfLine(m) /\ y = Line(m)
    <3>1. a \in 1..Len(input) + 1 /\ a \in m..Len(input) + 1 /\ c \in a..Len(input) + 1
          BY <1>1, <2>2
    <3>2. /\ At(a, VarId) /\ rule_assign(a).ok /\ c = rule_assign(a).next
          /\ x = <<NameAt(a), rule_assign(a).value>>
          BY <2>2, <2>3, <3>1, AssignmentIs
    <3>3. ~At(a, Blank)
          BY <3>2 DEF At, VarId, Blank
    <3>4. a = start
          BY <2>3, <3>1, <3>3, BlanksAre
    <3>   QED  BY <2>2, <2>3, <3>2, <3>4 DEF LineReads, Assigns, Assigned, EndOfLine, Line
  <2>4. ASSUME Only(m, c, Blank), y = <<>>
        PROVE  LineReads(m) /\ n = EndOfLine(m) /\ y = Line(m)
    <3>1. c = start
          BY <2>2, <2>4, BlanksAre
    <3>   QED  BY <2>2, <2>4, <3>1 DEF LineReads, Assigns, EndOfLine, Line
  <2>   QED  BY <2>1, <2>3, <2>4
<1>4. ASSUME LineReads(m), n = EndOfLine(m), y = Line(m) PROVE y \in LineMeanings(m, n)
  <2>1. Only(m, start, Blank)
        BY PastIs
  <2>2. CASE Assigns(m)
    <3>1. PICK c : c = Assigned(m).next
          OBVIOUS
    <3>2. c \in m..n /\ c \in 1..Len(input) + 1 /\ n \in c..Len(input) + 1 /\ n = rule_comment(c)
      <4>1. c \in m..Len(input) + 1 /\ n \in c..Len(input) + 1
            BY <1>4, <2>2, <3>1, EndOfLinePlace DEF LineReads
      <4>2. n = rule_comment(c)
            BY <1>4, <2>2, <3>1 DEF EndOfLine
      <4>   QED  BY <1>1, <4>1, <4>2
    <3>3. IsComment(c, n)
          BY <3>2, CommentIs
    <3>4. StopsValue(c)
          BY <1>2, <3>2, <3>3
    <3>5. At(start, VarId) /\ rule_assign(start).ok /\ c = rule_assign(start).next
          BY <1>4, <2>2, <3>1 DEF LineReads, Assigns, Assigned
    <3>6. c \in start + 1..Len(input) + 1
          BY <1>1, <3>5, AssignedEnd
    <3>7. start \in m..c /\ c \in start..Len(input) + 1
          BY <1>1, <3>6
    <3>8. <<NameAt(start), Assigned(m).value>> \in Assignments(start, c)
          BY <1>1, <3>4, <3>5, <3>7, AssignmentIs DEF Assigned
    <3>9. y = <<<<NameAt(start), Assigned(m).value>>>>
          BY <1>4, <2>2 DEF Line
    <3>   QED  BY <2>1, <3>2, <3>3, <3>7, <3>8, <3>9, LineMeaningsAre
  <2>3. CASE ~Assigns(m)
    <3>1. n \in start..Len(input) + 1 /\ n = rule_comment(start) /\ y = <<>>
          BY <1>4, <2>3, EndOfLinePlace DEF EndOfLine, Line
    <3>2. IsComment(start, n)
          BY <1>1, <3>1, CommentIs
    <3>3. start \in m..n /\ start \in m..start
          BY <1>1, <3>1
    <3>   QED  BY <2>1, <3>1, <3>2, <3>3, LineMeaningsAre
  <2>   QED  BY <2>2, <2>3
<1>   QED  BY <1>3, <1>4

-----------------------------------------------------------------------------
\* The rest of the file, from its end.

\* What the file says from place m on, when f tells what it says from later places.
Following(f, n) ==
    IF AtEnd(n) THEN {<<>>}
    ELSE f[IF At(n, {"\r"}) /\ At(n + 1, {"\n"}) THEN n + 2 ELSE n + 1]
Together(m, n, rests) == {l \o r : l \in LineMeanings(m, n), r \in rests}
LinesFrom(f, m) ==
    UNION {Together(m, n, Following(f, n)) : n \in {n \in m..Len(input) + 1 : EndsLine(n)}}

\* It depends on later places only.
LEMMA LinesFromLater ==
    ASSUME input \in ConfigText, NEW m \in 1..Len(input) + 1, NEW f, NEW g,
           \A k \in m + 1..Len(input) + 1 : f[k] = g[k]
    PROVE  LinesFrom(f, m) = LinesFrom(g, m)
<1>1. Len(input) \in Nat
      BY DEF ConfigText
<1>2. ASSUME NEW n \in m..Len(input) + 1 PROVE Following(f, n) = Following(g, n)
  <2>1. ~AtEnd(n) => n + 1 \in m + 1..Len(input) + 1
        BY <1>1 DEF AtEnd
  <2>2. At(n + 1, {"\n"}) => n + 2 \in m + 1..Len(input) + 1
        BY <1>1 DEF At
  <2>   QED  BY <2>1, <2>2 DEF Following
<1>   QED  BY <1>2 DEF LinesFrom

LEMMA MeaningsExist ==
    ASSUME input \in ConfigText
    PROVE  \E f : f = [m \in 1..Len(input) + 1 |-> LinesFrom(f, m)]
<1>   DEFINE L == Len(input)
             Good(f, d) == /\ f = [m \in 1..L + 1 |-> f[m]]
                           /\ \A m \in L + 2 - d..L + 1 : m >= 1 => f[m] = LinesFrom(f, m)
             S == {d \in 0..L + 1 : \E f : Good(f, d)}
<1>1. L \in Nat
      BY DEF ConfigText
<1>2. 0 \in S
  <2>   DEFINE f == [m \in 1..L + 1 |-> {}]
  <2>1. f = [m \in 1..L + 1 |-> f[m]]
        OBVIOUS
  <2>2. \A m \in L + 2 - 0..L + 1 : FALSE
        BY <1>1
  <2>3. Good(f, 0)
        BY <2>1, <2>2
  <2>   HIDE DEF f, Good
  <2>   QED  BY <1>1, <2>3
<1>3. ASSUME NEW d \in 0..L + 1 - 1, d \in S PROVE d + 1 \in S
  <2>1. PICK f : Good(f, d)
        BY <1>3
  <2>   DEFINE p == L + 1 - d
                g == [m \in 1..L + 1 |-> IF m = p THEN LinesFrom(f, p) ELSE f[m]]
  <2>2. p \in 1..L + 1 /\ L + 2 - (d + 1) = p /\ L + 2 - d = p + 1
        BY <1>1
  <2>3. g = [m \in 1..L + 1 |-> g[m]]
        OBVIOUS
  <2>4. g[p] = LinesFrom(f, p) /\ \A m \in 1..L + 1 : m # p => g[m] = f[m]
        BY <2>2
  <2>   HIDE DEF g, p
  <2>5. ASSUME NEW m \in p..L + 1 PROVE g[m] = LinesFrom(g, m)
    <3>1. m \in 1..L + 1 /\ \A k \in m + 1..L + 1 : k \in 1..L + 1 /\ k # p
          BY <1>1, <2>2
    <3>2. \A k \in m + 1..L + 1 : f[k] = g[k]
          BY <2>4, <3>1
    <3>3. LinesFrom(f, m) = LinesFrom(g, m)
          BY <3>1, <3>2, LinesFromLater
    <3>4. CASE m = p
          BY <2>4, <3>3, <3>4
    <3>5. CASE m # p
      <4>1. m \in p + 1..L + 1 /\ m >= 1
            BY <1>1, <2>2, <3>1, <3>5
      <4>2. f[m] = LinesFrom(f, m)
            BY <2>1, <2>2, <4>1
      <4>   QED  BY <2>4, <3>1, <3>3, <3>5, <4>2
    <3>   QED  BY <3>4, <3>5
  <2>6. Good(g, d + 1)
        BY <2>2, <2>3, <2>5
  <2>   HIDE DEF Good
  <2>7. d + 1 \in 0..L + 1
        BY <1>1
  <2>   QED  BY <2>6, <2>7
<1>   HIDE DEF S
<1>4. L + 1 \in S
  <2>1. PICK n : n = L + 1
        OBVIOUS
  <2>2. n \in Nat /\ n \in 0..n /\ \A d \in 0..n - 1 : d \in S => d + 1 \in S
        BY <1>1, <1>3, <2>1
  <2>3. \A d \in 0..n : d \in S
        BY <1>2, <2>2, UpTo
  <2>   QED  BY <2>1, <2>2, <2>3
<1>5. PICK f : Good(f, L + 1)
      BY <1>4 DEF S
<1>6. L + 2 - (L + 1) = 1
      BY <1>1
<1>7. \A m \in 1..L + 1 : f[m] = LinesFrom(f, m)
      BY <1>1, <1>5, <1>6
<1>8. f = [m \in 1..L + 1 |-> LinesFrom(f, m)]
      BY <1>5, <1>7
<1>   QED  BY <1>8

LEMMA MeaningsAre ==
    ASSUME input \in ConfigText, NEW m \in 1..Len(input) + 1
    PROVE  FileMeanings[m] = LinesFrom(FileMeanings, m)
<1>1. FileMeanings = CHOOSE f : f = [k \in 1..Len(input) + 1 |-> LinesFrom(f, k)]
      BY DEF FileMeanings, LinesFrom, Together, Following, EndsLine
<1>2. FileMeanings = [k \in 1..Len(input) + 1 |-> LinesFrom(FileMeanings, k)]
      BY <1>1, MeaningsExist
<1>   QED  BY <1>2

-----------------------------------------------------------------------------
\* What lines and files say, in the parser's terms.

Assignment == ConfigText \X ConfigText

LEMMA ValueType ==
    ASSUME input \in ConfigText, NEW s \in 1..Len(input) + 1, ValueAt(s).ok
    PROVE  ValueAt(s).value \in ConfigText
<1>1. Len(input) \in Nat
      BY DEF ConfigText
<1>2. CASE OpensValue(s)
  <2>1. ValueAt(s) = MultiLine(s)
        BY <1>2 DEF ValueAt, rule_value, OpensValue, AtEnd, At
  <2>2. PICK j : j = CloseOf(s)
        OBVIOUS
  <2>3. /\ MultiLine(s).next \in s..Len(input) + 1 /\ j \in s..MultiLine(s).next
        /\ MultiLine(s).value = SubSeq(input, s + 2, j - 1)
        BY <2>1, <2>2, MultiEnd
  <2>4. j \in Int /\ j - 1 <= Len(input)
        BY <1>1, <2>3
  <2>5. SubSeq(input, s + 2, j - 1) \in ConfigText
        BY <1>1, <2>4 DEF ConfigText
  <2>   QED  BY <2>1, <2>3, <2>5
<1>3. CASE ~OpensValue(s)
  <2>1. ValueAt(s) = SingleLine(s)
        BY <1>3, ValueOfLine
  <2>2. PICK c : c = SingleLine(s).next
        OBVIOUS
  <2>3. /\ c \in s..Len(input) + 1
        /\ \E j \in s..c : Only(j, c, Blank) /\ (j > s => input[j - 1] \notin Blank)
        BY <2>2, SingleEnd
  <2>4. PICK j \in s..c : Only(j, c, Blank) /\ (j > s => input[j - 1] \notin Blank)
        BY <2>3
  <2>5. SingleLine(s).value = SubSeq(input, s, j - 1)
        BY <2>2, <2>3, <2>4, SingleText
  <2>6. j \in s..Len(input) + 1
        BY <1>1, <2>3
  <2>7. SubSeq(input, s, j - 1) \in ConfigText
        BY <2>6, PartIs
  <2>   QED  BY <2>1, <2>5, <2>7
<1>   QED  BY <1>2, <1>3

LEMMA AssignedType ==
    ASSUME input \in ConfigText, NEW a \in 1..Len(input) + 1, At(a, VarId), rule_assign(a).ok
    PROVE  NameAt(a) \in ConfigText /\ rule_assign(a).value \in ConfigText
<1>1. Len(input) \in Nat
      BY DEF ConfigText
<1>2. PICK v, e, s :
          /\ v = Past(a, VarId) /\ v \in a + 1..Len(input) + 1
          /\ e \in v..Len(input) /\ s \in e + 1..Len(input) + 1 /\ rule_assign(a) = ValueAt(s)
      BY AssignmentPlaces
<1>3. s \in 1..Len(input) + 1 /\ v \in a..Len(input) + 1
      BY <1>1, <1>2
<1>4. ValueAt(s).value \in ConfigText
      BY <1>2, <1>3, ValueType
<1>5. NameAt(a) \in ConfigText
      BY <1>2, <1>3, PartIs DEF NameAt
<1>   QED  BY <1>2, <1>4, <1>5

LEMMA LineType ==
    ASSUME input \in ConfigText, NEW m \in 1..Len(input) + 1, LineReads(m)
    PROVE  Line(m) \in Seq(Assignment)
<1>1. CASE Assigns(m)
  <2>1. Past(m, Blank) \in 1..Len(input) + 1
    <3>1. Past(m, Blank) \in m..Len(input) + 1 /\ Len(input) \in Nat
          BY PastIs DEF ConfigText
    <3>   QED  BY <3>1
  <2>2. /\ NameAt(Past(m, Blank)) \in ConfigText
        /\ Assigned(m).value \in ConfigText
        BY <1>1, <2>1, AssignedType DEF LineReads, Assigns, Assigned
  <2>   QED  BY <1>1, <2>2 DEF Line, Assignment
<1>2. CASE ~Assigns(m)
      BY <1>2 DEF Line
<1>   QED  BY <1>1, <1>2

LEMMA NextLinePlace ==
    ASSUME input \in ConfigText, NEW n \in 1..Len(input) + 1, EndsLine(n), ~AtEnd(n)
    PROVE  next_line(n) \in n + 1..Len(input) + 1
<1>1. Len(input) \in Nat
      BY DEF ConfigText
<1>   QED  BY <1>1 DEF next_line, EndsLine, AtEnd, At

LEMMA LinesAre ==
    ASSUME input \in ConfigText, NEW m \in 1..Len(input) + 1, NEW y
    PROVE  y \in FileMeanings[m] <=>
              /\ LineReads(m)
              /\ \E r \in Following(FileMeanings, EndOfLine(m)) : y = Line(m) \o r
<1>   DEFINE EndPlaces == {n \in m..Len(input) + 1 : EndsLine(n)}
             From(n) == Together(m, n, Following(FileMeanings, n))
<1>1. y \in FileMeanings[m] <=> \E n \in EndPlaces : y \in From(n)
  <2>1. FileMeanings[m] = UNION {From(n) : n \in EndPlaces}
        BY MeaningsAre DEF LinesFrom
  <2>   HIDE DEF From
  <2>   QED  BY <2>1
<1>2. ASSUME NEW n \in EndPlaces
      PROVE  y \in From(n) <=>
                /\ LineReads(m) /\ n = EndOfLine(m)
                /\ \E r \in Following(FileMeanings, n) : y = Line(m) \o r
  <2>1. \A l : l \in LineMeanings(m, n) <=> LineReads(m) /\ n = EndOfLine(m) /\ l = Line(m)
        BY LineIs
  <2>2. y \in From(n) <=>
            \E l \in LineMeanings(m, n), r \in Following(FileMeanings, n) : y = l \o r
        BY DEF Together
  <2>   QED  BY <2>1, <2>2, Zenon
<1>3. LineReads(m) => EndOfLine(m) \in EndPlaces
      BY EndOfLinePlace DEF LineReads
<1>   HIDE DEF EndPlaces, From
<1>   QED  BY <1>1, <1>2, <1>3, Zenon

LEMMA MeaningType ==
    ASSUME input \in ConfigText, NEW m \in 1..Len(input) + 1
    PROVE  FileMeanings[m] \in SUBSET Seq(Assignment)
<1>   DEFINE L == Len(input)
             S == {d \in 0..L + 1 : \A k \in L + 2 - d..L + 1 :
                      k >= 1 => FileMeanings[k] \in SUBSET Seq(Assignment)}
<1>1. L \in Nat
      BY DEF ConfigText
<1>2. 0 \in S
      BY <1>1
<1>3. ASSUME NEW d \in 0..L + 1 - 1, d \in S PROVE d + 1 \in S
  <2>1. PICK p : p = L + 1 - d
        OBVIOUS
  <2>2. p \in 1..L + 1 /\ p \in 1..Len(input) + 1 /\ d + 1 \in 0..L + 1
        BY <1>1, <2>1
  <2>3. \A k \in p + 1..L + 1 : FileMeanings[k] \in SUBSET Seq(Assignment)
        BY <1>1, <1>3, <2>1
  <2>4. ASSUME NEW y \in FileMeanings[p] PROVE y \in Seq(Assignment)
    <3>1. PICK r \in Following(FileMeanings, EndOfLine(p)) : LineReads(p) /\ y = Line(p) \o r
          BY <2>2, <2>4, LinesAre
    <3>2. EndOfLine(p) \in p..L + 1 /\ EndsLine(EndOfLine(p))
          BY <2>2, <3>1, EndOfLinePlace DEF LineReads
    <3>3. r \in Seq(Assignment)
      <4>1. CASE AtEnd(EndOfLine(p))
            BY <3>1, <4>1 DEF Following
      <4>2. CASE ~AtEnd(EndOfLine(p))
        <5>1. EndOfLine(p) \in 1..Len(input) + 1
              BY <1>1, <2>2, <3>2
        <5>2. next_line(EndOfLine(p)) \in EndOfLine(p) + 1..L + 1
              BY <3>2, <4>2, <5>1, NextLinePlace
        <5>3. next_line(EndOfLine(p)) \in p + 1..L + 1
              BY <1>1, <2>2, <3>2, <5>2
        <5>4. r \in FileMeanings[next_line(EndOfLine(p))]
              BY <3>1, <4>2 DEF Following, next_line
        <5>   QED  BY <2>3, <5>3, <5>4
      <4>   QED  BY <4>1, <4>2
    <3>4. Line(p) \in Seq(Assignment)
          BY <2>2, <3>1, LineType
    <3>   QED  BY <3>1, <3>3, <3>4
  <2>5. \A k \in L + 2 - (d + 1)..L + 1 : k >= 1 => FileMeanings[k] \in SUBSET Seq(Assignment)
    <3>1. ASSUME NEW k \in L + 2 - (d + 1)..L + 1 PROVE k = p \/ k \in p + 1..L + 1
          BY <1>1, <2>1, <2>2
    <3>   QED  BY <2>3, <2>4, <3>1
  <2>   QED  BY <2>2, <2>5
<1>   HIDE DEF S
<1>4. PICK n : n = L + 1
      OBVIOUS
<1>5. n \in Nat /\ n \in 0..n /\ \A d \in 0..n - 1 : d \in S => d + 1 \in S
      BY <1>1, <1>3, <1>4
<1>6. n \in S
      BY <1>2, <1>5, UpTo
<1>7. \A k \in L + 2 - n..L + 1 : k >= 1 => FileMeanings[k] \in SUBSET Seq(Assignment)
      BY <1>6 DEF S
<1>8. m \in L + 2 - n..L + 1 /\ m >= 1
      BY <1>1, <1>4
<1>   QED  BY <1>7, <1>8

\* From place m on, the file says what the line says and then what the next ones say.
LEMMA RestIs ==
    ASSUME input \in ConfigText, NEW m \in 1..Len(input) + 1
    PROVE  /\ ~LineReads(m) => FileMeanings[m] = {}
           /\ LineReads(m) /\ AtEnd(EndOfLine(m)) => FileMeanings[m] = {Line(m)}
           /\ LineReads(m) /\ ~AtEnd(EndOfLine(m)) =>
                 FileMeanings[m] = {Line(m) \o r : r \in FileMeanings[next_line(EndOfLine(m))]}
<1>1. ~LineReads(m) => FileMeanings[m] = {}
      BY LinesAre
<1>2. ASSUME LineReads(m), AtEnd(EndOfLine(m)) PROVE FileMeanings[m] = {Line(m)}
  <2>1. Following(FileMeanings, EndOfLine(m)) = {<<>>}
        BY <1>2 DEF Following
  <2>2. Line(m) \o <<>> = Line(m)
    <3>1. Line(m) \in Seq(Assignment)
          BY <1>2, LineType
    <3>   QED  BY <3>1
  <2>3. \A y : y \in FileMeanings[m] <=> y = Line(m)
        BY <1>2, <2>1, <2>2, LinesAre
  <2>   QED  BY <2>3
<1>3. ASSUME LineReads(m), ~AtEnd(EndOfLine(m))
      PROVE  FileMeanings[m] = {Line(m) \o r : r \in FileMeanings[next_line(EndOfLine(m))]}
  <2>1. Following(FileMeanings, EndOfLine(m)) = FileMeanings[next_line(EndOfLine(m))]
        BY <1>3 DEF Following, next_line
  <2>2. \A y : y \in FileMeanings[m] <=>
            \E r \in FileMeanings[next_line(EndOfLine(m))] : y = Line(m) \o r
        BY <1>3, <2>1, LinesAre
  <2>   QED  BY <2>2
<1>   QED  BY <1>1, <1>2, <1>3

-----------------------------------------------------------------------------
\* Settings.

LEMMA FlattenNothing ==
    ASSUME NEW A, NEW seqs \in Seq(Seq(A)), \A n \in 1..Len(seqs) : seqs[n] = <<>>
    PROVE  FlattenSeq(seqs) = <<>>
<1>   DEFINE S == {k \in 0..Len(seqs) : FlattenSeq(SubSeq(seqs, 1, k)) = <<>>}
<1>1. Len(seqs) \in Nat
      OBVIOUS
<1>2. 0 \in S
  <2>1. SubSeq(seqs, 1, 0) = <<>> /\ Len(<<>>) = 0
        OBVIOUS
  <2>   QED  BY <1>1, <2>1 DEF FlattenSeq
<1>3. ASSUME NEW k \in 0..Len(seqs) - 1, k \in S PROVE k + 1 \in S
  <2>1. /\ SubSeq(seqs, 1, k) \in Seq(Seq(A)) /\ seqs[k + 1] \in Seq(A)
        /\ SubSeq(seqs, 1, k + 1) = Append(SubSeq(seqs, 1, k), seqs[k + 1])
        BY <1>1, SubSeqGrows
  <2>2. FlattenSeq(SubSeq(seqs, 1, k + 1)) = FlattenSeq(SubSeq(seqs, 1, k)) \o seqs[k + 1]
        BY <2>1, FlattenAppend
  <2>3. seqs[k + 1] = <<>> /\ k + 1 \in 0..Len(seqs)
        BY <1>1
  <2>4. <<>> \o <<>> = <<>>
        OBVIOUS
  <2>   QED  BY <1>3, <2>2, <2>3, <2>4
<1>   HIDE DEF S
<1>4. \A k \in 0..Len(seqs) : k \in S
      BY <1>1, <1>2, <1>3, UpTo
<1>5. Len(seqs) \in S
      BY <1>1, <1>4
<1>6. SubSeq(seqs, 1, Len(seqs)) = seqs
      OBVIOUS
<1>   QED  BY <1>5, <1>6 DEF S

Given(assignments, name) ==
    [n \in DOMAIN assignments |->
        IF assignments[n][1] = name THEN <<assignments[n][2]>> ELSE <<>>]

LEMMA GivenType ==
    ASSUME NEW done \in Seq(Assignment), NEW k
    PROVE  /\ Given(done, k) \in Seq(Seq(ConfigText)) /\ Len(Given(done, k)) = Len(done)
           /\ \A n \in 1..Len(done) :
                 Given(done, k)[n] = IF done[n][1] = k THEN <<done[n][2]>> ELSE <<>>
<1>1. DOMAIN done = 1..Len(done) /\ Len(done) \in Nat
      OBVIOUS
<1>2. ASSUME NEW n \in 1..Len(done)
      PROVE  (IF done[n][1] = k THEN <<done[n][2]>> ELSE <<>>) \in Seq(ConfigText)
  <2>1. done[n] \in ConfigText \X ConfigText
        BY DEF Assignment
  <2>2. done[n][2] \in ConfigText
        BY <2>1
  <2>   QED  BY <2>2
<1>   QED  BY <1>1, <1>2 DEF Given

LEMMA ValuesOfMore ==
    ASSUME NEW done \in Seq(Assignment), NEW name \in ConfigText, NEW value \in ConfigText, NEW k
    PROVE  /\ name = k => ValuesOf(Append(done, <<name, value>>), k) = Append(ValuesOf(done, k), value)
           /\ name # k => ValuesOf(Append(done, <<name, value>>), k) = ValuesOf(done, k)
<1>   DEFINE longer == Append(done, <<name, value>>)
             last == IF name = k THEN <<value>> ELSE <<>>
<1>1. longer \in Seq(Assignment) /\ Len(longer) = Len(done) + 1 /\ Len(done) \in Nat
      /\ (\A n \in 1..Len(done) : longer[n] = done[n]) /\ longer[Len(done) + 1] = <<name, value>>
      BY DEF Assignment
<1>2. last \in Seq(ConfigText)
      OBVIOUS
<1>3. PICK g, h : g = Given(done, k) /\ h = Given(longer, k)
      OBVIOUS
<1>4. /\ g \in Seq(Seq(ConfigText)) /\ Len(g) = Len(done)
      /\ \A n \in 1..Len(done) : g[n] = IF done[n][1] = k THEN <<done[n][2]>> ELSE <<>>
      BY <1>3, GivenType
<1>5. /\ h \in Seq(Seq(ConfigText)) /\ Len(h) = Len(done) + 1
      /\ \A n \in 1..Len(done) + 1 : h[n] = IF longer[n][1] = k THEN <<longer[n][2]>> ELSE <<>>
  <2>   HIDE DEF longer
  <2>1. /\ Given(longer, k) \in Seq(Seq(ConfigText)) /\ Len(Given(longer, k)) = Len(longer)
        /\ \A n \in 1..Len(longer) :
              Given(longer, k)[n] = IF longer[n][1] = k THEN <<longer[n][2]>> ELSE <<>>
        BY <1>1, GivenType
  <2>   QED  BY <1>1, <1>3, <2>1
<1>   HIDE DEF longer
<1>6. h[Len(done) + 1] = last
  <2>1. longer[Len(done) + 1][1] = name /\ longer[Len(done) + 1][2] = value
        BY <1>1
  <2>2. Len(done) + 1 \in 1..Len(done) + 1
        BY <1>1
  <2>   QED  BY <1>5, <2>1, <2>2
<1>7. ASSUME NEW n \in 1..Len(done) PROVE h[n] = g[n]
  <2>1. n \in 1..Len(done) + 1 /\ longer[n] = done[n]
        BY <1>1
  <2>   QED  BY <1>4, <1>5, <2>1
<1>   HIDE DEF last
<1>8. h = Append(g, last)
      BY <1>1, <1>2, <1>4, <1>5, <1>6, <1>7
<1>9. FlattenSeq(h) = FlattenSeq(g) \o last
      BY <1>2, <1>4, <1>8, FlattenAppend
<1>10. ValuesOf(longer, k) = FlattenSeq(h) /\ ValuesOf(done, k) = FlattenSeq(g)
       BY <1>3 DEF ValuesOf, Given
<1>11. PICK v \in Seq(ConfigText) : v = FlattenSeq(g)
       BY <1>4, FlattenType
<1>12. v \o <<value>> = Append(v, value) /\ v \o <<>> = v
       OBVIOUS
<1>   QED  BY <1>9, <1>10, <1>11, <1>12 DEF longer, last

LEMMA NotGiven ==
    ASSUME NEW done \in Seq(Assignment), NEW k, k \notin {done[n][1] : n \in DOMAIN done}
    PROVE  ValuesOf(done, k) = <<>>
<1>1. PICK g : g = Given(done, k)
      OBVIOUS
<1>2. /\ g \in Seq(Seq(ConfigText)) /\ Len(g) = Len(done)
      /\ \A n \in 1..Len(done) : g[n] = IF done[n][1] = k THEN <<done[n][2]>> ELSE <<>>
      BY <1>1, GivenType
<1>3. \A n \in 1..Len(done) : done[n][1] # k
  <2>1. DOMAIN done = 1..Len(done)
        OBVIOUS
  <2>   QED  BY <2>1
<1>4. \A n \in 1..Len(g) : g[n] = <<>>
      BY <1>2, <1>3
<1>   QED  BY <1>1, <1>2, <1>4, FlattenNothing DEF ValuesOf, Given

LEMMA ValuesType ==
    ASSUME NEW done \in Seq(Assignment), NEW k
    PROVE  ValuesOf(done, k) \in Seq(ConfigText)
BY GivenType, FlattenType DEF ValuesOf, Given

LEMMA InsertIs ==
    ASSUME NEW done \in Seq(Assignment), NEW name \in ConfigText, NEW value \in ConfigText,
           variables = SettingsOf(done)
    PROVE  SettingsOf(Append(done, <<name, value>>)) = insert(name, value)
<1>   DEFINE longer == Append(done, <<name, value>>)
             names == {done[n][1] : n \in DOMAIN done}
<1>1. {longer[n][1] : n \in DOMAIN longer} = names \cup {name}
  <2>1. /\ DOMAIN done = 1..Len(done) /\ DOMAIN longer = 1..Len(done) + 1 /\ Len(done) \in Nat
        /\ (\A n \in 1..Len(done) : longer[n] = done[n]) /\ longer[Len(done) + 1] = <<name, value>>
        OBVIOUS
  <2>2. longer[Len(done) + 1][1] = name
        BY <2>1
  <2>   HIDE DEF longer
  <2>   QED  BY <2>1, <2>2
<1>2. DOMAIN variables = names /\ \A k \in names : variables[k] = ValuesOf(done, k)
      BY DEF SettingsOf
<1>3. ASSUME NEW k \in names \cup {name}
      PROVE  ValuesOf(longer, k) = IF k # name THEN variables[k]
                                   ELSE IF k \in DOMAIN variables THEN Append(variables[k], value)
                                   ELSE <<value>>
  <2>1. PICK v : v = ValuesOf(done, k)
        OBVIOUS
  <2>2. /\ name = k => ValuesOf(longer, k) = Append(v, value)
        /\ name # k => ValuesOf(longer, k) = v
        BY <2>1, ValuesOfMore
  <2>3. Append(<<>>, value) = <<value>>
        OBVIOUS
  <2>4. k \in names => variables[k] = v
        BY <1>2, <2>1
  <2>5. k \notin names => v = <<>>
        BY <2>1, NotGiven
  <2>   HIDE DEF names, longer
  <2>   QED  BY <1>2, <2>2, <2>3, <2>4, <2>5
<1>4. SettingsOf(longer) = [k \in names \cup {name} |-> ValuesOf(longer, k)]
      BY <1>1 DEF SettingsOf
<1>5. insert(name, value) = [k \in names \cup {name} |->
          IF k # name THEN variables[k]
          ELSE IF k \in DOMAIN variables THEN Append(variables[k], value) ELSE <<value>>]
      BY <1>2 DEF insert
<1>   HIDE DEF names, longer
<1>6. SettingsOf(longer) = insert(name, value)
      BY <1>3, <1>4, <1>5
<1>   QED  BY <1>6 DEF longer

LEMMA NoSettings == SettingsOf(<<>>) = <<>>
<1>1. {<<>>[n][1] : n \in DOMAIN <<>>} = {}
      OBVIOUS
<1>   QED  BY <1>1 DEF SettingsOf

-----------------------------------------------------------------------------
\* The parser.

ConfigTyped ==
    input \in ConfigText /\ cur \in 1..Len(input) + 1 /\ reading \in {"file", "loaded", "failed"}

\* What the settings are from is what the file says before what it says from here on.
SettingsSoFar ==
    /\ reading \in {"file", "loaded"} =>
          \E done \in Seq(Assignment) :
             /\ variables = SettingsOf(done)
             /\ reading = "file" => FileMeanings[1] = {done \o r : r \in FileMeanings[cur]}
             /\ reading = "loaded" => FileMeanings[1] = {done}
    /\ reading = "failed" => FileMeanings[1] = {}

LEMMA SameMeanings ==
    ASSUME input' = input
    PROVE  FileMeanings' = FileMeanings
BY SMT DEF FileMeanings, LineMeanings, Assignments, IsValue, IsComment, Only, At, AtEnd

LEMMA SettingsInitially == ConfigInit => ConfigTyped /\ SettingsSoFar
<1>1. SUFFICES ASSUME ConfigInit PROVE ConfigTyped /\ SettingsSoFar
      OBVIOUS
<1>2. ConfigTyped
  <2>1. input \in ConfigText /\ cur = 1 /\ reading = "file"
        BY <1>1, ConfigAssumption DEF ConfigInit, ConfigText
  <2>2. Len(input) \in Nat
        BY <2>1 DEF ConfigText
  <2>   QED  BY <2>1, <2>2 DEF ConfigTyped
<1>3. <<>> \in Seq(Assignment) /\ variables = SettingsOf(<<>>)
      BY <1>1, NoSettings DEF ConfigInit
<1>4. FileMeanings[1] = {<<>> \o r : r \in FileMeanings[1]}
  <2>1. FileMeanings[1] \in SUBSET Seq(Assignment)
    <3>1. 1 \in 1..Len(input) + 1
          BY <1>2 DEF ConfigTyped, ConfigText
    <3>   QED  BY <1>2, <3>1, MeaningType DEF ConfigTyped
  <2>2. \A r \in FileMeanings[1] : <<>> \o r = r
        BY <2>1
  <2>   QED  BY <2>2
<1>   QED  BY <1>1, <1>2, <1>3, <1>4 DEF ConfigInit, SettingsSoFar

\* A line that is read adds what it says, whether more lines follow or not.
LEMMA LineKeeps ==
    ASSUME ConfigTyped, SettingsSoFar, reading = "file", LineReads(cur), input' = input,
           RestOfLine(IF Assigns(cur) THEN Assigned(cur).next ELSE Past(cur, Blank)),
           \A done \in Seq(Assignment) :
              variables = SettingsOf(done) => variables' = SettingsOf(done \o Line(cur))
    PROVE  ConfigTyped' /\ SettingsSoFar'
<1>1. PICK n : n = EndOfLine(cur)
      OBVIOUS
<1>2. n \in cur..Len(input) + 1 /\ n \in 1..Len(input) + 1 /\ EndsLine(n) /\ Len(input) \in Nat
  <2>1. n \in cur..Len(input) + 1 /\ EndsLine(n)
        BY <1>1, EndOfLinePlace DEF LineReads, ConfigTyped
  <2>   QED  BY <2>1 DEF ConfigTyped, ConfigText
<1>3. IF AtEnd(n) THEN reading' = "loaded" /\ cur' = n
      ELSE cur' = next_line(n) /\ reading' = "file"
      BY <1>1 DEF RestOfLine, EndOfLine
<1>4. ~AtEnd(n) => next_line(n) \in 1..Len(input) + 1
  <2>1. ~AtEnd(n) => next_line(n) \in n + 1..Len(input) + 1
        BY <1>2, NextLinePlace DEF ConfigTyped
  <2>   QED  BY <1>2, <2>1
<1>5. ConfigTyped'
      BY <1>2, <1>3, <1>4 DEF ConfigTyped
<1>6. PICK done \in Seq(Assignment) :
          variables = SettingsOf(done) /\ FileMeanings[1] = {done \o r : r \in FileMeanings[cur]}
      BY DEF SettingsSoFar
<1>7. PICK line \in Seq(Assignment) : line = Line(cur)
      BY LineType DEF ConfigTyped
<1>8. done \o line \in Seq(Assignment) /\ variables' = SettingsOf(done \o line)
      BY <1>6, <1>7
<1>9. FileMeanings' = FileMeanings
      BY SameMeanings
<1>10. CASE AtEnd(n)
  <2>1. FileMeanings[cur] = {line}
        BY <1>1, <1>7, <1>10, RestIs DEF ConfigTyped
  <2>2. FileMeanings[1] = {done \o line}
        BY <1>6, <2>1
  <2>3. FileMeanings'[1] = {done \o line} /\ reading' = "loaded"
        BY <1>3, <1>9, <1>10, <2>2
  <2>   QED  BY <1>5, <1>8, <2>3 DEF SettingsSoFar
<1>11. CASE ~AtEnd(n)
  <2>1. FileMeanings[cur] = {line \o r : r \in FileMeanings[cur']}
        BY <1>1, <1>3, <1>7, <1>11, RestIs DEF ConfigTyped
  <2>2. FileMeanings[cur'] \in SUBSET Seq(Assignment)
        BY <1>3, <1>4, <1>11, MeaningType DEF ConfigTyped
  <2>3. \A r \in FileMeanings[cur'] : done \o (line \o r) = (done \o line) \o r
        BY <2>2
  <2>4. \A y : y \in FileMeanings[1] <=>
            \E r \in FileMeanings[cur'] : y = done \o (line \o r)
        BY <1>6, <2>1
  <2>5. FileMeanings[1] = {(done \o line) \o r : r \in FileMeanings[cur']}
    <3>1. \A y : y \in FileMeanings[1] <=>
              \E r \in FileMeanings[cur'] : y = (done \o line) \o r
          BY <2>3, <2>4, Zenon
    <3>   QED  BY <3>1
  <2>6. FileMeanings'[1] = {(done \o line) \o r : r \in FileMeanings'[cur']} /\ reading' = "file"
        BY <1>3, <1>9, <1>11, <2>5
  <2>   QED  BY <1>5, <1>8, <2>6 DEF SettingsSoFar
<1>   QED  BY <1>10, <1>11

LEMMA SettingsPreserved ==
    ConfigTyped /\ SettingsSoFar /\ [ConfigNext]_configVars => ConfigTyped' /\ SettingsSoFar'
<1>1. SUFFICES ASSUME ConfigTyped, SettingsSoFar, [ConfigNext]_configVars
               PROVE  ConfigTyped' /\ SettingsSoFar'
      OBVIOUS
<1>2. CASE EmptyLine
  <2>1. /\ reading = "file" /\ ~Assigns(cur) /\ input' = input /\ variables' = variables
        /\ RestOfLine(Past(cur, Blank))
        BY <1>2 DEF EmptyLine, Assigns
  <2>2. Line(cur) = <<>> /\ EndOfLine(cur) = rule_comment(Past(cur, Blank))
        BY <2>1 DEF Line, EndOfLine
  <2>3. LineReads(cur)
        BY <2>1, <2>2 DEF LineReads, RestOfLine, EndsLine
  <2>4. \A done \in Seq(Assignment) : done \o <<>> = done
        OBVIOUS
  <2>   QED  BY <1>1, <2>1, <2>2, <2>3, <2>4, LineKeeps
<1>3. CASE AssignmentLine
  <2>1. /\ reading = "file" /\ Assigns(cur) /\ Assigned(cur).ok /\ input' = input
        /\ RestOfLine(Assigned(cur).next)
        /\ variables' = insert(NameAt(Past(cur, Blank)), Assigned(cur).value)
        BY <1>3 DEF AssignmentLine, Assigns, Assigned
  <2>2. PICK name, value : name = NameAt(Past(cur, Blank)) /\ value = Assigned(cur).value
        OBVIOUS
  <2>3. Line(cur) = <<<<name, value>>>> /\ EndOfLine(cur) = rule_comment(Assigned(cur).next)
        BY <2>1, <2>2 DEF Line, EndOfLine
  <2>4. LineReads(cur)
        BY <2>1, <2>3 DEF LineReads, RestOfLine, EndsLine
  <2>5. name \in ConfigText /\ value \in ConfigText
    <3>1. Past(cur, Blank) \in 1..Len(input) + 1
      <4>1. Past(cur, Blank) \in cur..Len(input) + 1 /\ Len(input) \in Nat
            BY <1>1, PastIs DEF ConfigTyped, ConfigText
      <4>   QED  BY <1>1, <4>1 DEF ConfigTyped
    <3>   QED  BY <1>1, <2>1, <2>2, <3>1, AssignedType DEF Assigns, Assigned, ConfigTyped
  <2>6. ASSUME NEW done \in Seq(Assignment), variables = SettingsOf(done)
        PROVE  variables' = SettingsOf(done \o Line(cur))
    <3>1. <<name, value>> \in Assignment
          BY <2>5 DEF Assignment
    <3>2. done \o <<<<name, value>>>> = Append(done, <<name, value>>)
          BY <3>1
    <3>3. SettingsOf(Append(done, <<name, value>>)) = insert(name, value)
          BY <2>5, <2>6, InsertIs
    <3>   QED  BY <2>1, <2>2, <2>3, <3>2, <3>3
  <2>   QED  BY <1>1, <2>1, <2>4, <2>6, LineKeeps
<1>4. CASE SyntaxError
  <2>1. reading = "file" /\ reading' = "failed" /\ input' = input /\ cur' = cur
        BY <1>4 DEF SyntaxError
  <2>2. ~LineReads(cur)
        BY <1>4 DEF SyntaxError, LineReads, LineHolds, EndOfLine, Assigns, Assigned, EndsLine
  <2>3. FileMeanings[cur] = {}
        BY <1>1, <2>2, RestIs DEF ConfigTyped
  <2>4. FileMeanings[1] = {}
        BY <1>1, <2>1, <2>3 DEF SettingsSoFar
  <2>5. FileMeanings' = FileMeanings
        BY <2>1, SameMeanings
  <2>   QED  BY <1>1, <2>1, <2>4, <2>5 DEF ConfigTyped, SettingsSoFar
<1>5. CASE UNCHANGED configVars
  <2>1. FileMeanings' = FileMeanings
        BY <1>5, SameMeanings DEF configVars
  <2>   QED  BY <1>1, <1>5, <2>1 DEF configVars, ConfigTyped, SettingsSoFar
<1>   QED  BY <1>1, <1>2, <1>3, <1>4, <1>5 DEF ConfigNext

\* For every configuration file: the settings are those of the one list of
\* assignments that the grammar gives the file, each with its values in their order,
\* and a file is refused only if the grammar has none for it (config_parser::parse,
\* rule_value, config_file::insert).
THEOREM SettingsAreAsWritten == ConfigSpec => []SettingsAsWritten
<1>1. ConfigInit => ConfigTyped /\ SettingsSoFar
      BY SettingsInitially
<1>2. ConfigTyped /\ SettingsSoFar /\ [ConfigNext]_configVars => ConfigTyped' /\ SettingsSoFar'
      BY SettingsPreserved
<1>3. ConfigTyped /\ SettingsSoFar => SettingsAsWritten
      BY DEF SettingsSoFar, SettingsAsWritten
<1>   QED  BY <1>1, <1>2, <1>3, PTL DEF ConfigSpec

-----------------------------------------------------------------------------
\* Recursion from the end: what a function is at n follows from the next two.

GoesBack(f, m, n, end, g) ==
    /\ f[n + 1] = end /\ f[n + 2] = end
    /\ \A k \in m..n : f[k] = g[<<k, f[k + 1], f[k + 2]>>]

LEMMA BackExists ==
    ASSUME NEW A, NEW end \in A, NEW n \in Nat, NEW g \in [(1..n) \X A \X A -> A]
    PROVE  \E f \in [1..n + 2 -> A] : GoesBack(f, 1, n, end, g)
<1>   DEFINE S == {d \in 0..n : \E f \in [1..n + 2 -> A] : GoesBack(f, n + 1 - d, n, end, g)}
<1>1. 0 \in S
  <2>   DEFINE f == [k \in 1..n + 2 |-> end]
  <2>1. f \in [1..n + 2 -> A] /\ f[n + 1] = end /\ f[n + 2] = end
        OBVIOUS
  <2>2. \A k \in n + 1 - 0..n : FALSE
        OBVIOUS
  <2>   HIDE DEF f
  <2>3. GoesBack(f, n + 1 - 0, n, end, g)
        BY <2>1, <2>2 DEF GoesBack
  <2>   QED  BY <2>1, <2>3
<1>2. ASSUME NEW d \in 0..n - 1, d \in S PROVE d + 1 \in S
  <2>   DEFINE m == n + 1 - d
  <2>1. PICK f \in [1..n + 2 -> A] : GoesBack(f, m, n, end, g)
        BY <1>2
  <2>2. m \in 2..n + 1 /\ n + 1 - (d + 1) = m - 1 /\ d + 1 \in 0..n
        OBVIOUS
  <2>   HIDE DEF m
  <2>   DEFINE h == [f EXCEPT ![m - 1] = g[<<m - 1, f[m], f[m + 1]>>]]
  <2>3. m - 1 \in 1..n /\ f[m] \in A /\ f[m + 1] \in A
        BY <2>1, <2>2
  <2>4. g[<<m - 1, f[m], f[m + 1]>>] \in A
        BY <2>3
  <2>5. h \in [1..n + 2 -> A] /\ h[m - 1] = g[<<m - 1, f[m], f[m + 1]>>]
        /\ \A k \in m..n + 2 : h[k] = f[k]
        BY <2>1, <2>2, <2>3, <2>4
  <2>   HIDE DEF h
  <2>6. \A k \in m - 1..n : h[k + 1] = f[k + 1] /\ h[k + 2] = f[k + 2]
        BY <2>2, <2>5
  <2>7. ASSUME NEW k \in m - 1..n PROVE h[k] = g[<<k, h[k + 1], h[k + 2]>>]
    <3>1. CASE k = m - 1
      <4>0. k + 1 = m /\ k + 2 = m + 1
            BY <2>2, <3>1
      <4>1. h[k + 1] = f[m] /\ h[k + 2] = f[m + 1]
            BY <2>6, <4>0
      <4>   QED  BY <2>5, <3>1, <4>1
    <3>2. CASE k # m - 1
      <4>1. k \in m..n /\ k \in m..n + 2
            BY <2>2, <3>2
      <4>2. f[k] = g[<<k, f[k + 1], f[k + 2]>>]
            BY <2>1, <4>1 DEF GoesBack
      <4>   QED  BY <2>5, <2>6, <4>1, <4>2
    <3>   QED  BY <3>1, <3>2
  <2>8. h[n + 1] = end /\ h[n + 2] = end
        BY <2>1, <2>2, <2>5 DEF GoesBack
  <2>9. GoesBack(h, m - 1, n, end, g)
        BY <2>7, <2>8 DEF GoesBack
  <2>   QED  BY <2>2, <2>5, <2>9
<1>3. n \in S
  <2>   HIDE DEF S
  <2>   QED  BY <1>1, <1>2, UpTo
<1>4. n + 1 - n = 1
      OBVIOUS
<1>   QED  BY <1>3, <1>4

-----------------------------------------------------------------------------
\* Texts at places of others.

\* s has t from its n-th place on.
HasAt(s, n, t) == n + Len(t) <= Len(s) + 1 /\ \A i \in 1..Len(t) : s[n + i - 1] = t[i]

LEMMA HasBoth ==
    ASSUME NEW A, NEW s \in Seq(A), NEW n \in Nat \ {0}, NEW a \in Seq(A), NEW b \in Seq(A)
    PROVE  HasAt(s, n, a \o b) <=> HasAt(s, n, a) /\ HasAt(s, n + Len(a), b)
<1>1. /\ Len(a) \in Nat /\ Len(b) \in Nat /\ Len(s) \in Nat /\ Len(a \o b) = Len(a) + Len(b)
      /\ \A k \in 1..Len(a) : (a \o b)[k] = a[k]
      /\ \A k \in 1..Len(b) : (a \o b)[Len(a) + k] = b[k]
      OBVIOUS
<1>   DEFINE ab == a \o b
<1>   HIDE DEF ab
<1>2. ASSUME HasAt(s, n, ab) PROVE HasAt(s, n, a) /\ HasAt(s, n + Len(a), b)
  <2>1. \A k \in 1..Len(a) : k \in 1..Len(ab)
        BY <1>1 DEF ab
  <2>2. HasAt(s, n, a)
        BY <1>1, <1>2, <2>1 DEF HasAt, ab
  <2>3. ASSUME NEW k \in 1..Len(b) PROVE s[n + Len(a) + k - 1] = b[k]
    <3>1. Len(a) + k \in 1..Len(ab) /\ n + Len(a) + k - 1 = n + (Len(a) + k) - 1
          BY <1>1 DEF ab
    <3>2. s[n + (Len(a) + k) - 1] = ab[Len(a) + k]
          BY <1>2, <3>1 DEF HasAt
    <3>   QED  BY <1>1, <3>1, <3>2 DEF ab
  <2>4. n + Len(a) + Len(b) <= Len(s) + 1
        BY <1>1, <1>2 DEF HasAt, ab
  <2>   QED  BY <2>2, <2>3, <2>4 DEF HasAt
<1>3. ASSUME HasAt(s, n, a), HasAt(s, n + Len(a), b) PROVE HasAt(s, n, ab)
  <2>1. ASSUME NEW k \in 1..Len(ab) PROVE s[n + k - 1] = ab[k]
    <3>1. CASE k <= Len(a)
      <4>1. k \in 1..Len(a)
            BY <1>1, <3>1 DEF ab
      <4>   QED  BY <1>1, <1>3, <4>1 DEF HasAt, ab
    <3>2. CASE k > Len(a)
      <4>   DEFINE j == k - Len(a)
      <4>1. j \in 1..Len(b) /\ k = Len(a) + j /\ n + Len(a) + j - 1 = n + k - 1
            BY <1>1, <3>2 DEF ab
      <4>   HIDE DEF j
      <4>2. s[n + Len(a) + j - 1] = b[j]
            BY <1>3, <4>1 DEF HasAt
      <4>   QED  BY <1>1, <4>1, <4>2 DEF ab
    <3>   QED  BY <1>1, <3>1, <3>2 DEF ab
  <2>2. n + Len(ab) <= Len(s) + 1
        BY <1>1, <1>3 DEF HasAt, ab
  <2>   QED  BY <2>1, <2>2 DEF HasAt
<1>   QED  BY <1>2, <1>3 DEF ab

\* A text that is all there is.
LEMMA HasAll ==
    ASSUME NEW A, NEW s \in Seq(A), NEW t \in Seq(A)
    PROVE  HasAt(s, 1, t) /\ Len(t) >= Len(s) <=> s = t
<1>1. Len(s) \in Nat /\ Len(t) \in Nat
      OBVIOUS
<1>2. ASSUME HasAt(s, 1, t), Len(t) >= Len(s) PROVE s = t
  <2>1. Len(s) = Len(t)
        BY <1>1, <1>2 DEF HasAt
  <2>2. ASSUME NEW i \in 1..Len(t) PROVE s[i] = t[i]
    <3>1. 1 + i - 1 = i
          OBVIOUS
    <3>   QED  BY <1>2, <3>1 DEF HasAt
  <2>   QED  BY <2>1, <2>2
<1>3. ASSUME s = t PROVE HasAt(s, 1, t) /\ Len(t) >= Len(s)
      BY <1>1, <1>3 DEF HasAt
<1>   QED  BY <1>2, <1>3

\* How long the first k of some texts are together.
LengthUpTo(texts, k) == Len(FlattenSeq(SubSeq(texts, 1, k)))

LEMMA LengthEnds ==
    ASSUME NEW A, NEW texts \in Seq(Seq(A))
    PROVE  LengthUpTo(texts, 0) = 0 /\ LengthUpTo(texts, Len(texts)) = Len(FlattenSeq(texts))
<1>1. SubSeq(texts, 1, 0) = <<>>
      BY SubSeqEmpty
<1>2. FlattenSeq(<<>>) = <<>>
      BY DEF FlattenSeq
<1>3. Len(<<>>) = 0
      OBVIOUS
<1>4. LengthUpTo(texts, 0) = 0
      BY <1>1, <1>2, <1>3, Zenon DEF LengthUpTo
<1>5. SubSeq(texts, 1, Len(texts)) = texts
      BY SubSeqFull
<1>6. LengthUpTo(texts, Len(texts)) = Len(FlattenSeq(texts))
      BY <1>5, Zenon DEF LengthUpTo
<1>   QED  BY <1>4, <1>6

LEMMA PartHas ==
    ASSUME NEW A, NEW s \in Seq(A), NEW texts \in Seq(Seq(A)), NEW n \in Nat \ {0},
           HasAt(s, n, FlattenSeq(texts)), NEW k \in 0..Len(texts) - 1
    PROVE  LET at == n + LengthUpTo(texts, k)
           IN  /\ at \in Nat \ {0} /\ HasAt(s, at, texts[k + 1]) /\ texts[k + 1] \in Seq(A)
               /\ n + LengthUpTo(texts, k + 1) = at + Len(texts[k + 1])
<1>   DEFINE before == FlattenSeq(SubSeq(texts, 1, k))
             part   == texts[k + 1]
             whole  == FlattenSeq(texts)
             more   == FlattenSeq(SubSeq(texts, 1, k + 1))
             at     == n + Len(before)
<1>1. /\ before \in Seq(A) /\ part \in Seq(A) /\ whole \in Seq(A)
      /\ Len(before) + Len(part) <= Len(whole)
      /\ \A i \in 1..Len(part) : whole[Len(before) + i] = part[i]
      /\ more = before \o part
      BY FlattenParts
<1>2. /\ \A i \in 1..Len(whole) : s[n + i - 1] = whole[i]
      /\ n + Len(whole) <= Len(s) + 1
      BY Zenon DEF HasAt
<1>3. LengthUpTo(texts, k) = Len(before) /\ LengthUpTo(texts, k + 1) = Len(more)
      BY Zenon DEF LengthUpTo
<1>   HIDE DEF before, part, whole, more
<1>4. at \in Nat \ {0} /\ Len(before) \in Nat /\ Len(part) \in Nat /\ Len(whole) \in Nat
      /\ Len(s) \in Nat
      BY <1>1
<1>5. HasAt(s, at, part)
  <2>1. ASSUME NEW i \in 1..Len(part) PROVE s[at + i - 1] = part[i]
    <3>   DEFINE j == Len(before) + i
    <3>1. j \in 1..Len(whole) /\ n + j - 1 = at + i - 1 /\ whole[j] = part[i]
          BY <1>1, <1>4
    <3>   HIDE DEF j, at
    <3>   QED  BY <1>2, <3>1
  <2>2. at + Len(part) <= Len(s) + 1
        BY <1>1, <1>2, <1>4
  <2>   HIDE DEF at
  <2>   QED  BY <2>1, <2>2 DEF HasAt
<1>6. n + Len(more) = at + Len(part)
      BY <1>1, <1>4
<1>   QED  BY <1>1, <1>3, <1>4, <1>5, <1>6 DEF part

LEMMA AppendBehind ==
    ASSUME NEW A, NEW s \in A, NEW t \in Seq(A), NEW x \in A
    PROVE  <<s>> \o t \in Seq(A) /\ <<s>> \o Append(t, x) = Append(<<s>> \o t, x)
OBVIOUS

\* The first of some texts.
LEMMA FlattenFirst ==
    ASSUME NEW A, NEW s \in Seq(A), NEW seqs \in Seq(Seq(A))
    PROVE  FlattenSeq(<<s>> \o seqs) = s \o FlattenSeq(seqs)
<1>   DEFINE n == Len(seqs)
             U(m) == FlattenSeq(SubSeq(seqs, 1, m))
             V(m) == FlattenSeq(<<s>> \o SubSeq(seqs, 1, m))
             S == {m \in 0..n : V(m) = s \o U(m)}
<1>1. n \in Nat
      OBVIOUS
<1>2. 0 \in S
  <2>1. SubSeq(seqs, 1, 0) = <<>>
        BY SubSeqEmpty
  <2>2. FlattenSeq(<<>>) = <<>>
        BY DEF FlattenSeq
  <2>3. <<>> \in Seq(Seq(A)) /\ Append(<<>>, s) = <<s>> /\ <<s>> \o <<>> = <<s>>
        /\ s \o <<>> = s /\ <<>> \o s = s
        OBVIOUS
  <2>4. FlattenSeq(<<s>>) = s
    <3>1. FlattenSeq(Append(<<>>, s)) = FlattenSeq(<<>>) \o s
          BY <2>3, FlattenAppend
    <3>   QED  BY <2>2, <2>3, <3>1
  <2>5. V(0) = s \o U(0)
        BY <2>1, <2>2, <2>3, <2>4
  <2>6. 0 \in 0..n
        BY <1>1
  <2>   HIDE DEF U, V, n
  <2>   QED  BY <2>5, <2>6
<1>3. ASSUME NEW m \in 0..n - 1, m \in S PROVE m + 1 \in S
  <2>   DEFINE t == SubSeq(seqs, 1, m)
             x == seqs[m + 1]
  <2>1. t \in Seq(Seq(A)) /\ x \in Seq(A) /\ SubSeq(seqs, 1, m + 1) = Append(t, x)
        BY SubSeqGrows
  <2>   HIDE DEF t, x
  <2>2. <<s>> \o t \in Seq(Seq(A)) /\ <<s>> \o Append(t, x) = Append(<<s>> \o t, x)
    <3>   DEFINE B == Seq(A)
    <3>1. s \in B /\ x \in B /\ t \in Seq(B)
          BY <2>1
    <3>   HIDE DEF B
    <3>2. <<s>> \o t \in Seq(B) /\ <<s>> \o Append(t, x) = Append(<<s>> \o t, x)
          BY <3>1, AppendBehind, SMTT(30)
    <3>   QED  BY <3>2 DEF B
  <2>3. FlattenSeq(Append(<<s>> \o t, x)) = FlattenSeq(<<s>> \o t) \o x
        BY <2>1, <2>2, FlattenAppend
  <2>4. FlattenSeq(Append(t, x)) = FlattenSeq(t) \o x
        BY <2>1, FlattenAppend
  <2>5. FlattenSeq(<<s>> \o t) = s \o FlattenSeq(t)
        BY <1>3 DEF t
  <2>6. FlattenSeq(t) \in Seq(A)
        BY <2>1, FlattenType
  <2>7. \A u \in Seq(A) : (s \o u) \o x = s \o (u \o x)
        BY <2>1
  <2>8. V(m + 1) = s \o U(m + 1)
        BY <2>1, <2>2, <2>3, <2>4, <2>5, <2>6, <2>7
  <2>9. m + 1 \in 0..n
        BY <1>1
  <2>   QED  BY <2>8, <2>9
<1>4. n \in S
  <2>   HIDE DEF S
  <2>1. \A m \in 0..n : m \in S
        BY <1>1, <1>2, <1>3, UpTo
  <2>2. n \in 0..n
        BY <1>1
  <2>   QED  BY <2>1, <2>2
<1>5. SubSeq(seqs, 1, n) = seqs
      BY SubSeqFull
<1>   QED  BY <1>4, <1>5

-----------------------------------------------------------------------------
\* CSV fields.

CsvText == Seq(CsvChar)

FieldResults == {NoField} \cup {Field(v, n) : v \in CsvText, n \in 1..Len(csv) + 1}

LEMMA FieldIs ==
    /\ \A v, n : Field(v, n).ok /\ Field(v, n).value = v /\ Field(v, n).next = n
    /\ ~NoField.ok
BY DEF Field, NoField

LEMMA FieldsAre ==
    ASSUME NEW field \in FieldResults
    PROVE  field = NoField \/ \E v \in CsvText, n \in 1..Len(csv) + 1 : field = Field(v, n)
BY DEF FieldResults

LEMMA WithFirstType ==
    ASSUME NEW char \in CsvChar, NEW field \in FieldResults
    PROVE  WithFirst(char, field) \in FieldResults
<1>1. CASE field = NoField
      BY <1>1, FieldIs DEF WithFirst, FieldResults
<1>2. ASSUME NEW v \in CsvText, NEW n \in 1..Len(csv) + 1, field = Field(v, n)
      PROVE  WithFirst(char, field) \in FieldResults
  <2>1. WithFirst(char, field) = Field(<<char>> \o v, n)
        BY <1>2, FieldIs DEF WithFirst
  <2>2. <<char>> \o v \in CsvText
        BY DEF CsvText
  <2>   QED  BY <2>1, <2>2 DEF FieldResults
<1>   QED  BY <1>1, <1>2, FieldsAre

\* The recursion is defined at every place.
EscapedAt(n, f) ==
    IF n > Len(csv) THEN NoField
    ELSE IF csv[n] # "quote" THEN WithFirst(csv[n], f[n + 1])
    ELSE IF n < Len(csv) /\ csv[n + 1] = "quote" THEN WithFirst("quote", f[n + 2])
    ELSE Field(<<>>, n + 1)

LEMMA EscapedIs ==
    ASSUME csv \in CsvText
    PROVE  \A n \in 1..Len(csv) + 1 : EscapedFrom[n] = EscapedAt(n, EscapedFrom)
<1>   DEFINE A == FieldResults
             L == Len(csv)
             step(k, a, b) == IF csv[k] # "quote" THEN WithFirst(csv[k], a)
                              ELSE IF k < L /\ csv[k + 1] = "quote" THEN WithFirst("quote", b)
                              ELSE Field(<<>>, k + 1)
             g == [w \in (1..L) \X A \X A |-> step(w[1], w[2], w[3])]
             F(f) == f = [n \in 1..Len(csv) + 1 |->
                            IF n > Len(csv) THEN NoField
                            ELSE IF csv[n] # "quote" THEN WithFirst(csv[n], f[n + 1])
                            ELSE IF n < Len(csv) /\ csv[n + 1] = "quote" THEN WithFirst("quote", f[n + 2])
                            ELSE Field(<<>>, n + 1)]
<1>1. L \in Nat /\ \A k \in 1..L : csv[k] \in CsvChar
      BY DEF CsvText
<1>2. NoField \in A
      BY DEF FieldResults
<1>3. ASSUME NEW k \in 1..L, NEW a \in A, NEW b \in A PROVE step(k, a, b) \in A
  <2>1. csv[k] \in CsvChar /\ "quote" \in CsvChar
        BY <1>1 DEF CsvChar, Special
  <2>2. WithFirst(csv[k], a) \in A /\ WithFirst("quote", b) \in A
        BY <2>1, WithFirstType
  <2>3. <<>> \in CsvText /\ k + 1 \in 1..Len(csv) + 1
        BY <1>1 DEF CsvText
  <2>4. Field(<<>>, k + 1) \in A
        BY <2>3 DEF FieldResults
  <2>   HIDE DEF A
  <2>   QED  BY <2>2, <2>4
<1>4. g \in [(1..L) \X A \X A -> A]
  <2>   HIDE DEF A, step, L
  <2>   QED  BY <1>3
<1>5. \A k \in 1..L : \A a, b \in A : g[<<k, a, b>>] = step(k, a, b)
  <2>   HIDE DEF A, step, L
  <2>   QED  OBVIOUS
<1>   HIDE DEF g
<1>6. PICK h \in [1..L + 2 -> A] : GoesBack(h, 1, L, NoField, g)
  <2>   HIDE DEF A, L
  <2>   QED  BY <1>1, <1>2, <1>4, BackExists
<1>7. \E f : F(f)
  <2>   DEFINE f == [n \in 1..L + 1 |-> h[n]]
  <2>1. h[L + 1] = NoField /\ h[L + 2] = NoField
        BY <1>6 DEF GoesBack
  <2>2. ASSUME NEW n \in 1..L + 1
        PROVE  f[n] = IF n > Len(csv) THEN NoField
                      ELSE IF csv[n] # "quote" THEN WithFirst(csv[n], f[n + 1])
                      ELSE IF n < Len(csv) /\ csv[n + 1] = "quote" THEN WithFirst("quote", f[n + 2])
                      ELSE Field(<<>>, n + 1)
    <3>1. CASE n > L
      <4>1. n = L + 1
            BY <1>1, <3>1
      <4>   QED  BY <2>1, <3>1, <4>1
    <3>2. CASE n <= L
      <4>1. n \in 1..L /\ n + 1 \in 1..L + 1 /\ h[n] \in A /\ h[n + 1] \in A /\ h[n + 2] \in A
            BY <1>1, <3>2
      <4>2. h[n] = step(n, h[n + 1], h[n + 2])
        <5>1. h[n] = g[<<n, h[n + 1], h[n + 2]>>]
              BY <1>6, <4>1 DEF GoesBack
        <5>   HIDE DEF step, A, L
        <5>   QED  BY <1>5, <4>1, <5>1
      <4>3. f[n] = h[n] /\ f[n + 1] = h[n + 1]
            BY <4>1
      <4>4. n < Len(csv) => f[n + 2] = h[n + 2]
        <5>1. n < Len(csv) => n + 2 \in 1..L + 1
              BY <1>1, <4>1
        <5>   QED  BY <5>1
      <4>5. ~(n > Len(csv))
            BY <1>1, <4>1
      <4>   HIDE DEF f
      <4>   QED  BY <4>2, <4>3, <4>4, <4>5
    <3>   QED  BY <1>1, <3>1, <3>2
  <2>3. F(f)
    <3>   DEFINE E(n) == IF n > Len(csv) THEN NoField
                      ELSE IF csv[n] # "quote" THEN WithFirst(csv[n], f[n + 1])
                      ELSE IF n < Len(csv) /\ csv[n + 1] = "quote" THEN WithFirst("quote", f[n + 2])
                      ELSE Field(<<>>, n + 1)
    <3>1. f = [n \in 1..L + 1 |-> f[n]]
          OBVIOUS
    <3>2. \A n \in 1..L + 1 : f[n] = E(n)
          BY <2>2
    <3>   HIDE DEF f
    <3>3. [n \in 1..L + 1 |-> f[n]] = [n \in 1..L + 1 |-> E(n)]
      <4>   HIDE DEF E
      <4>   QED  BY <3>2
    <3>   QED  BY <3>1, <3>3
  <2>   HIDE DEF F
  <2>   QED  BY <2>3
<1>8. EscapedFrom = CHOOSE f : F(f)
      BY DEF EscapedFrom
<1>9. F(EscapedFrom)
  <2>   HIDE DEF F
  <2>   QED  BY <1>7, <1>8
<1>   QED  BY <1>9 DEF EscapedAt

LEMMA EscapedType ==
    ASSUME csv \in CsvText, NEW n \in 1..Len(csv) + 1
    PROVE  EscapedFrom[n] \in FieldResults
<1>   DEFINE L == Len(csv)
             S == {d \in 0..L : \A k \in L + 1 - d..L + 1 : EscapedFrom[k] \in FieldResults}
<1>1. L \in Nat /\ \A k \in 1..L : csv[k] \in CsvChar
      BY DEF CsvText
<1>2. 0 \in S
  <2>1. L + 1 \in 1..L + 1 /\ L + 1 > Len(csv) /\ L + 1 - 0 = L + 1 /\ 0 \in 0..L
        BY <1>1
  <2>2. EscapedFrom[L + 1] = NoField
        BY <2>1, EscapedIs DEF EscapedAt
  <2>3. \A k \in L + 1..L + 1 : k = L + 1
        BY <1>1
  <2>   QED  BY <2>1, <2>2, <2>3 DEF FieldResults
<1>3. ASSUME NEW d \in 0..L - 1, d \in S PROVE d + 1 \in S
  <2>   DEFINE m == L + 1 - (d + 1)
  <2>1. m \in 1..L /\ m + 1 = L + 1 - d /\ d + 1 \in 0..L
        BY <1>1
  <2>   HIDE DEF m
  <2>2. \A k \in m + 1..L + 1 : EscapedFrom[k] \in FieldResults
        BY <1>3, <2>1
  <2>3. EscapedFrom[m] = EscapedAt(m, EscapedFrom) /\ csv[m] \in CsvChar /\ ~(m > Len(csv))
        BY <1>1, <2>1, EscapedIs
  <2>4. m + 1 \in m + 1..L + 1 /\ (m < Len(csv) => m + 2 \in m + 1..L + 1)
        BY <1>1, <2>1
  <2>5. "quote" \in CsvChar /\ Field(<<>>, m + 1) \in FieldResults
    <3>1. <<>> \in CsvText /\ m + 1 \in 1..Len(csv) + 1
          BY <1>1, <2>1 DEF CsvText
    <3>   QED  BY <3>1 DEF FieldResults, CsvChar, Special
  <2>6. EscapedFrom[m] \in FieldResults
        BY <2>2, <2>3, <2>4, <2>5, WithFirstType DEF EscapedAt
  <2>7. \A k \in m..L + 1 : k = m \/ k \in m + 1..L + 1
        BY <1>1, <2>1
  <2>8. \A k \in m..L + 1 : EscapedFrom[k] \in FieldResults
        BY <2>2, <2>6, <2>7
  <2>   QED  BY <2>1, <2>8 DEF m
<1>4. L \in S
  <2>   HIDE DEF S
  <2>1. \A d \in 0..L : d \in S
        BY <1>1, <1>2, <1>3, UpTo
  <2>2. L \in 0..L
        BY <1>1
  <2>   QED  BY <2>1, <2>2
<1>5. L + 1 - L = 1
      BY <1>1
<1>   QED  BY <1>4, <1>5

LEMMA CharsAre ==
    /\ "quote" \in CsvChar /\ "separator" \in CsvChar /\ "\r" \in CsvChar /\ "\n" \in CsvChar
    /\ "bom" \in CsvChar /\ "quote" # "separator" /\ "quote" # "\r" /\ "quote" # "\n"
    /\ "separator" # "\r" /\ "separator" # "\n" /\ "\r" # "\n" /\ "bom" # "quote"
    /\ "bom" \notin Special
BY DEF CsvChar, Special

LEMMA TwiceType ==
    ASSUME NEW c \in CsvChar
    PROVE  Twice(c) \in CsvText
BY CharsAre DEF Twice, CsvText

LEMMA TwiceLength ==
    ASSUME NEW c
    PROVE  Len(Twice(c)) = IF c = "quote" THEN 2 ELSE 1
<1>1. Len(<<"quote", "quote">>) = 2 /\ Len(<<c>>) = 1
      OBVIOUS
<1>   QED  BY <1>1 DEF Twice

LEMMA TextIs ==
    ASSUME NEW s \in CsvText
    PROVE  s \in Seq(CsvChar) /\ Len(s) \in Nat /\ \A k \in 1..Len(s) : s[k] \in CsvChar
BY DEF CsvText

LEMMA ThreeTogether ==
    ASSUME NEW A, NEW a \in Seq(A), NEW b \in Seq(A), NEW c \in Seq(A)
    PROVE  /\ (a \o b) \o c = a \o (b \o c) /\ b \o c \in Seq(A)
           /\ Len(a \o b) = Len(a) + Len(b) /\ Len(b) \in Nat
OBVIOUS

LEMMA TwoTogether ==
    ASSUME NEW A, NEW a \in Seq(A), NEW b \in Seq(A)
    PROVE  /\ a \o b \in Seq(A) /\ Len(a \o b) = Len(a) + Len(b) /\ Len(a) \in Nat /\ Len(b) \in Nat
           /\ Len(a) > 0 => (a \o b)[1] = a[1]
OBVIOUS

LEMMA DoubledIs ==
    /\ Doubled(<<>>) = <<>>
    /\ \A f \in CsvText : Doubled(f) \in CsvText
    /\ \A c \in CsvChar, f \in CsvText : Doubled(<<c>> \o f) = Twice(c) \o Doubled(f)
<1>   DEFINE D(f) == [n \in DOMAIN f |-> Twice(f[n])]
<1>1. \A f \in CsvText : D(f) \in Seq(CsvText) /\ Len(D(f)) = Len(f)
                         /\ \A n \in 1..Len(f) : D(f)[n] = Twice(f[n])
  <2>   TAKE f \in CsvText
  <2>1. \A n \in 1..Len(f) : f[n] \in CsvChar
        BY DEF CsvText
  <2>2. Len(f) \in Nat /\ DOMAIN f = 1..Len(f)
        BY DEF CsvText
  <2>3. \A n \in 1..Len(f) : Twice(f[n]) \in CsvText
        BY <2>1, TwiceType
  <2>4. D(f) \in [1..Len(f) -> CsvText]
        BY <2>2, <2>3
  <2>   HIDE DEF D
  <2>5. D(f) \in Seq(CsvText) /\ Len(D(f)) = Len(f)
        BY <2>2, <2>4
  <2>6. \A n \in 1..Len(f) : D(f)[n] = Twice(f[n])
        BY <2>2 DEF D
  <2>   QED  BY <2>5, <2>6
<1>2. Doubled(<<>>) = <<>>
  <2>1. D(<<>>) = <<>>
        OBVIOUS
  <2>2. FlattenSeq(<<>>) = <<>>
        BY DEF FlattenSeq
  <2>   QED  BY <2>1, <2>2 DEF Doubled
<1>3. ASSUME NEW f \in CsvText PROVE Doubled(f) \in CsvText
  <2>1. FlattenSeq(D(f)) \in Seq(CsvChar)
        BY <1>1, FlattenType DEF CsvText
  <2>   QED  BY <2>1 DEF Doubled, CsvText
<1>4. ASSUME NEW c \in CsvChar, NEW f \in CsvText
      PROVE  Doubled(<<c>> \o f) = Twice(c) \o Doubled(f)
  <2>   DEFINE cf == <<c>> \o f
  <2>1. /\ cf \in CsvText /\ Len(cf) = Len(f) + 1 /\ Len(f) \in Nat /\ cf[1] = c
        /\ \A n \in 1..Len(f) : cf[n + 1] = f[n]
        BY DEF CsvText
  <2>   HIDE DEF cf
  <2>2. /\ D(cf) \in Seq(CsvText) /\ Len(D(cf)) = Len(f) + 1
        /\ D(f) \in Seq(CsvText) /\ Len(D(f)) = Len(f)
        BY <1>1, <2>1
  <2>3. \A n \in 1..Len(f) + 1 : D(cf)[n] = IF n = 1 THEN Twice(c) ELSE D(f)[n - 1]
    <3>   TAKE n \in 1..Len(f) + 1
    <3>1. n \in 1..Len(cf) /\ (n # 1 => n - 1 \in 1..Len(f) /\ n - 1 + 1 = n)
          BY <2>1
    <3>2. D(cf)[n] = Twice(cf[n])
          BY <1>1, <2>1, <3>1
    <3>3. n # 1 => cf[n] = f[n - 1] /\ D(f)[n - 1] = Twice(f[n - 1])
          BY <1>1, <2>1, <3>1
    <3>   HIDE DEF D
    <3>   QED  BY <2>1, <3>2, <3>3
  <2>4. Twice(c) \in CsvText
        BY TwiceType
  <2>5. D(cf) = <<Twice(c)>> \o D(f)
    <3>   DEFINE d == D(f)
                 e == D(cf)
                 t == Twice(c)
    <3>   HIDE DEF d, e, t
    <3>1. d \in Seq(CsvText) /\ e \in Seq(CsvText) /\ t \in CsvText /\ Len(e) = Len(d) + 1
          /\ \A n \in 1..Len(d) + 1 : e[n] = IF n = 1 THEN t ELSE d[n - 1]
          BY <2>2, <2>3, <2>4 DEF d, e, t
    <3>2. /\ <<t>> \o d \in Seq(CsvText) /\ Len(<<t>> \o d) = Len(d) + 1 /\ Len(d) \in Nat
          /\ \A n \in 1..Len(d) + 1 : (<<t>> \o d)[n] = IF n = 1 THEN t ELSE d[n - 1]
          BY <3>1
    <3>3. e = <<t>> \o d
          BY <3>1, <3>2
    <3>   QED  BY <3>3 DEF d, e, t
  <2>6. FlattenSeq(<<Twice(c)>> \o D(f)) = Twice(c) \o FlattenSeq(D(f))
    <3>   HIDE DEF D
    <3>   QED  BY <2>2, <2>4, FlattenFirst DEF CsvText
  <2>   QED  BY <2>5, <2>6 DEF Doubled, cf
<1>   QED  BY <1>2, <1>3, <1>4

\* The head and the rest of a text.
LEMMA HeadAndRest ==
    ASSUME NEW A, NEW v \in Seq(A), v # <<>>
    PROVE  /\ v[1] \in A /\ Tail(v) \in Seq(A) /\ v = <<v[1]>> \o Tail(v)
           /\ Len(v) \in Nat \ {0} /\ Len(Tail(v)) = Len(v) - 1
OBVIOUS

LEMMA HasEmpty ==
    ASSUME NEW s, NEW n \in Nat, n <= Len(s) + 1
    PROVE  HasAt(s, n, <<>>)
BY DEF HasAt

LEMMA HasOne ==
    ASSUME NEW s, NEW n \in Nat, NEW c
    PROVE  HasAt(s, n, <<c>>) <=> n <= Len(s) /\ s[n] = c
<1>1. Len(<<c>>) = 1 /\ <<c>>[1] = c /\ \A i \in 1..1 : i = 1
      OBVIOUS
<1>2. n + 1 - 1 = n
      OBVIOUS
<1>   DEFINE t == <<c>>
<1>   HIDE DEF t
<1>   QED  BY <1>1, <1>2 DEF HasAt, t

LEMMA HasTwo ==
    ASSUME NEW s, NEW n \in Nat, NEW c, NEW d, Len(s) \in Nat
    PROVE  HasAt(s, n, <<c, d>>) <=> n < Len(s) /\ s[n] = c /\ s[n + 1] = d
<1>1. Len(<<c, d>>) = 2 /\ <<c, d>>[1] = c /\ <<c, d>>[2] = d /\ \A i \in 1..2 : i = 1 \/ i = 2
      OBVIOUS
<1>2. n + 1 - 1 = n /\ n + 2 - 1 = n + 1
      OBVIOUS
<1>   DEFINE t == <<c, d>>
<1>   HIDE DEF t
<1>   QED  BY <1>1, <1>2 DEF HasAt, t

\* A character of a quoted field, and the rest of it.
LEMMA DoubledParts ==
    ASSUME NEW c \in CsvChar, NEW u \in CsvText
    PROVE  LET t  == Twice(c)
               dq == Doubled(u) \o <<"quote">>
               w  == <<c>> \o u
           IN  /\ w \in CsvText /\ t \in CsvText /\ dq \in CsvText
               /\ Doubled(w) \o <<"quote">> = t \o dq
               /\ Len(Doubled(w)) = Len(t) + Len(Doubled(u)) /\ Len(Doubled(u)) \in Nat
               /\ Len(t) = IF c = "quote" THEN 2 ELSE 1
<1>   DEFINE q == <<"quote">>
<1>1. q \in CsvText
      BY CharsAre DEF CsvText
<1>   HIDE DEF q
<1>2. <<c>> \o u \in CsvText
      BY DEF CsvText
<1>3. PICK t : t = Twice(c)
      OBVIOUS
<1>4. PICK d : d = Doubled(u)
      OBVIOUS
<1>5. t \in CsvText /\ d \in CsvText
      BY <1>3, <1>4, DoubledIs, TwiceType
<1>8. Doubled(<<c>> \o u) = t \o d
      BY <1>3, <1>4, DoubledIs
<1>6. (t \o d) \o q = t \o (d \o q) /\ d \o q \in CsvText /\ Len(t \o d) = Len(t) + Len(d)
      /\ Len(d) \in Nat
  <2>1. t \in Seq(CsvChar) /\ d \in Seq(CsvChar) /\ q \in Seq(CsvChar)
        BY <1>1, <1>5, TextIs
  <2>2. (t \o d) \o q = t \o (d \o q) /\ d \o q \in Seq(CsvChar) /\ Len(t \o d) = Len(t) + Len(d)
        /\ Len(d) \in Nat
        BY <2>1, ThreeTogether
  <2>   QED  BY <2>2, Zenon DEF CsvText
<1>7. Len(t) = IF c = "quote" THEN 2 ELSE 1
      BY <1>3, TwiceLength
<1>   QED  BY <1>2, <1>3, <1>4, <1>5, <1>6, <1>7, <1>8 DEF q

LEMMA OneMore ==
    ASSUME NEW c, NEW u, NEW n
    PROVE  WithFirst(c, Field(u, n)) = Field(<<c>> \o u, n)
BY FieldIs DEF WithFirst

\* What is parsed where a doubled character is.
LEMMA EscapedOne ==
    ASSUME csv \in CsvText, NEW c \in CsvChar, NEW m \in Nat \ {0}, HasAt(csv, m, Twice(c))
    PROVE  EscapedFrom[m] = WithFirst(c, EscapedFrom[m + Len(Twice(c))])
<1>1. Len(csv) \in Nat
      BY TextIs
<1>2. CASE c = "quote"
  <2>1. HasAt(csv, m, <<c, c>>) /\ Len(Twice(c)) = 2
        BY <1>2, TwiceLength DEF Twice
  <2>2. m < Len(csv) /\ csv[m] = c /\ csv[m + 1] = c
        BY <1>1, <2>1, HasTwo
  <2>3. m \in 1..Len(csv) + 1 /\ ~(m > Len(csv))
        BY <1>1, <2>2
  <2>   QED  BY <1>2, <2>1, <2>2, <2>3, EscapedIs DEF EscapedAt
<1>3. CASE c # "quote"
  <2>1. HasAt(csv, m, <<c>>) /\ Len(Twice(c)) = 1
        BY <1>3, TwiceLength DEF Twice
  <2>2. m <= Len(csv) /\ csv[m] = c
        BY <1>1, <2>1, HasOne
  <2>3. m \in 1..Len(csv) + 1 /\ ~(m > Len(csv))
        BY <1>1, <2>2
  <2>   QED  BY <1>3, <2>1, <2>2, <2>3, EscapedIs DEF EscapedAt
<1>   QED  BY <1>2, <1>3

\* A quoted field that is there is read.
LEMMA EscapedReads ==
    ASSUME csv \in CsvText, NEW v \in CsvText, NEW n \in Nat \ {0},
           HasAt(csv, n, Doubled(v) \o <<"quote">>),
           n + Len(Doubled(v)) < Len(csv) => csv[n + Len(Doubled(v)) + 1] # "quote"
    PROVE  EscapedFrom[n] = Field(v, n + Len(Doubled(v)) + 1)
<1>   DEFINE There(w, m) == HasAt(csv, m, Doubled(w) \o <<"quote">>)
             Ends(m) == m < Len(csv) => csv[m + 1] # "quote"
             Reads(w, m) == There(w, m) /\ Ends(m + Len(Doubled(w)))
                                => EscapedFrom[m] = Field(w, m + Len(Doubled(w)) + 1)
             S == {k \in 0..Len(v) : \A w \in CsvText, m \in Nat \ {0} : Len(w) = k => Reads(w, m)}
<1>1. Len(v) \in Nat /\ Len(csv) \in Nat
      BY TextIs
<1>2. ASSUME NEW w \in CsvText, NEW m \in Nat \ {0}, Len(w) = 0 PROVE Reads(w, m)
  <2>   SUFFICES ASSUME There(w, m), Ends(m + Len(Doubled(w)))
                 PROVE  EscapedFrom[m] = Field(w, m + Len(Doubled(w)) + 1)
        OBVIOUS
  <2>1. w = <<>>
        BY <1>2 DEF CsvText
  <2>2. Doubled(w) = <<>> /\ Len(<<>>) = 0 /\ <<>> \o <<"quote">> = <<"quote">>
        BY <2>1, DoubledIs
  <2>3. HasAt(csv, m, <<"quote">>) /\ Ends(m)
        BY <2>2
  <2>4. m <= Len(csv) /\ csv[m] = "quote"
        BY <2>3, HasOne
  <2>5. m \in 1..Len(csv) + 1 /\ ~(m > Len(csv))
        BY <1>1, <2>4
  <2>6. EscapedFrom[m] = Field(<<>>, m + 1)
        BY <2>3, <2>4, <2>5, EscapedIs DEF EscapedAt
  <2>   QED  BY <2>1, <2>2, <2>6
<1>3. ASSUME NEW c \in CsvChar, NEW u \in CsvText, \A m \in Nat \ {0} : Reads(u, m), NEW m \in Nat \ {0}
      PROVE  Reads(<<c>> \o u, m)
  <2>   SUFFICES ASSUME There(<<c>> \o u, m), Ends(m + Len(Doubled(<<c>> \o u)))
                 PROVE  EscapedFrom[m] = Field(<<c>> \o u, m + Len(Doubled(<<c>> \o u)) + 1)
        OBVIOUS
  <2>   HIDE DEF S
  <2>1. PICK w, t, dq : w = <<c>> \o u /\ t = Twice(c) /\ dq = Doubled(u) \o <<"quote">>
        OBVIOUS
  <2>2. /\ t \in CsvText /\ dq \in CsvText /\ Doubled(w) \o <<"quote">> = t \o dq
        /\ Len(Doubled(w)) = Len(t) + Len(Doubled(u)) /\ Len(Doubled(u)) \in Nat /\ Len(t) \in Nat
        BY <2>1, DoubledParts, TextIs
  <2>3. HasAt(csv, m, t) /\ HasAt(csv, m + Len(t), dq)
    <3>1. csv \in Seq(CsvChar) /\ t \in Seq(CsvChar) /\ dq \in Seq(CsvChar)
          BY <2>2, TextIs
    <3>2. HasAt(csv, m, t \o dq)
          BY <2>1, <2>2
    <3>   HIDE DEF There, Ends, Reads
    <3>   QED  BY <3>1, <3>2, HasBoth
  <2>   DEFINE j == m + Len(t)
  <2>4. j \in Nat \ {0} /\ j + Len(Doubled(u)) = m + Len(Doubled(w))
        BY <2>2
  <2>5. There(u, j) /\ Ends(j + Len(Doubled(u)))
        BY <2>1, <2>3, <2>4
  <2>6. EscapedFrom[j] = Field(u, j + Len(Doubled(u)) + 1)
        BY <1>3, <2>4, <2>5
  <2>7. EscapedFrom[m] = WithFirst(c, EscapedFrom[j])
        BY <2>1, <2>3, EscapedOne
  <2>8. WithFirst(c, EscapedFrom[j]) = Field(w, j + Len(Doubled(u)) + 1)
        BY <2>1, <2>6, OneMore
  <2>   HIDE DEF There, Ends, j
  <2>   QED  BY <2>1, <2>4, <2>7, <2>8
<1>   HIDE DEF Reads
<1>4. 0 \in S
      BY <1>1, <1>2
<1>5. ASSUME NEW k \in 0..Len(v) - 1, k \in S PROVE k + 1 \in S
  <2>1. ASSUME NEW w \in CsvText, NEW m \in Nat \ {0}, Len(w) = k + 1 PROVE Reads(w, m)
    <3>1. w # <<>> /\ Len(w) - 1 = k
          BY <2>1, <1>1
    <3>2. PICK c \in CsvChar, u \in CsvText : w = <<c>> \o u /\ Len(u) = k
      <4>   HIDE DEF S
      <4>   QED  BY <3>1, HeadAndRest DEF CsvText
    <3>3. \A i \in Nat \ {0} : Reads(u, i)
          BY <1>5, <3>2
    <3>   HIDE DEF S
    <3>   QED  BY <1>3, <3>2, <3>3
  <2>2. k + 1 \in 0..Len(v)
        BY <1>1
  <2>   QED  BY <2>1, <2>2
<1>6. Len(v) \in S
  <2>   HIDE DEF S
  <2>1. \A k \in 0..Len(v) : k \in S
        BY <1>1, <1>4, <1>5, UpTo
  <2>2. Len(v) \in 0..Len(v)
        BY <1>1
  <2>   QED  BY <2>1, <2>2
<1>7. Reads(v, n)
      BY <1>6
<1>   QED  BY <1>7 DEF Reads

\* And what is read is there.
LEMMA EscapedWritten ==
    ASSUME csv \in CsvText, NEW n \in 1..Len(csv) + 1, EscapedFrom[n].ok
    PROVE  \E v \in CsvText :
               /\ EscapedFrom[n] = Field(v, n + Len(Doubled(v)) + 1)
               /\ HasAt(csv, n, Doubled(v) \o <<"quote">>)
<1>   DEFINE L == Len(csv)
             Reads(m) == \E v \in CsvText :
                 /\ EscapedFrom[m] = Field(v, m + Len(Doubled(v)) + 1)
                 /\ HasAt(csv, m, Doubled(v) \o <<"quote">>)
             Says(m) == EscapedFrom[m].ok => Reads(m)
             S == {d \in 0..L : \A m \in L + 1 - d..L + 1 : Says(m)}
<1>1. L \in Nat /\ \A k \in 1..L : csv[k] \in CsvChar
      BY TextIs
<1>2. Says(L + 1)
  <2>1. L + 1 \in 1..L + 1 /\ L + 1 > Len(csv)
        BY <1>1
  <2>2. EscapedFrom[L + 1] = NoField
        BY <2>1, EscapedIs DEF EscapedAt
  <2>   QED  BY <2>2, FieldIs
<1>3. ASSUME NEW m \in 1..L, \A k \in m + 1..L + 1 : Says(k) PROVE Says(m)
  <2>   HIDE DEF S
  <2>1. EscapedFrom[m] = EscapedAt(m, EscapedFrom) /\ csv[m] \in CsvChar /\ ~(m > Len(csv))
        /\ m \in Nat \ {0}
        BY <1>1, EscapedIs
  <2>2. ASSUME NEW c \in CsvChar, m + Len(Twice(c)) \in m + 1..L + 1, HasAt(csv, m, Twice(c)),
               EscapedFrom[m].ok
        PROVE  Reads(m)
    <3>1. EscapedFrom[m] = WithFirst(c, EscapedFrom[m + Len(Twice(c))])
          BY <2>1, <2>2, EscapedOne
    <3>2. EscapedFrom[m + Len(Twice(c))].ok
          BY <2>2, <3>1, FieldIs DEF WithFirst
    <3>3. PICK u \in CsvText : /\ EscapedFrom[m + Len(Twice(c))]
                                      = Field(u, m + Len(Twice(c)) + Len(Doubled(u)) + 1)
                               /\ HasAt(csv, m + Len(Twice(c)), Doubled(u) \o <<"quote">>)
          BY <1>3, <2>2, <3>2
    <3>   HIDE DEF Reads, Says
    <3>4. PICK w, t, dq : w = <<c>> \o u /\ t = Twice(c) /\ dq = Doubled(u) \o <<"quote">>
          OBVIOUS
    <3>5. /\ t \in CsvText /\ dq \in CsvText /\ w \in CsvText /\ Doubled(w) \o <<"quote">> = t \o dq
          /\ Len(Doubled(w)) = Len(t) + Len(Doubled(u)) /\ Len(Doubled(u)) \in Nat /\ Len(t) \in Nat
          BY <3>4, DoubledParts, TextIs
    <3>6. HasAt(csv, m, t \o dq)
      <4>1. csv \in Seq(CsvChar) /\ t \in Seq(CsvChar) /\ dq \in Seq(CsvChar)
            BY <3>5, TextIs
      <4>2. HasAt(csv, m, t) /\ HasAt(csv, m + Len(t), dq)
            BY <2>2, <3>3, <3>4
      <4>   QED  BY <2>1, <4>1, <4>2, HasBoth
    <3>7. EscapedFrom[m] = Field(w, m + Len(t) + Len(Doubled(u)) + 1)
          BY <3>1, <3>3, <3>4, FieldIs DEF WithFirst
    <3>8. m + Len(t) + Len(Doubled(u)) + 1 = m + Len(Doubled(w)) + 1
          BY <3>5
    <3>   QED  BY <3>5, <3>6, <3>7, <3>8 DEF Reads
  <2>3. ASSUME csv[m] # "quote", EscapedFrom[m].ok PROVE Reads(m)
    <3>1. Twice(csv[m]) = <<csv[m]>> /\ Len(<<csv[m]>>) = 1 /\ m + 1 \in m + 1..L + 1
          BY <1>1, <2>3 DEF Twice
    <3>2. HasAt(csv, m, <<csv[m]>>)
          BY <2>1, HasOne
    <3>   HIDE DEF Reads
    <3>   QED  BY <2>1, <2>2, <2>3, <3>1, <3>2
  <2>4. ASSUME csv[m] = "quote", m < Len(csv), csv[m + 1] = "quote", EscapedFrom[m].ok
        PROVE  Reads(m)
    <3>1. Twice("quote") = <<"quote", "quote">> /\ Len(<<"quote", "quote">>) = 2
          /\ m + 2 \in m + 1..L + 1
          BY <1>1, <2>4 DEF Twice
    <3>2. HasAt(csv, m, <<"quote", "quote">>)
          BY <1>1, <2>1, <2>4, HasTwo
    <3>   HIDE DEF Reads
    <3>   QED  BY <2>2, <2>4, <3>1, <3>2, CharsAre
  <2>5. ASSUME csv[m] = "quote", ~(m < Len(csv) /\ csv[m + 1] = "quote") PROVE Reads(m)
    <3>1. EscapedFrom[m] = Field(<<>>, m + 1)
          BY <2>1, <2>5 DEF EscapedAt
    <3>2. <<>> \in CsvText /\ Doubled(<<>>) = <<>> /\ Len(<<>>) = 0
          /\ <<>> \o <<"quote">> = <<"quote">>
          BY DoubledIs DEF CsvText
    <3>3. HasAt(csv, m, <<"quote">>)
          BY <2>1, <2>5, HasOne
    <3>4. m + 0 + 1 = m + 1
          BY <2>1
    <3>   QED  BY <3>1, <3>2, <3>3, <3>4
  <2>   HIDE DEF Reads
  <2>   QED  BY <2>3, <2>4, <2>5
<1>   HIDE DEF Says
<1>4. 0 \in S
  <2>1. L + 1 - 0 = L + 1 /\ 0 \in 0..L /\ \A k \in L + 1..L + 1 : k = L + 1
        BY <1>1
  <2>   QED  BY <1>2, <2>1
<1>5. ASSUME NEW d \in 0..L - 1, d \in S PROVE d + 1 \in S
  <2>   DEFINE m == L + 1 - (d + 1)
  <2>1. m \in 1..L /\ m + 1 = L + 1 - d /\ d + 1 \in 0..L
        /\ \A k \in m..L + 1 : k = m \/ k \in m + 1..L + 1
        BY <1>1
  <2>   HIDE DEF m
  <2>2. \A k \in m + 1..L + 1 : Says(k)
        BY <1>5, <2>1
  <2>3. Says(m)
        BY <1>3, <2>1, <2>2
  <2>4. \A k \in m..L + 1 : Says(k)
        BY <2>1, <2>2, <2>3
  <2>   QED  BY <2>1, <2>4 DEF m
<1>6. L \in S
  <2>   HIDE DEF S
  <2>1. \A d \in 0..L : d \in S
        BY <1>1, <1>4, <1>5, UpTo
  <2>2. L \in 0..L
        BY <1>1
  <2>   QED  BY <2>1, <2>2
<1>7. Says(n)
  <2>1. n \in L + 1 - L..L + 1
        BY <1>1
  <2>   QED  BY <1>6, <2>1
<1>   QED  BY <1>7 DEF Says

-----------------------------------------------------------------------------
\* A field is read as it is written.

\* What a field is followed by.
IsStop(n) == n > Len(csv) \/ csv[n] \in {"separator", "\r", "\n"}

Plain(f) == Range(f) \cap Special = {}

LEMMA PlainIs ==
    ASSUME NEW f \in CsvText
    PROVE  Plain(f) <=> \A k \in 1..Len(f) : f[k] \notin Special
<1>1. Range(f) = {f[k] : k \in 1..Len(f)}
  <2>1. DOMAIN f = 1..Len(f)
        BY DEF CsvText
  <2>   QED  BY <2>1 DEF Range
<1>   QED  BY <1>1 DEF Plain

LEMMA StopIs ==
    ASSUME csv \in CsvText, NEW n \in Nat \ {0}
    PROVE  /\ IsStop(n) <=> end_of_record(n) \/ csv[n] = "separator"
           /\ n <= Len(csv) => (IsStop(n) => csv[n] \in Special /\ csv[n] # "quote")
                               /\ (csv[n] \in Special /\ csv[n] # "quote" => IsStop(n))
<1>1. Len(csv) \in Nat
      BY TextIs
<1>2. CASE n > Len(csv)
      BY <1>1, <1>2 DEF IsStop, end_of_record
<1>3. CASE n <= Len(csv)
      BY <1>1, <1>3, CharsAre DEF IsStop, end_of_record, Special
<1>   QED  BY <1>1, <1>2, <1>3

\* A field without quotes goes to the first place where one can stop.
LEMMA PlainField ==
    ASSUME csv \in CsvText, NEW n \in Nat \ {0}, NEW m \in n..Len(csv) + 1, IsStop(m),
           \A k \in n..m - 1 : ~IsStop(k)
    PROVE  parse_non_escaped_field(n) =
               IF \E k \in n..m - 1 : csv[k] = "quote" THEN NoField ELSE Field(SubSeq(csv, n, m - 1), m)
<1>   DEFINE stops == {k \in n..Len(csv) + 1 : end_of_record(k) \/ csv[k] = "separator"}
             stop  == CHOOSE k \in stops : \A i \in stops : k <= i
<1>1. Len(csv) \in Nat
      BY TextIs
<1>2. \A k \in n..Len(csv) + 1 : k \in Nat \ {0} /\ (k \in stops <=> IsStop(k))
      BY <1>1, StopIs
<1>3. m \in stops
      BY <1>2
<1>4. ASSUME NEW k \in stops PROVE m <= k
  <2>1. k \in n..Len(csv) + 1 /\ IsStop(k)
        BY <1>2
  <2>   QED  BY <1>1, <2>1
<1>5. \A k \in stops : k \in Nat
      BY <1>1
<1>   HIDE DEF stops
<1>6. stop \in stops /\ \A i \in stops : stop <= i
      BY <1>3, <1>4
<1>7. stop = m
  <2>1. m <= stop /\ stop <= m /\ stop \in Nat /\ m \in Nat
        BY <1>3, <1>4, <1>5, <1>6
  <2>   HIDE DEF stop
  <2>   QED  BY <2>1
<1>   HIDE DEF stop
<1>8. parse_non_escaped_field(n) =
         IF \E k \in n..stop - 1 : csv[k] = "quote" THEN NoField ELSE Field(SubSeq(csv, n, stop - 1), stop)
      BY Zenon DEF parse_non_escaped_field, stops, stop
<1>   QED  BY <1>7, <1>8

LEMMA SameText ==
    ASSUME NEW A, NEW s \in Seq(A), NEW f \in Seq(A), NEW n \in Nat \ {0}, HasAt(s, n, f)
    PROVE  SubSeq(s, n, n + Len(f) - 1) = f
<1>1. /\ Len(f) \in Nat /\ Len(s) \in Nat /\ n + Len(f) <= Len(s) + 1
      /\ \A i \in 1..Len(f) : s[n + i - 1] = f[i]
      BY DEF HasAt
<1>   DEFINE m == n + Len(f) - 1
             t == SubSeq(s, n, m)
<1>2. m \in Int /\ \A k \in n..m : k \in 1..Len(s)
      BY <1>1
<1>3. t \in Seq(A) /\ Len(t) = Len(f) /\ \A i \in 1..Len(f) : t[i] = s[n + i - 1]
      BY <1>1, <1>2
<1>   HIDE DEF m, t
<1>4. t = f
      BY <1>1, <1>3
<1>   QED  BY <1>4 DEF t, m

LEMMA SubSeqHas ==
    ASSUME NEW A, NEW s \in Seq(A), NEW n \in Nat \ {0}, NEW m \in n..Len(s) + 1
    PROVE  LET f == SubSeq(s, n, m - 1)
           IN  f \in Seq(A) /\ Len(f) = m - n /\ HasAt(s, n, f)
               /\ \A i \in 1..m - n : f[i] = s[n + i - 1]
<1>   DEFINE f == SubSeq(s, n, m - 1)
<1>1. Len(s) \in Nat /\ m - 1 \in Int /\ \A k \in n..m - 1 : k \in 1..Len(s)
      OBVIOUS
<1>2. f \in Seq(A) /\ Len(f) = m - n /\ \A i \in 1..m - n : f[i] = s[n + i - 1]
      BY <1>1
<1>   HIDE DEF f
<1>3. HasAt(s, n, f)
      BY <1>1, <1>2 DEF HasAt
<1>   QED  BY <1>2, <1>3 DEF f

FieldAt(field, quoted, n) ==
    /\ field \in CsvText /\ (quoted \/ Plain(field))
    /\ HasAt(csv, n, FieldText(field, quoted)) /\ IsStop(n + Len(FieldText(field, quoted)))

LEMMA QuotedIs ==
    ASSUME NEW f \in CsvText
    PROVE  /\ Quoted(f) \in CsvText /\ Len(Quoted(f)) = Len(Doubled(f)) + 2
           /\ Len(Doubled(f)) \in Nat /\ Quoted(f)[1] = "quote"
           /\ \A s \in CsvText, n \in Nat \ {0} :
                 HasAt(s, n, Quoted(f)) <=>
                     n <= Len(s) /\ s[n] = "quote" /\ HasAt(s, n + 1, Doubled(f) \o <<"quote">>)
<1>1. PICK d, q : d = Doubled(f) /\ q = <<"quote">>
      OBVIOUS
<1>2. d \in Seq(CsvChar) /\ q \in Seq(CsvChar) /\ Len(q) = 1 /\ q[1] = "quote"
      BY <1>1, DoubledIs, CharsAre DEF CsvText
<1>3. PICK dq : dq = d \o q
      OBVIOUS
<1>4. dq \in Seq(CsvChar) /\ Len(dq) = Len(d) + 1 /\ Len(d) \in Nat
  <2>1. d \o q \in Seq(CsvChar) /\ Len(d \o q) = Len(d) + Len(q) /\ Len(d) \in Nat
        BY <1>2, TwoTogether, Zenon
  <2>   QED  BY <1>2, <1>3, <2>1
<1>5. q \o dq \in Seq(CsvChar) /\ Len(q \o dq) = Len(d) + 2 /\ (q \o dq)[1] = "quote"
  <2>1. /\ q \o dq \in Seq(CsvChar) /\ Len(q \o dq) = Len(q) + Len(dq) /\ (q \o dq)[1] = q[1]
    <3>1. Len(q) > 0
          BY <1>2
    <3>   QED  BY <1>2, <1>4, <3>1, TwoTogether, Zenon
  <2>   QED  BY <1>2, <1>4, <2>1
<1>6. Quoted(f) = q \o dq
      BY <1>1, <1>3 DEF Quoted
<1>7. ASSUME NEW s \in CsvText, NEW n \in Nat \ {0}
      PROVE  HasAt(s, n, q \o dq) <=> n <= Len(s) /\ s[n] = "quote" /\ HasAt(s, n + 1, dq)
  <2>1. s \in Seq(CsvChar)
        BY TextIs
  <2>2. HasAt(s, n, q \o dq) <=> HasAt(s, n, q) /\ HasAt(s, n + 1, dq)
        BY <1>2, <1>4, <2>1, HasBoth
  <2>3. HasAt(s, n, q) <=> n <= Len(s) /\ s[n] = "quote"
        BY <1>1, HasOne
  <2>   QED  BY <2>2, <2>3
<1>   QED  BY <1>1, <1>3, <1>4, <1>5, <1>6, <1>7 DEF CsvText

\* What is written is read.
LEMMA FieldIsRead ==
    ASSUME csv \in CsvText, NEW n \in Nat \ {0}, NEW v, NEW quoted \in BOOLEAN, FieldAt(v, quoted, n)
    PROVE  parse_field(n) = Field(v, n + Len(FieldText(v, quoted)))
<1>1. v \in CsvText /\ Len(csv) \in Nat /\ csv \in Seq(CsvChar)
      BY TextIs DEF FieldAt
<1>2. CASE quoted
  <2>1. FieldText(v, quoted) = Quoted(v)
        BY <1>2 DEF FieldText
  <2>2. n <= Len(csv) /\ csv[n] = "quote" /\ HasAt(csv, n + 1, Doubled(v) \o <<"quote">>)
        BY <1>1, <2>1, QuotedIs DEF FieldAt
  <2>3. Len(Quoted(v)) = Len(Doubled(v)) + 2 /\ Len(Doubled(v)) \in Nat
        BY <1>1, QuotedIs
  <2>   DEFINE after == n + Len(Quoted(v))
  <2>4. IsStop(after) /\ after \in Nat \ {0} /\ after = (n + 1) + Len(Doubled(v)) + 1
        BY <2>1, <2>3 DEF FieldAt
  <2>   HIDE DEF after
  <2>5. (n + 1) + Len(Doubled(v)) < Len(csv) => csv[(n + 1) + Len(Doubled(v)) + 1] # "quote"
    <3>1. after <= Len(csv) => csv[after] # "quote"
          BY <2>4, StopIs
    <3>   QED  BY <1>1, <2>3, <2>4, <3>1
  <2>6. EscapedFrom[n + 1] = Field(v, (n + 1) + Len(Doubled(v)) + 1)
        BY <1>1, <2>2, <2>5, EscapedReads
  <2>7. parse_field(n) = EscapedFrom[n + 1]
    <3>1. ~end_of_record(n)
          BY <1>1, <2>2, CharsAre DEF end_of_record
    <3>   QED  BY <2>2, <3>1 DEF parse_field, parse_escaped_field
  <2>   QED  BY <2>1, <2>4, <2>6, <2>7 DEF after
<1>3. CASE ~quoted
  <2>1. FieldText(v, quoted) = v /\ Plain(v) /\ HasAt(csv, n, v) /\ IsStop(n + Len(v))
        BY <1>3 DEF FieldText, FieldAt
  <2>   DEFINE m == n + Len(v)
  <2>2. Len(v) \in Nat /\ m \in n..Len(csv) + 1
        BY <1>1, <2>1, TextIs DEF HasAt
  <2>3. ASSUME NEW k \in n..m - 1 PROVE ~IsStop(k) /\ csv[k] # "quote" /\ k <= Len(csv)
    <3>1. k - n + 1 \in 1..Len(v) /\ n + (k - n + 1) - 1 = k /\ k \in Nat \ {0} /\ k <= Len(csv)
          BY <1>1, <2>2
    <3>2. csv[k] = v[k - n + 1]
          BY <2>1, <3>1 DEF HasAt
    <3>3. csv[k] \notin Special
          BY <1>1, <2>1, <3>1, <3>2, PlainIs
    <3>   QED  BY <3>1, <3>3, StopIs DEF Special
  <2>4. parse_non_escaped_field(n) = Field(SubSeq(csv, n, m - 1), m)
    <3>   HIDE DEF m
    <3>   QED  BY <2>1, <2>2, <2>3, PlainField DEF m
  <2>5. SubSeq(csv, n, m - 1) = v
    <3>1. v \in Seq(CsvChar)
          BY <1>1, TextIs
    <3>   QED  BY <1>1, <2>1, <3>1, SameText
  <2>6. ~(~end_of_record(n) /\ csv[n] = "quote")
    <3>1. CASE m = n
      <4>1. IsStop(n)
            BY <2>1, <3>1
      <4>   QED  BY <1>1, <4>1, StopIs DEF end_of_record
    <3>2. CASE m # n
          BY <2>2, <2>3, <3>2
    <3>   QED  BY <3>1, <3>2
  <2>   QED  BY <2>1, <2>4, <2>5, <2>6 DEF parse_field
<1>   QED  BY <1>2, <1>3

\* And what is read is written.
LEMMA FieldIsWritten ==
    ASSUME csv \in CsvText, NEW n \in 1..Len(csv) + 1, parse_field(n).ok
    PROVE  \E v \in CsvText, quoted \in BOOLEAN :
               /\ quoted \/ Plain(v)
               /\ HasAt(csv, n, FieldText(v, quoted))
               /\ parse_field(n) = Field(v, n + Len(FieldText(v, quoted)))
<1>1. Len(csv) \in Nat /\ csv \in Seq(CsvChar) /\ n \in Nat \ {0}
      BY TextIs
<1>2. CASE ~end_of_record(n) /\ csv[n] = "quote"
  <2>1. parse_field(n) = EscapedFrom[n + 1]
        BY <1>2 DEF parse_field, parse_escaped_field
  <2>2. n + 1 \in 1..Len(csv) + 1 /\ n <= Len(csv)
        BY <1>1, <1>2 DEF end_of_record
  <2>3. PICK v \in CsvText : /\ EscapedFrom[n + 1] = Field(v, (n + 1) + Len(Doubled(v)) + 1)
                             /\ HasAt(csv, n + 1, Doubled(v) \o <<"quote">>)
        BY <2>1, <2>2, EscapedWritten
  <2>4. HasAt(csv, n, Quoted(v))
        BY <1>1, <1>2, <2>2, <2>3, QuotedIs
  <2>5. Len(Quoted(v)) = Len(Doubled(v)) + 2 /\ Len(Doubled(v)) \in Nat
        BY QuotedIs
  <2>6. (n + 1) + Len(Doubled(v)) + 1 = n + Len(Quoted(v))
        BY <1>1, <2>5
  <2>7. FieldText(v, TRUE) = Quoted(v)
        BY DEF FieldText
  <2>   QED  BY <2>1, <2>3, <2>4, <2>6, <2>7
<1>3. CASE ~(~end_of_record(n) /\ csv[n] = "quote")
  <2>1. parse_field(n) = parse_non_escaped_field(n)
        BY <1>3 DEF parse_field
  <2>   DEFINE stops == {k \in n..Len(csv) + 1 : IsStop(k)}
  <2>2. Len(csv) + 1 \in stops /\ stops \in SUBSET Nat
        BY <1>1 DEF IsStop
  <2>3. PICK m \in stops : \A k \in stops : m <= k
    <3>   HIDE DEF stops
    <3>   QED  BY <2>2, LeastNumber
  <2>4. m \in n..Len(csv) + 1 /\ IsStop(m) /\ \A k \in n..m - 1 : ~IsStop(k) /\ k <= Len(csv)
        BY <1>1, <2>3
  <2>   HIDE DEF stops
  <2>   DEFINE v == SubSeq(csv, n, m - 1)
  <2>5. /\ v \in Seq(CsvChar) /\ Len(v) = m - n /\ HasAt(csv, n, v)
        /\ \A i \in 1..m - n : v[i] = csv[n + i - 1]
        BY <1>1, <2>4, SubSeqHas
  <2>6. parse_non_escaped_field(n) =
            IF \E k \in n..m - 1 : csv[k] = "quote" THEN NoField ELSE Field(v, m)
        BY <1>1, <2>4, PlainField
  <2>   HIDE DEF v
  <2>7. ~\E k \in n..m - 1 : csv[k] = "quote"
        BY <2>1, <2>6, FieldIs
  <2>8. Plain(v)
    <3>1. v \in CsvText
          BY <2>5 DEF CsvText
    <3>2. ASSUME NEW i \in 1..Len(v) PROVE v[i] \notin Special
      <4>1. n + i - 1 \in n..m - 1 /\ n + i - 1 \in Nat \ {0} /\ i \in 1..m - n
            BY <1>1, <2>4, <2>5
      <4>2. ~IsStop(n + i - 1) /\ n + i - 1 <= Len(csv) /\ csv[n + i - 1] # "quote"
            BY <2>4, <2>7, <4>1
      <4>   QED  BY <2>5, <4>1, <4>2, StopIs
    <3>   QED  BY <3>1, <3>2, PlainIs
  <2>9. FieldText(v, FALSE) = v /\ n + Len(v) = m
        BY <1>1, <2>4, <2>5 DEF FieldText
  <2>   QED  BY <2>1, <2>5, <2>6, <2>7, <2>8, <2>9 DEF CsvText
<1>   QED  BY <1>2, <1>3

-----------------------------------------------------------------------------
\* The text of a row, and of a table.

CsvRow == Seq(CsvText)

\* Texts of fields, each with a separator behind it.
OpenCells(row, quoted) == [k \in DOMAIN row |-> FieldText(row[k], quoted[k]) \o <<"separator">>]

Open(row, quoted) == FlattenSeq(OpenCells(row, quoted))

Behind(row, k, end) == IF k < Len(row) THEN <<"separator">> ELSE end

Cells(row, quoted, end) ==
    [k \in DOMAIN row |-> FieldText(row[k], quoted[k]) \o Behind(row, k, end)]

RowTexts(table, quoted, ends) == [n \in DOMAIN table |-> RowText(table[n], quoted[n], ends[n])]

IsEnd(end) == end \in {<<"\n">>, <<"\r", "\n">>, <<>>}

LEMMA EndIs ==
    /\ \A end : IsEnd(end) => end \in CsvText
    /\ <<"separator">> \in CsvText /\ <<"quote">> \in CsvText /\ <<"bom">> \in CsvText
    /\ <<>> \in CsvText
<1>1. <<"\n">> \in Seq(CsvChar) /\ <<"\r", "\n">> \in Seq(CsvChar) /\ <<>> \in Seq(CsvChar)
      /\ <<"separator">> \in Seq(CsvChar) /\ <<"quote">> \in Seq(CsvChar) /\ <<"bom">> \in Seq(CsvChar)
      BY CharsAre
<1>   QED  BY <1>1 DEF IsEnd, CsvText

LEMMA FieldTextType ==
    ASSUME NEW v \in CsvText, NEW quoted
    PROVE  FieldText(v, quoted) \in CsvText
BY QuotedIs DEF FieldText

LEMMA Joined ==
    ASSUME NEW s \in CsvText, NEW t \in CsvText
    PROVE  s \o t \in CsvText /\ Len(s \o t) = Len(s) + Len(t) /\ Len(s) \in Nat /\ Len(t) \in Nat
           /\ (Len(s) > 0 => (s \o t)[1] = s[1])
<1>1. s \in Seq(CsvChar) /\ t \in Seq(CsvChar)
      BY TextIs
<1>2. s \o t \in Seq(CsvChar) /\ Len(s \o t) = Len(s) + Len(t) /\ Len(s) \in Nat /\ Len(t) \in Nat
      /\ (Len(s) > 0 => (s \o t)[1] = s[1])
      BY <1>1, TwoTogether
<1>   QED  BY <1>2, Zenon DEF CsvText

LEMMA JoinedThree ==
    ASSUME NEW s \in CsvText, NEW t \in CsvText, NEW u \in CsvText
    PROVE  (s \o t) \o u = s \o (t \o u)
<1>1. s \in Seq(CsvChar) /\ t \in Seq(CsvChar) /\ u \in Seq(CsvChar)
      BY TextIs
<1>2. (s \o t) \o u = s \o (t \o u) /\ t \o u \in Seq(CsvChar) /\ Len(s \o t) = Len(s) + Len(t)
      /\ Len(t) \in Nat
      BY <1>1, ThreeTogether
<1>   QED  BY <1>2, Zenon

\* A sequence with one more.
LEMMA Appended ==
    ASSUME NEW A, NEW s \in Seq(A), NEW x \in A
    PROVE  /\ Append(s, x) \in Seq(A) /\ Len(Append(s, x)) = Len(s) + 1 /\ Len(s) \in Nat
           /\ \A k \in 1..Len(s) : Append(s, x)[k] = s[k]
           /\ Append(s, x)[Len(s) + 1] = x
           /\ \A k \in 1..Len(s) + 1 : k = Len(s) + 1 \/ k \in 1..Len(s)
OBVIOUS

LEMMA FlattenLast ==
    ASSUME NEW n \in Nat, NEW s \in Seq(CsvText), NEW t \in Seq(CsvText), Len(s) = n, Len(t) = n + 1,
           \A k \in 1..n : t[k] = s[k]
    PROVE  FlattenSeq(t) = FlattenSeq(s) \o t[n + 1]
<1>1. PICK x : x = t[n + 1]
      OBVIOUS
<1>2. x \in CsvText
      BY <1>1
<1>3. /\ Append(s, x) \in Seq(CsvText) /\ Len(Append(s, x)) = n + 1
      /\ \A k \in 1..n : Append(s, x)[k] = s[k]
      /\ Append(s, x)[n + 1] = x
      /\ \A k \in 1..n + 1 : k = n + 1 \/ k \in 1..n
      BY <1>2, Appended
<1>6. \A k \in 1..n + 1 : t[k] = Append(s, x)[k]
      BY <1>1, <1>3
<1>4. t = Append(s, x)
  <2>   DEFINE r == Append(s, x)
  <2>   HIDE DEF r
  <2>   QED  BY <1>3, <1>6 DEF r
<1>5. FlattenSeq(Append(s, x)) = FlattenSeq(s) \o x
      BY <1>2, FlattenAppend DEF CsvText
<1>   QED  BY <1>1, <1>4, <1>5

LEMMA CellsAre ==
    ASSUME NEW row \in CsvRow, NEW quoted, NEW end, IsEnd(end)
    PROVE  /\ Cells(row, quoted, end) \in Seq(CsvText) /\ Len(Cells(row, quoted, end)) = Len(row)
           /\ Len(row) \in Nat
           /\ \A k \in 1..Len(row) :
                 /\ row[k] \in CsvText
                 /\ Cells(row, quoted, end)[k] = FieldText(row[k], quoted[k]) \o Behind(row, k, end)
                 /\ Behind(row, k, end) \in CsvText
           /\ RowText(row, quoted, end) = FlattenSeq(Cells(row, quoted, end))
           /\ RowText(row, quoted, end) \in CsvText
<1>1. Len(row) \in Nat /\ DOMAIN row = 1..Len(row) /\ \A k \in 1..Len(row) : row[k] \in CsvText
      BY DEF CsvRow
<1>   DEFINE C(k) == FieldText(row[k], quoted[k]) \o Behind(row, k, end)
             cells == [k \in 1..Len(row) |-> C(k)]
<1>2. ASSUME NEW k \in 1..Len(row) PROVE C(k) \in CsvText /\ Behind(row, k, end) \in CsvText
  <2>1. FieldText(row[k], quoted[k]) \in CsvText
        BY <1>1, FieldTextType
  <2>2. Behind(row, k, end) \in CsvText
        BY EndIs DEF Behind
  <2>   QED  BY <2>1, <2>2, Joined
<1>3. cells \in Seq(CsvText) /\ Len(cells) = Len(row) /\ \A k \in 1..Len(row) : cells[k] = C(k)
  <2>   HIDE DEF C
  <2>   QED  BY <1>1, <1>2
<1>4. Cells(row, quoted, end) = cells
      BY <1>1 DEF Cells
<1>5. RowText(row, quoted, end) = FlattenSeq(Cells(row, quoted, end))
      BY Zenon DEF RowText, Cells, Behind
<1>6. FlattenSeq(cells) \in CsvText
  <2>   HIDE DEF cells
  <2>   QED  BY <1>3, FlattenType DEF CsvText
<1>   HIDE DEF cells
<1>   QED  BY <1>1, <1>2, <1>3, <1>4, <1>5, <1>6

LEMMA OpenIs ==
    ASSUME NEW row \in CsvRow, NEW quoted
    PROVE  LET open == OpenCells(row, quoted)
           IN  /\ open \in Seq(CsvText) /\ Len(open) = Len(row) /\ Len(row) \in Nat
               /\ \A k \in 1..Len(row) : open[k] = FieldText(row[k], quoted[k]) \o <<"separator">>
               /\ Open(row, quoted) \in CsvText
<1>1. Len(row) \in Nat /\ DOMAIN row = 1..Len(row) /\ \A k \in 1..Len(row) : row[k] \in CsvText
      BY DEF CsvRow
<1>   DEFINE C(k) == FieldText(row[k], quoted[k]) \o <<"separator">>
             open == [k \in DOMAIN row |-> C(k)]
<1>2. ASSUME NEW k \in 1..Len(row) PROVE C(k) \in CsvText
      BY <1>1, FieldTextType, EndIs, Joined
<1>3. open \in Seq(CsvText) /\ Len(open) = Len(row) /\ \A k \in 1..Len(row) : open[k] = C(k)
  <2>   HIDE DEF C
  <2>   QED  BY <1>1, <1>2
<1>4. FlattenSeq(open) \in CsvText
  <2>   HIDE DEF open
  <2>   QED  BY <1>3, FlattenType DEF CsvText
<1>   QED  BY <1>1, <1>3, <1>4 DEF Open, OpenCells

\* A row with one more field.
LEMMA FieldBehind ==
    ASSUME NEW row \in CsvRow, NEW quoted \in Seq(BOOLEAN), Len(quoted) = Len(row),
           NEW v \in CsvText, NEW b \in BOOLEAN, NEW end, IsEnd(end)
    PROVE  LET row2 == Append(row, v)
               quoted2 == Append(quoted, b)
           IN  /\ row2 \in CsvRow /\ Len(row2) = Len(row) + 1 /\ Len(row) \in Nat
               /\ \A k \in 1..Len(row) : row2[k] = row[k] /\ quoted2[k] = quoted[k]
               /\ row2[Len(row) + 1] = v /\ quoted2[Len(row) + 1] = b
               /\ quoted2 \in Seq(BOOLEAN) /\ Len(quoted2) = Len(row) + 1
               /\ RowText(row2, quoted2, end) = Open(row, quoted) \o (FieldText(v, b) \o end)
               /\ Open(row2, quoted2) = Open(row, quoted) \o (FieldText(v, b) \o <<"separator">>)
<1>   DEFINE m == Len(row)
<1>1. PICK row2, quoted2 : row2 = Append(row, v) /\ quoted2 = Append(quoted, b)
      OBVIOUS
<1>2. /\ row2 \in CsvRow /\ Len(row2) = m + 1 /\ m \in Nat
      /\ \A k \in 1..m : row2[k] = row[k]
      /\ row2[m + 1] = v
      BY <1>1 DEF CsvRow
<1>3. /\ quoted2 \in Seq(BOOLEAN) /\ Len(quoted2) = m + 1
      /\ \A k \in 1..m : quoted2[k] = quoted[k]
      /\ quoted2[m + 1] = b
      BY <1>1
<1>4. PICK open, open2, cells2 :
          open = OpenCells(row, quoted) /\ open2 = OpenCells(row2, quoted2) /\ cells2 = Cells(row2, quoted2, end)
      OBVIOUS
<1>5. /\ open \in Seq(CsvText) /\ Len(open) = m
      /\ \A k \in 1..m : open[k] = FieldText(row[k], quoted[k]) \o <<"separator">>
      BY <1>4, OpenIs
<1>14. /\ open2 \in Seq(CsvText) /\ Len(open2) = m + 1
       /\ \A k \in 1..m + 1 : open2[k] = FieldText(row2[k], quoted2[k]) \o <<"separator">>
  <2>1. row2 \in CsvRow /\ Len(row2) = m + 1
        BY <1>2
  <2>   QED  BY <1>4, <2>1, OpenIs
<1>6. /\ cells2 \in Seq(CsvText) /\ Len(cells2) = m + 1
      /\ \A k \in 1..m + 1 : cells2[k] = FieldText(row2[k], quoted2[k]) \o Behind(row2, k, end)
  <2>1. row2 \in CsvRow /\ Len(row2) = m + 1
        BY <1>2
  <2>   QED  BY <1>4, <2>1, CellsAre
<1>7. /\ \A k \in 1..m + 1 : (k = m + 1 \/ k \in 1..m) /\ (k < m + 1 <=> k \in 1..m)
      /\ m + 1 \in 1..m + 1
      BY <1>2
<1>8. /\ \A k \in 1..m : open2[k] = open[k] /\ cells2[k] = open[k]
      /\ open2[m + 1] = FieldText(v, b) \o <<"separator">> /\ cells2[m + 1] = FieldText(v, b) \o end
  <2>1. ASSUME NEW k \in 1..m PROVE open2[k] = open[k] /\ cells2[k] = open[k]
    <3>1. k \in 1..m + 1 /\ k < m + 1
          BY <1>7
    <3>2. Behind(row2, k, end) = <<"separator">>
          BY <1>2, <3>1 DEF Behind
    <3>3. row2[k] = row[k] /\ quoted2[k] = quoted[k]
          BY <1>2, <1>3
    <3>   QED  BY <1>5, <1>6, <1>14, <3>1, <3>2, <3>3
  <2>2. Behind(row2, m + 1, end) = end
        BY <1>2 DEF Behind
  <2>3. open2[m + 1] = FieldText(row2[m + 1], quoted2[m + 1]) \o <<"separator">>
        /\ cells2[m + 1] = FieldText(row2[m + 1], quoted2[m + 1]) \o end
        BY <1>6, <1>7, <1>14, <2>2
  <2>4. row2[m + 1] = v /\ quoted2[m + 1] = b
        BY <1>2, <1>3
  <2>   QED  BY <2>1, <2>3, <2>4
<1>9. FieldText(v, b) \o end \in CsvText /\ FieldText(v, b) \o <<"separator">> \in CsvText
      BY FieldTextType, EndIs, Joined
<1>11. FlattenSeq(open2) = FlattenSeq(open) \o (FieldText(v, b) \o <<"separator">>)
       /\ FlattenSeq(cells2) = FlattenSeq(open) \o (FieldText(v, b) \o end)
       BY <1>2, <1>5, <1>6, <1>8, <1>14, FlattenLast
<1>12. Open(row, quoted) = FlattenSeq(open) /\ Open(row2, quoted2) = FlattenSeq(open2)
       BY <1>4 DEF Open
<1>13. RowText(row2, quoted2, end) = FlattenSeq(cells2)
       BY <1>2, <1>4, CellsAre
<1>   QED  BY <1>1, <1>2, <1>3, <1>11, <1>12, <1>13

\* How the rows that were read, or will be, are written.
WrittenAs(rows, quoted, ends) ==
    /\ rows \in Seq(CsvRow) /\ quoted \in Seq(Seq(BOOLEAN)) /\ ends \in Seq(CsvText)
    /\ Len(quoted) = Len(rows) /\ Len(ends) = Len(rows)
    /\ \A n \in 1..Len(rows) :
          /\ Len(rows[n]) = Len(rows[1]) /\ Len(rows[n]) > 0
          /\ Len(quoted[n]) = Len(rows[n])
          /\ \A k \in 1..Len(rows[n]) : quoted[n][k] \/ Plain(rows[n][k])
          /\ IsEnd(ends[n])
          /\ ends[n] = <<>> => n = Len(rows) /\ RowText(rows[n], quoted[n], <<>>) # <<>>

LEMMA WrittenIs ==
    ASSUME NEW rows, NEW quoted, NEW ends, WrittenAs(rows, quoted, ends)
    PROVE  /\ Len(rows) \in Nat /\ DOMAIN rows = 1..Len(rows)
           /\ \A n \in 1..Len(rows) :
                 /\ rows[n] \in CsvRow /\ quoted[n] \in Seq(BOOLEAN) /\ IsEnd(ends[n])
                 /\ Len(rows[n]) = Len(rows[1]) /\ Len(rows[n]) \in Nat \ {0}
                 /\ Len(quoted[n]) = Len(rows[n])
                 /\ \A k \in 1..Len(rows[n]) : rows[n][k] \in CsvText /\ quoted[n][k] \in BOOLEAN
                                               /\ (quoted[n][k] \/ Plain(rows[n][k]))
           /\ Len(rows) > 0 => Len(rows[1]) \in Nat \ {0}
<1>1. /\ Len(rows) \in Nat /\ DOMAIN rows = 1..Len(rows)
      /\ \A n \in 1..Len(rows) : rows[n] \in CsvRow /\ quoted[n] \in Seq(BOOLEAN) /\ IsEnd(ends[n])
      BY DEF WrittenAs
<1>2. \A row \in CsvRow : Len(row) \in Nat /\ \A k \in 1..Len(row) : row[k] \in CsvText
      BY DEF CsvRow
<1>3. \A q \in Seq(BOOLEAN) : \A k \in 1..Len(q) : q[k] \in BOOLEAN
      OBVIOUS
<1>4. ASSUME NEW n \in 1..Len(rows)
      PROVE  /\ Len(rows[n]) = Len(rows[1]) /\ Len(rows[n]) \in Nat \ {0}
             /\ Len(quoted[n]) = Len(rows[n])
             /\ \A k \in 1..Len(rows[n]) : rows[n][k] \in CsvText /\ quoted[n][k] \in BOOLEAN
                                           /\ (quoted[n][k] \/ Plain(rows[n][k]))
  <2>1. /\ Len(rows[n]) = Len(rows[1]) /\ Len(rows[n]) > 0 /\ Len(quoted[n]) = Len(rows[n])
        /\ \A k \in 1..Len(rows[n]) : quoted[n][k] \/ Plain(rows[n][k])
        BY DEF WrittenAs
  <2>2. Len(rows[n]) \in Nat /\ \A k \in 1..Len(rows[n]) : rows[n][k] \in CsvText
        BY <1>1, <1>2
  <2>3. \A k \in 1..Len(rows[n]) : quoted[n][k] \in BOOLEAN
        BY <1>1, <1>3, <2>1
  <2>   QED  BY <2>1, <2>2, <2>3
<1>5. Len(rows) > 0 => 1 \in 1..Len(rows)
      BY <1>1
<1>   QED  BY <1>1, <1>4, <1>5

LEMMA RowTextsAre ==
    ASSUME NEW rows \in Seq(CsvRow), NEW quoted, NEW ends, \A n \in 1..Len(rows) : IsEnd(ends[n])
    PROVE  LET texts == RowTexts(rows, quoted, ends)
           IN  /\ texts \in Seq(CsvText) /\ Len(texts) = Len(rows) /\ Len(rows) \in Nat
               /\ \A n \in 1..Len(rows) : texts[n] = RowText(rows[n], quoted[n], ends[n])
               /\ TableText(rows, quoted, ends) = FlattenSeq(texts)
               /\ TableText(rows, quoted, ends) \in CsvText
<1>   DEFINE R(n) == RowText(rows[n], quoted[n], ends[n])
             texts == [n \in DOMAIN rows |-> R(n)]
<1>1. Len(rows) \in Nat /\ DOMAIN rows = 1..Len(rows) /\ \A n \in 1..Len(rows) : rows[n] \in CsvRow
      OBVIOUS
<1>2. \A n \in 1..Len(rows) : R(n) \in CsvText
      BY <1>1, CellsAre
<1>3. texts \in Seq(CsvText) /\ Len(texts) = Len(rows) /\ \A n \in 1..Len(rows) : texts[n] = R(n)
  <2>   HIDE DEF R
  <2>   QED  BY <1>1, <1>2
<1>4. FlattenSeq(texts) \in CsvText
  <2>   HIDE DEF texts
  <2>   QED  BY <1>3, FlattenType DEF CsvText
<1>5. TableText(rows, quoted, ends) = FlattenSeq(texts) /\ RowTexts(rows, quoted, ends) = texts
      BY Zenon DEF TableText, RowTexts
<1>   QED  BY <1>1, <1>3, <1>4, <1>5

\* A table with one more row.
LEMMA RowBehind ==
    ASSUME NEW rows, NEW quoted, NEW ends, WrittenAs(rows, quoted, ends),
           NEW row \in CsvRow, NEW q \in Seq(BOOLEAN), NEW end, IsEnd(end)
    PROVE  TableText(Append(rows, row), Append(quoted, q), Append(ends, end))
               = TableText(rows, quoted, ends) \o RowText(row, q, end)
<1>1. PICK rows2, quoted2, ends2 :
          rows2 = Append(rows, row) /\ quoted2 = Append(quoted, q) /\ ends2 = Append(ends, end)
      OBVIOUS
<1>12. /\ rows \in Seq(CsvRow) /\ quoted \in Seq(Seq(BOOLEAN)) /\ ends \in Seq(CsvText)
       /\ Len(quoted) = Len(rows) /\ Len(ends) = Len(rows)
       BY Zenon DEF WrittenAs
<1>13. \A n \in 1..Len(rows) : IsEnd(ends[n])
       BY WrittenIs
<1>   DEFINE m == Len(rows)
<1>2. /\ rows2 \in Seq(CsvRow) /\ Len(rows2) = m + 1 /\ m \in Nat
      /\ \A k \in 1..m : rows2[k] = rows[k]
      /\ rows2[m + 1] = row
      /\ \A k \in 1..m + 1 : k = m + 1 \/ k \in 1..m
      BY <1>1, <1>12, Appended
<1>3. (\A k \in 1..m : quoted2[k] = quoted[k]) /\ quoted2[m + 1] = q
      BY <1>1, <1>12, Appended
<1>4. (\A k \in 1..m : ends2[k] = ends[k]) /\ ends2[m + 1] = end
  <2>1. end \in CsvText
        BY EndIs
  <2>   QED  BY <1>1, <1>12, <2>1, Appended
<1>5. PICK texts, texts2 : texts = RowTexts(rows, quoted, ends) /\ texts2 = RowTexts(rows2, quoted2, ends2)
      OBVIOUS
<1>6. /\ texts \in Seq(CsvText) /\ Len(texts) = m
      /\ \A n \in 1..m : texts[n] = RowText(rows[n], quoted[n], ends[n])
      /\ TableText(rows, quoted, ends) = FlattenSeq(texts)
      BY <1>5, <1>12, <1>13, RowTextsAre
<1>7. \A n \in 1..m + 1 : IsEnd(ends2[n])
      BY <1>2, <1>4, <1>13
<1>8. /\ texts2 \in Seq(CsvText) /\ Len(texts2) = m + 1
      /\ \A n \in 1..m + 1 : texts2[n] = RowText(rows2[n], quoted2[n], ends2[n])
      /\ TableText(rows2, quoted2, ends2) = FlattenSeq(texts2)
  <2>   HIDE DEF m
  <2>1. rows2 \in Seq(CsvRow) /\ \A n \in 1..Len(rows2) : IsEnd(ends2[n])
        BY <1>2, <1>7
  <2>2. Len(rows2) = m + 1
        BY <1>2
  <2>3. /\ texts2 \in Seq(CsvText) /\ Len(texts2) = Len(rows2)
        /\ \A n \in 1..Len(rows2) : texts2[n] = RowText(rows2[n], quoted2[n], ends2[n])
        /\ TableText(rows2, quoted2, ends2) = FlattenSeq(texts2)
        BY <1>5, <2>1, RowTextsAre
  <2>   QED  BY <2>2, <2>3
<1>9. m + 1 \in 1..m + 1 /\ \A n \in 1..m : n \in 1..m + 1
      BY <1>2
<1>   HIDE DEF m
<1>10. (\A n \in 1..m : texts2[n] = texts[n]) /\ texts2[m + 1] = RowText(row, q, end)
       BY <1>2, <1>3, <1>4, <1>6, <1>8, <1>9
<1>11. FlattenSeq(texts2) = FlattenSeq(texts) \o texts2[m + 1]
       BY <1>2, <1>6, <1>8, <1>10, FlattenLast
<1>   QED  BY <1>1, <1>6, <1>8, <1>10, <1>11

-----------------------------------------------------------------------------
\* Where the fields of a table are in its text.

CellPlace(rows, quoted, ends, r, k) ==
    1 + LengthUpTo(RowTexts(rows, quoted, ends), r)
      + IF k = 0 THEN 0 ELSE LengthUpTo(Cells(rows[r + 1], quoted[r + 1], ends[r + 1]), k)

LEMMA HasItself ==
    ASSUME NEW s \in CsvText
    PROVE  HasAt(s, 1, s)
<1>1. s \in Seq(CsvChar)
      BY TextIs
<1>   QED  BY <1>1, HasAll

LEMMA TextParts ==
    ASSUME NEW s \in CsvText, NEW texts \in Seq(CsvText), NEW n \in Nat \ {0},
           HasAt(s, n, FlattenSeq(texts)), NEW k \in 0..Len(texts) - 1
    PROVE  LET at == n + LengthUpTo(texts, k)
           IN  /\ at \in Nat \ {0} /\ HasAt(s, at, texts[k + 1]) /\ texts[k + 1] \in CsvText
               /\ n + LengthUpTo(texts, k + 1) = at + Len(texts[k + 1])
<1>1. s \in Seq(CsvChar) /\ texts \in Seq(Seq(CsvChar))
      BY DEF CsvText
<1>   QED  BY <1>1, PartHas DEF CsvText

LEMMA TextLengths ==
    ASSUME NEW texts \in Seq(CsvText)
    PROVE  LengthUpTo(texts, 0) = 0 /\ LengthUpTo(texts, Len(texts)) = Len(FlattenSeq(texts))
BY LengthEnds DEF CsvText

\* No row is written as nothing.
LEMMA RowIsSomething ==
    ASSUME NEW rows, NEW quoted, NEW ends, WrittenAs(rows, quoted, ends), NEW n \in 1..Len(rows)
    PROVE  Len(RowText(rows[n], quoted[n], ends[n])) > 0
<1>1. /\ rows[n] \in CsvRow /\ quoted[n] \in Seq(BOOLEAN) /\ IsEnd(ends[n])
      /\ Len(rows[n]) \in Nat \ {0}
      BY WrittenIs
<1>2. PICK row, q, end, w : row = rows[n] /\ q = quoted[n] /\ end = ends[n] /\ w = Len(row)
      OBVIOUS
<1>3. row \in CsvRow /\ IsEnd(end) /\ w \in Nat \ {0} /\ w \in 1..Len(row) /\ w - 1 + 1 = w
      /\ w - 1 \in 0..w - 1 /\ end \in CsvText /\ w - 1 \in Nat
      BY <1>1, <1>2, EndIs
<1>4. PICK text, cells : text = RowText(row, q, end) /\ cells = Cells(row, q, end)
      OBVIOUS
<1>5. /\ cells \in Seq(CsvText) /\ Len(cells) = w /\ text = FlattenSeq(cells) /\ text \in CsvText
      /\ row[w] \in CsvText /\ cells[w] = FieldText(row[w], q[w]) \o Behind(row, w, end)
  <2>1. row \in CsvRow /\ IsEnd(end) /\ w \in 1..Len(row) /\ Len(row) = w
        BY <1>2, <1>3
  <2>2. /\ cells \in Seq(CsvText) /\ Len(cells) = Len(row) /\ text = FlattenSeq(cells) /\ text \in CsvText
        BY <1>4, <2>1, CellsAre
  <2>3. row[w] \in CsvText /\ cells[w] = FieldText(row[w], q[w]) \o Behind(row, w, end)
        BY <1>4, <2>1, CellsAre
  <2>   QED  BY <2>1, <2>2, <2>3
<1>6. Behind(row, w, end) = end
      BY <1>2, <1>3 DEF Behind
<1>7. Len(cells[w]) >= Len(end) /\ Len(end) \in Nat
  <2>1. FieldText(row[w], q[w]) \in CsvText
        BY <1>5, FieldTextType
  <2>2. /\ Len(FieldText(row[w], q[w]) \o end) = Len(FieldText(row[w], q[w])) + Len(end)
        /\ Len(FieldText(row[w], q[w])) \in Nat /\ Len(end) \in Nat
        BY <1>3, <2>1, Joined
  <2>   QED  BY <1>5, <1>6, <2>2
<1>8. Len(text) \in Nat /\ Len(cells[w]) <= Len(text)
  <2>1. HasAt(text, 1, FlattenSeq(cells))
        BY <1>5, HasItself
  <2>2. PICK at : at \in Nat \ {0} /\ HasAt(text, at, cells[w])
    <3>1. w - 1 \in 0..Len(cells) - 1 /\ 1 \in Nat \ {0}
          BY <1>3, <1>5
    <3>2. 1 + LengthUpTo(cells, w - 1) \in Nat \ {0} /\ HasAt(text, 1 + LengthUpTo(cells, w - 1), cells[w - 1 + 1])
          BY <1>5, <2>1, <3>1, TextParts
    <3>   QED  BY <1>3, <3>2
  <2>3. at + Len(cells[w]) <= Len(text) + 1 /\ Len(text) \in Nat
        BY <1>5, <2>2, TextIs DEF HasAt
  <2>   QED  BY <1>7, <2>2, <2>3
<1>9. CASE end = <<>>
  <2>1. RowText(row, q, <<>>) # <<>>
        BY <1>2, <1>9 DEF WrittenAs
  <2>2. text # <<>>
        BY <1>4, <1>9, <2>1
  <2>3. Len(text) # 0
        BY <1>5, <2>2 DEF CsvText
  <2>   QED  BY <1>2, <1>4, <1>8, <2>3
<1>10. CASE end # <<>>
  <2>1. Len(end) > 0
        BY <1>3, <1>10 DEF IsEnd
  <2>   QED  BY <1>2, <1>4, <1>7, <1>8, <2>1
<1>   QED  BY <1>9, <1>10

LEMMA Places ==
    ASSUME NEW rows, NEW quoted, NEW ends, WrittenAs(rows, quoted, ends),
           csv = TableText(rows, quoted, ends),
           NEW r \in 0..Len(rows) - 1, NEW k \in 0..Len(rows[1]) - 1
    PROVE  LET n     == CellPlace(rows, quoted, ends, r, k)
               v     == rows[r + 1][k + 1]
               q     == quoted[r + 1][k + 1]
               after == n + Len(FieldText(v, q))
           IN  /\ csv \in CsvText /\ n \in Nat \ {0} /\ after \in Nat \ {0} /\ FieldAt(v, q, n)
               /\ k + 1 < Len(rows[1]) =>
                     /\ after <= Len(csv) /\ csv[after] = "separator"
                     /\ CellPlace(rows, quoted, ends, r, k + 1) = after + 1
               /\ k + 1 = Len(rows[1]) =>
                     /\ HasAt(csv, after, ends[r + 1])
                     /\ CellPlace(rows, quoted, ends, r + 1, 0) = after + Len(ends[r + 1])
                     /\ ends[r + 1] = <<>> => after = Len(csv) + 1 /\ r + 1 = Len(rows)
<1>   DEFINE w == Len(rows[1])
<1>1. /\ Len(rows) \in Nat /\ r + 1 \in 1..Len(rows) /\ r \in Nat /\ w \in Nat \ {0} /\ k \in Nat
      /\ k + 1 \in 1..w /\ rows \in Seq(CsvRow)
      /\ \A n \in 1..Len(rows) : IsEnd(ends[n])
  <2>1. Len(rows) \in Nat
        BY WrittenIs
  <2>2. Len(rows) > 0 /\ r + 1 \in 1..Len(rows) /\ r \in Nat
        BY <2>1
  <2>3. w \in Nat \ {0} /\ \A n \in 1..Len(rows) : IsEnd(ends[n])
        BY <2>2, WrittenIs
  <2>   QED  BY <2>1, <2>2, <2>3 DEF WrittenAs
<1>   HIDE DEF w
<1>2. PICK row, qs, end, v, q, texts, cells :
          /\ row = rows[r + 1] /\ qs = quoted[r + 1] /\ end = ends[r + 1]
          /\ v = row[k + 1] /\ q = qs[k + 1]
          /\ texts = RowTexts(rows, quoted, ends) /\ cells = Cells(row, qs, end)
      OBVIOUS
<1>3. /\ row \in CsvRow /\ IsEnd(end) /\ Len(row) = w /\ v \in CsvText /\ q \in BOOLEAN
      /\ (q \/ Plain(v)) /\ end \in CsvText
  <2>1. /\ row \in CsvRow /\ IsEnd(end) /\ Len(row) = w
        /\ \A i \in 1..Len(row) : row[i] \in CsvText /\ qs[i] \in BOOLEAN /\ (qs[i] \/ Plain(row[i]))
        BY <1>1, <1>2, WrittenIs DEF w
  <2>   QED  BY <1>1, <1>2, <2>1, EndIs
<1>4. /\ texts \in Seq(CsvText) /\ Len(texts) = Len(rows)
      /\ texts[r + 1] = RowText(row, qs, end)
      /\ csv = FlattenSeq(texts) /\ csv \in CsvText
  <2>1. LET t == RowTexts(rows, quoted, ends)
        IN  /\ t \in Seq(CsvText) /\ Len(t) = Len(rows)
            /\ \A n \in 1..Len(rows) : t[n] = RowText(rows[n], quoted[n], ends[n])
            /\ TableText(rows, quoted, ends) = FlattenSeq(t)
            /\ TableText(rows, quoted, ends) \in CsvText
        BY <1>1, RowTextsAre
  <2>   QED  BY <1>1, <1>2, <2>1
<1>5. /\ cells \in Seq(CsvText) /\ Len(cells) = w
      /\ cells[k + 1] = FieldText(v, q) \o Behind(row, k + 1, end)
      /\ Behind(row, k + 1, end) \in CsvText
      /\ RowText(row, qs, end) = FlattenSeq(cells)
  <2>1. row \in CsvRow /\ IsEnd(end) /\ k + 1 \in 1..Len(row) /\ Len(row) = w
        BY <1>1, <1>3
  <2>2. /\ cells \in Seq(CsvText) /\ Len(cells) = Len(row) /\ RowText(row, qs, end) = FlattenSeq(cells)
        BY <1>2, <2>1, CellsAre
  <2>3. /\ cells[k + 1] = FieldText(row[k + 1], qs[k + 1]) \o Behind(row, k + 1, end)
        /\ Behind(row, k + 1, end) \in CsvText
    <3>1. ASSUME NEW i \in 1..Len(row)
          PROVE  /\ cells[i] = FieldText(row[i], qs[i]) \o Behind(row, i, end)
                 /\ Behind(row, i, end) \in CsvText
      <4>1. cells = Cells(row, qs, end)
            BY <1>2
      <4>   QED  BY <2>1, <4>1, CellsAre
    <3>   QED  BY <2>1, <3>1
  <2>4. v = row[k + 1] /\ q = qs[k + 1]
        BY <1>2
  <2>   QED  BY <2>1, <2>2, <2>3, <2>4
<1>   DEFINE at    == 1 + LengthUpTo(texts, r)
             n     == at + LengthUpTo(cells, k)
             after == n + Len(FieldText(v, q))
             tail  == Behind(row, k + 1, end)
<1>6. at \in Nat \ {0} /\ HasAt(csv, at, FlattenSeq(cells))
      /\ 1 + LengthUpTo(texts, r + 1) = at + Len(FlattenSeq(cells))
  <2>1. HasAt(csv, 1, FlattenSeq(texts))
        BY <1>4, HasItself
  <2>2. r \in 0..Len(texts) - 1 /\ 1 \in Nat \ {0}
        BY <1>4
  <2>3. /\ at \in Nat \ {0} /\ HasAt(csv, at, texts[r + 1])
        /\ 1 + LengthUpTo(texts, r + 1) = at + Len(texts[r + 1])
        BY <1>4, <2>1, <2>2, TextParts
  <2>   QED  BY <1>4, <1>5, <2>3
<1>   HIDE DEF at
<1>7. n \in Nat \ {0} /\ HasAt(csv, n, cells[k + 1]) /\ at + LengthUpTo(cells, k + 1) = n + Len(cells[k + 1])
  <2>1. k \in 0..Len(cells) - 1
        BY <1>1, <1>5
  <2>2. csv \in CsvText /\ cells \in Seq(CsvText) /\ at \in Nat \ {0} /\ HasAt(csv, at, FlattenSeq(cells))
        BY <1>4, <1>5, <1>6
  <2>   QED  BY <2>1, <2>2, TextParts
<1>   HIDE DEF n
<1>8. FieldText(v, q) \in CsvText
      BY <1>3, FieldTextType
<1>9. Len(cells[k + 1]) = Len(FieldText(v, q)) + Len(tail) /\ Len(FieldText(v, q)) \in Nat /\ Len(tail) \in Nat
      BY <1>5, <1>8, Joined
<1>10. HasAt(csv, n, FieldText(v, q)) /\ HasAt(csv, after, tail)
  <2>1. csv \in Seq(CsvChar) /\ FieldText(v, q) \in Seq(CsvChar) /\ tail \in Seq(CsvChar)
        BY <1>4, <1>5, <1>8 DEF CsvText
  <2>   HIDE DEF tail
  <2>2. HasAt(csv, n, FieldText(v, q) \o tail)
        BY <1>5, <1>7 DEF tail
  <2>   QED  BY <1>7, <2>1, <2>2, HasBoth
<1>11. after \in Nat \ {0} /\ Len(csv) \in Nat
       BY <1>4, <1>7, <1>9, TextIs
<1>12. CellPlace(rows, quoted, ends, r, k) = n
  <2>1. CellPlace(rows, quoted, ends, r, k)
            = 1 + LengthUpTo(texts, r) + IF k = 0 THEN 0 ELSE LengthUpTo(cells, k)
        BY <1>2 DEF CellPlace
  <2>2. LengthUpTo(cells, 0) = 0
        BY <1>5, TextLengths
  <2>   QED  BY <1>6, <1>7, <2>1, <2>2 DEF n, at
<1>16. /\ rows[r + 1][k + 1] = v /\ quoted[r + 1][k + 1] = q /\ ends[r + 1] = end
       /\ after = CellPlace(rows, quoted, ends, r, k) + Len(FieldText(v, q))
       BY <1>2, <1>12
<1>   HIDE DEF after, tail
<1>13. ASSUME k + 1 < w
       PROVE  /\ FieldAt(v, q, n) /\ after <= Len(csv) /\ csv[after] = "separator"
              /\ CellPlace(rows, quoted, ends, r, k + 1) = after + 1
  <2>1. tail = <<"separator">> /\ Len(tail) = 1
        BY <1>3, <1>13 DEF tail, Behind
  <2>2. after <= Len(csv) /\ csv[after] = "separator"
        BY <1>10, <1>11, <2>1, HasOne
  <2>3. IsStop(after)
        BY <2>2 DEF IsStop
  <2>4. CellPlace(rows, quoted, ends, r, k + 1) = at + LengthUpTo(cells, k + 1)
        BY <1>1, <1>2 DEF CellPlace, at
  <2>5. CellPlace(rows, quoted, ends, r, k + 1) = after + 1
        BY <1>7, <1>9, <2>1, <2>4 DEF after
  <2>6. FieldAt(v, q, n)
        BY <1>3, <1>10, <2>3 DEF FieldAt, after
  <2>   QED  BY <2>2, <2>5, <2>6
<1>14. ASSUME k + 1 = w
       PROVE  /\ FieldAt(v, q, n) /\ HasAt(csv, after, end)
              /\ CellPlace(rows, quoted, ends, r + 1, 0) = after + Len(end)
              /\ end = <<>> => after = Len(csv) + 1 /\ r + 1 = Len(rows)
  <2>1. tail = end
        BY <1>3, <1>14 DEF tail, Behind
  <2>2. at + Len(FlattenSeq(cells)) = after + Len(end)
    <3>1. LengthUpTo(cells, k + 1) = Len(FlattenSeq(cells))
          BY <1>5, <1>14, TextLengths
    <3>   QED  BY <1>7, <1>9, <2>1, <3>1 DEF after
  <2>3. CellPlace(rows, quoted, ends, r + 1, 0) = 1 + LengthUpTo(texts, r + 1)
    <3>1. CellPlace(rows, quoted, ends, r + 1, 0) = 1 + LengthUpTo(texts, r + 1) + 0
          BY <1>2 DEF CellPlace
    <3>2. LengthUpTo(texts, r + 1) + 1 = at + Len(FlattenSeq(cells)) /\ LengthUpTo(texts, r + 1) \in Int
      <4>1. LengthUpTo(texts, r + 1) \in Nat
        <5>1. texts \in Seq(Seq(CsvChar)) /\ SubSeq(texts, 1, r + 1) \in Seq(Seq(CsvChar))
              BY <1>1, <1>4 DEF CsvText
        <5>2. FlattenSeq(SubSeq(texts, 1, r + 1)) \in Seq(CsvChar)
              BY <5>1, FlattenType
        <5>   QED  BY <5>2 DEF LengthUpTo
      <4>   QED  BY <1>6, <4>1
    <3>   QED  BY <3>1, <3>2
  <2>4. HasAt(csv, after, end)
        BY <1>10, <2>1
  <2>5. end = <<>> => after = Len(csv) + 1 /\ r + 1 = Len(rows)
    <3>   SUFFICES ASSUME end = <<>> PROVE after = Len(csv) + 1 /\ r + 1 = Len(rows)
          OBVIOUS
    <3>1. r + 1 = Len(rows)
          BY <1>1, <1>2 DEF WrittenAs
    <3>2. LengthUpTo(texts, r + 1) = Len(csv)
          BY <1>4, <3>1, TextLengths
    <3>3. Len(end) = 0
          OBVIOUS
    <3>   QED  BY <1>6, <1>11, <2>2, <3>1, <3>2, <3>3
  <2>6. IsStop(after)
    <3>1. CASE end = <<>>
          BY <1>11, <2>5, <3>1 DEF IsStop
    <3>2. CASE end = <<"\n">>
      <4>1. csv[after] = "\n"
            BY <1>11, <2>4, <3>2, HasOne
      <4>   QED  BY <4>1 DEF IsStop
    <3>3. CASE end = <<"\r", "\n">>
      <4>1. Len(end) = 2 /\ end[1] = "\r" /\ 1 \in 1..2 /\ after + 1 - 1 = after
            BY <1>11, <3>3
      <4>2. csv[after] = "\r"
            BY <2>4, <4>1 DEF HasAt
      <4>   QED  BY <4>2 DEF IsStop
    <3>   QED  BY <1>3, <3>1, <3>2, <3>3 DEF IsEnd
  <2>7. FieldAt(v, q, n)
        BY <1>3, <1>10, <2>6 DEF FieldAt, after
  <2>8. CellPlace(rows, quoted, ends, r + 1, 0) = after + Len(end)
        BY <1>6, <2>2, <2>3
  <2>   QED  BY <2>4, <2>5, <2>7, <2>8
<1>15. k + 1 < w \/ k + 1 = w
       BY <1>1
<1>   QED  BY <1>4, <1>7, <1>11, <1>12, <1>13, <1>14, <1>15, <1>16 DEF w

\* The first row begins the text, and the others are within it.
LEMMA RowPlaces ==
    ASSUME NEW rows, NEW quoted, NEW ends, WrittenAs(rows, quoted, ends),
           csv = TableText(rows, quoted, ends)
    PROVE  /\ csv \in CsvText
           /\ CellPlace(rows, quoted, ends, 0, 0) = 1
           /\ CellPlace(rows, quoted, ends, Len(rows), 0) = Len(csv) + 1
           /\ \A r \in 0..Len(rows) - 1 : CellPlace(rows, quoted, ends, r, 0) <= Len(csv)
<1>1. /\ Len(rows) \in Nat /\ rows \in Seq(CsvRow) /\ \A n \in 1..Len(rows) : IsEnd(ends[n])
      BY WrittenIs DEF WrittenAs
<1>2. PICK texts : texts = RowTexts(rows, quoted, ends)
      OBVIOUS
<1>3. /\ texts \in Seq(CsvText) /\ Len(texts) = Len(rows)
      /\ \A n \in 1..Len(rows) : texts[n] = RowText(rows[n], quoted[n], ends[n])
      /\ csv = FlattenSeq(texts) /\ csv \in CsvText
      BY <1>1, <1>2, RowTextsAre
<1>4. Len(csv) \in Nat /\ LengthUpTo(texts, 0) = 0 /\ LengthUpTo(texts, Len(rows)) = Len(csv)
      BY <1>3, TextIs, TextLengths
<1>5. \A r : CellPlace(rows, quoted, ends, r, 0) = 1 + LengthUpTo(texts, r) + 0
      BY <1>2 DEF CellPlace
<1>6. ASSUME NEW r \in 0..Len(rows) - 1 PROVE CellPlace(rows, quoted, ends, r, 0) <= Len(csv)
  <2>1. HasAt(csv, 1, FlattenSeq(texts)) /\ 1 \in Nat \ {0} /\ r \in 0..Len(texts) - 1
        BY <1>3, HasItself
  <2>2. 1 + LengthUpTo(texts, r) \in Nat \ {0} /\ HasAt(csv, 1 + LengthUpTo(texts, r), texts[r + 1])
        BY <1>3, <2>1, TextParts
  <2>3. r + 1 \in 1..Len(rows)
        BY <1>1
  <2>4. Len(texts[r + 1]) > 0 /\ Len(texts[r + 1]) \in Nat
        BY <1>3, <2>3, RowIsSomething, TextIs
  <2>   QED  BY <1>4, <1>5, <2>2, <2>4 DEF HasAt
<1>   QED  BY <1>3, <1>4, <1>5, <1>6

-----------------------------------------------------------------------------
\* The first field, with a mark before it and without.

WithFirstField(rows, v) == [rows EXCEPT ![1] = [rows[1] EXCEPT ![1] = v]]

Stripped(rows) == WithFirstField(rows, strip_utf8_bom(rows[1][1]))

LEMMA FirstAndRest ==
    ASSUME NEW A, NEW s \in Seq(A), NEW t \in Seq(A), Len(s) = Len(t), Len(s) > 0,
           \A k \in 1..Len(s) : k > 1 => s[k] = t[k]
    PROVE  /\ t = <<t[1]>> \o Tail(s) /\ Tail(s) \in Seq(A) /\ Len(Tail(s)) = Len(s) - 1
           /\ t[1] \in A
<1>1. /\ Tail(s) \in Seq(A) /\ Len(Tail(s)) = Len(s) - 1 /\ Len(s) \in Nat
      /\ \A k \in 1..Len(s) - 1 : Tail(s)[k] = s[k + 1]
      /\ t[1] \in A
      OBVIOUS
<1>   DEFINE a == t[1]
             r == Tail(s)
<1>   HIDE DEF a, r
<1>2. /\ <<a>> \o r \in Seq(A) /\ Len(<<a>> \o r) = Len(r) + 1
      /\ (<<a>> \o r)[1] = a /\ \A k \in 1..Len(r) : (<<a>> \o r)[k + 1] = r[k]
      BY <1>1 DEF a, r
<1>3. ASSUME NEW k \in 1..Len(t) PROVE (<<a>> \o r)[k] = t[k]
  <2>1. CASE k = 1
        BY <1>2, <2>1 DEF a
  <2>2. CASE k # 1
    <3>1. k - 1 \in 1..Len(r) /\ k - 1 + 1 = k /\ k - 1 \in 1..Len(s) - 1
          BY <1>1, <2>2 DEF r
    <3>2. (<<a>> \o r)[k] = r[k - 1] /\ r[k - 1] = s[k]
          BY <1>1, <1>2, <3>1 DEF r
    <3>3. k \in 1..Len(s) /\ k > 1
          BY <2>2
    <3>4. s[k] = t[k]
          BY <3>3
    <3>   QED  BY <3>2, <3>4
  <2>   QED  BY <2>1, <2>2
<1>4. t = <<a>> \o r
      BY <1>1, <1>2, <1>3 DEF r
<1>   QED  BY <1>1, <1>4 DEF a, r

LEMMA OtherFirst ==
    ASSUME NEW A, NEW s \in Seq(A), Len(s) > 0, NEW x \in A
    PROVE  LET new == [s EXCEPT ![1] = x]
           IN  /\ new \in Seq(A) /\ Len(new) = Len(s) /\ DOMAIN new = DOMAIN s /\ new[1] = x
               /\ \A n \in 1..Len(s) : n > 1 => new[n] = s[n]
               /\ [new EXCEPT ![1] = s[1]] = s
<1>   DEFINE new == [s EXCEPT ![1] = x]
             old == [new EXCEPT ![1] = s[1]]
<1>1. Len(s) \in Nat /\ DOMAIN s = 1..Len(s) /\ 1 \in 1..Len(s) /\ s \in [1..Len(s) -> A]
      OBVIOUS
<1>2. new \in [1..Len(s) -> A] /\ new[1] = x /\ \A n \in 1..Len(s) : n > 1 => new[n] = s[n]
      BY <1>1
<1>   HIDE DEF new
<1>3. old \in [1..Len(s) -> A] /\ \A n \in 1..Len(s) : old[n] = s[n]
      BY <1>1, <1>2
<1>4. old = s
  <2>   HIDE DEF old
  <2>   QED  BY <1>1, <1>3
<1>5. new \in Seq(A) /\ Len(new) = Len(s) /\ DOMAIN new = DOMAIN s
      BY <1>1, <1>2
<1>   QED  BY <1>2, <1>4, <1>5 DEF new

LEMMA NotMore ==
    ASSUME NEW n \in Nat \ {0}, ~(1 < n)
    PROVE  n = 1
OBVIOUS

LEMMA EmptyIs ==
    ASSUME NEW A, NEW s \in Seq(A), Len(s) = 0
    PROVE  s = <<>>
OBVIOUS

LEMMA BehindIs ==
    ASSUME NEW row, NEW k, NEW end
    PROVE  /\ k < Len(row) => Behind(row, k, end) = <<"separator">>
           /\ ~(k < Len(row)) => Behind(row, k, end) = end
BY DEF Behind

LEMMA EndBegins ==
    ASSUME NEW end, IsEnd(end), end # <<>>
    PROVE  end[1] \in {"\r", "\n"} /\ Len(end) > 0
<1>1. CASE end = <<"\n">>
      BY <1>1
<1>2. CASE end = <<"\r", "\n">>
      BY <1>2
<1>   QED  BY <1>1, <1>2 DEF IsEnd

LEMMA FirstFieldOf ==
    ASSUME NEW rows \in Seq(CsvRow), Len(rows) > 0, Len(rows[1]) > 0, NEW v \in CsvText
    PROVE  LET new == WithFirstField(rows, v)
           IN  /\ new \in Seq(CsvRow) /\ Len(new) = Len(rows) /\ DOMAIN new = DOMAIN rows
               /\ new[1] \in CsvRow /\ Len(new[1]) = Len(rows[1]) /\ new[1][1] = v
               /\ rows[1] \in CsvRow
               /\ \A k \in 1..Len(rows[1]) : k > 1 => new[1][k] = rows[1][k]
               /\ \A n \in 1..Len(rows) : n > 1 => new[n] = rows[n]
               /\ WithFirstField(new, rows[1][1]) = rows
<1>1. rows[1] \in CsvRow
      OBVIOUS
<1>   DEFINE row == [rows[1] EXCEPT ![1] = v]
             new == [rows EXCEPT ![1] = row]
<1>2. row \in CsvRow /\ Len(row) = Len(rows[1]) /\ row[1] = v
      /\ (\A k \in 1..Len(rows[1]) : k > 1 => row[k] = rows[1][k])
      /\ [row EXCEPT ![1] = rows[1][1]] = rows[1]
      BY <1>1, OtherFirst DEF CsvRow
<1>   HIDE DEF row
<1>3. /\ new \in Seq(CsvRow) /\ Len(new) = Len(rows) /\ DOMAIN new = DOMAIN rows /\ new[1] = row
      /\ \A n \in 1..Len(rows) : n > 1 => new[n] = rows[n]
      /\ [new EXCEPT ![1] = rows[1]] = rows
      BY <1>1, <1>2, OtherFirst
<1>4. WithFirstField(rows, v) = new
      BY DEF WithFirstField, row
<1>   HIDE DEF new
<1>5. WithFirstField(new, rows[1][1]) = rows
      BY <1>2, <1>3 DEF WithFirstField
<1>   QED  BY <1>1, <1>2, <1>3, <1>4, <1>5

LEMMA SameFirstField ==
    ASSUME NEW rows \in Seq(CsvRow), Len(rows) > 0, Len(rows[1]) > 0
    PROVE  WithFirstField(rows, rows[1][1]) = rows /\ rows[1][1] \in CsvText
<1>1. rows[1] \in CsvRow /\ 1 \in 1..Len(rows)
      OBVIOUS
<1>2. [rows[1] EXCEPT ![1] = rows[1][1]] = rows[1] /\ rows[1][1] \in CsvText
      BY <1>1 DEF CsvRow
<1>   QED  BY <1>1, <1>2 DEF WithFirstField

\* The text of a table is that of its first field, and the rest.
LEMMA TextOfFirst ==
    ASSUME NEW rows, NEW quoted, NEW ends, WrittenAs(rows, quoted, ends), Len(rows) > 0
    PROVE  \E rest \in CsvText :
               /\ rest = <<>> \/ rest[1] \in {"separator", "\r", "\n"}
               /\ \A v \in CsvText :
                     LET new == WithFirstField(rows, v)
                     IN  /\ TableText(new, quoted, ends) = FieldText(v, quoted[1][1]) \o rest
                         /\ Len(rows) = 1 => RowText(new[1], quoted[1], ends[1]) = TableText(new, quoted, ends)
<1>1. /\ rows \in Seq(CsvRow) /\ Len(rows) \in Nat \ {0} /\ 1 \in 1..Len(rows) /\ rows[1] \in CsvRow
      /\ Len(rows[1]) \in Nat \ {0} /\ IsEnd(ends[1]) /\ \A n \in 1..Len(rows) : IsEnd(ends[n])
      /\ 1 \in 1..Len(rows[1])
  <2>1. rows \in Seq(CsvRow) /\ Len(rows) \in Nat \ {0} /\ 1 \in 1..Len(rows)
        BY WrittenIs DEF WrittenAs
  <2>   QED  BY <2>1, WrittenIs
<1>10. PICK row1, q1, end : row1 = rows[1] /\ q1 = quoted[1] /\ end = ends[1]
       OBVIOUS
<1>11. row1 \in CsvRow /\ Len(row1) \in Nat \ {0} /\ 1 \in 1..Len(row1) /\ IsEnd(end)
       BY <1>1, <1>10
<1>12. PICK first, cells, texts :
           first = Behind(row1, 1, end) /\ cells = Cells(row1, q1, end) /\ texts = RowTexts(rows, quoted, ends)
       OBVIOUS
<1>   DEFINE more  == FlattenSeq(Tail(cells))
             below == FlattenSeq(Tail(texts))
<1>13. first = Behind(row1, 1, end) /\ cells = Cells(row1, q1, end)
       BY <1>12
<1>14. ASSUME NEW k \in 1..Len(row1)
       PROVE  /\ cells[k] = FieldText(row1[k], q1[k]) \o Behind(row1, k, end)
              /\ Behind(row1, k, end) \in CsvText
       BY <1>11, <1>13, CellsAre
<1>2. cells \in Seq(CsvText) /\ Len(cells) = Len(row1) /\ first \in CsvText
  <2>1. cells \in Seq(CsvText) /\ Len(cells) = Len(row1)
        BY <1>11, <1>13, CellsAre
  <2>   QED  BY <1>11, <1>13, <1>14, <2>1
<1>3. texts \in Seq(CsvText) /\ Len(texts) = Len(rows)
      BY <1>1, <1>12, RowTextsAre
<1>4. Tail(cells) \in Seq(CsvText) /\ Len(Tail(cells)) = Len(row1) - 1
      BY <1>2, <1>11
<1>5. Tail(texts) \in Seq(CsvText) /\ Len(Tail(texts)) = Len(rows) - 1
      BY <1>1, <1>3
<1>6. more \in CsvText /\ below \in CsvText
      BY <1>4, <1>5, FlattenType DEF CsvText
<1>   DEFINE rest == (first \o more) \o below
<1>7. rest \in CsvText /\ first \o more \in CsvText
  <2>   HIDE DEF more, below
  <2>1. first \o more \in CsvText
        BY <1>2, <1>6, Joined
  <2>   QED  BY <1>6, <2>1, Joined
<1>8. rest = <<>> \/ rest[1] \in {"separator", "\r", "\n"}
  <2>1. CASE first = <<>>
    <3>1. Len(row1) = 1 /\ end = <<>>
      <4>1. <<"separator">> # <<>>
            OBVIOUS
      <4>2. ~(1 < Len(row1))
            BY <1>13, <2>1, <4>1, BehindIs
      <4>3. first = end
            BY <1>13, <4>2, BehindIs
      <4>4. Len(row1) = 1
        <5>1. Len(row1) \in Nat \ {0}
              BY <1>11
        <5>   QED  BY <4>2, <5>1, NotMore, Zenon
      <4>   QED  BY <2>1, <4>3, <4>4, Zenon
    <3>2. Len(rows) = 1
          BY <1>1, <1>10, <3>1 DEF WrittenAs
    <3>3. Tail(cells) = <<>> /\ Tail(texts) = <<>>
      <4>1. Len(Tail(cells)) = 0 /\ Len(Tail(texts)) = 0
            BY <1>4, <1>5, <3>1, <3>2
      <4>   QED  BY <1>4, <1>5, <4>1, EmptyIs
    <3>4. FlattenSeq(<<>>) = <<>> /\ <<>> \o <<>> = <<>>
          BY DEF FlattenSeq
    <3>   QED  BY <2>1, <3>3, <3>4
  <2>2. CASE first # <<>>
    <3>1. first[1] \in {"separator", "\r", "\n"} /\ Len(first) > 0
      <4>1. CASE 1 < Len(row1)
        <5>1. first = <<"separator">>
              BY <1>13, <4>1, BehindIs
        <5>   QED  BY <5>1
      <4>2. CASE ~(1 < Len(row1))
        <5>1. first = end
              BY <1>13, <4>2, BehindIs
        <5>   QED  BY <1>11, <2>2, <5>1, EndBegins
      <4>   QED  BY <4>1, <4>2
    <3>   HIDE DEF more, below
    <3>2. (first \o more)[1] = first[1] /\ Len(first \o more) > 0
      <4>1. first \in CsvText /\ more \in CsvText /\ Len(first) > 0
            BY <1>2, <1>6, <3>1
      <4>2. (first \o more)[1] = first[1] /\ Len(first \o more) = Len(first) + Len(more) /\ Len(more) \in Nat
            /\ Len(first) \in Nat
            BY <4>1, Joined
      <4>   QED  BY <4>1, <4>2
    <3>3. rest[1] = (first \o more)[1]
          BY <1>6, <1>7, <3>2, Joined
    <3>   QED  BY <3>1, <3>2, <3>3
  <2>   QED  BY <2>1, <2>2
<1>9. ASSUME NEW v \in CsvText
      PROVE  LET new == WithFirstField(rows, v)
             IN  /\ TableText(new, quoted, ends) = FieldText(v, q1[1]) \o rest
                 /\ Len(rows) = 1 => RowText(new[1], q1, end) = TableText(new, quoted, ends)
  <2>1. PICK new : new = WithFirstField(rows, v)
        OBVIOUS
  <2>2. /\ new \in Seq(CsvRow) /\ Len(new) = Len(rows)
        /\ new[1] \in CsvRow /\ Len(new[1]) = Len(row1) /\ new[1][1] = v
        /\ \A k \in 1..Len(row1) : k > 1 => new[1][k] = row1[k]
        /\ \A n \in 1..Len(rows) : n > 1 => new[n] = rows[n]
        BY <1>1, <1>10, <2>1, FirstFieldOf
  <2>3. PICK row, cells2, texts2 :
            row = new[1] /\ cells2 = Cells(row, q1, end) /\ texts2 = RowTexts(new, quoted, ends)
        OBVIOUS
  <2>4. /\ cells2 \in Seq(CsvText) /\ Len(cells2) = Len(row) /\ RowText(row, q1, end) = FlattenSeq(cells2)
        /\ \A k \in 1..Len(row) : cells2[k] = FieldText(row[k], q1[k]) \o Behind(row, k, end)
    <3>1. row \in CsvRow /\ IsEnd(end) /\ cells2 = Cells(row, q1, end)
          BY <1>11, <2>2, <2>3
    <3>2. ASSUME NEW k \in 1..Len(row) PROVE cells2[k] = FieldText(row[k], q1[k]) \o Behind(row, k, end)
          BY <3>1, CellsAre
    <3>3. cells2 \in Seq(CsvText) /\ Len(cells2) = Len(row) /\ RowText(row, q1, end) = FlattenSeq(cells2)
          BY <3>1, CellsAre
    <3>   QED  BY <3>2, <3>3
  <2>6. \A k : Behind(row, k, end) = Behind(row1, k, end)
        BY <2>2, <2>3 DEF Behind
  <2>7. (\A k \in 1..Len(cells) : k > 1 => cells[k] = cells2[k]) /\ Len(cells) = Len(cells2)
    <3>1. ASSUME NEW k \in 1..Len(row1), k > 1 PROVE cells[k] = cells2[k]
      <4>1. row[k] = row1[k] /\ k \in 1..Len(row)
            BY <2>2, <2>3, <3>1
      <4>   QED  BY <1>14, <2>4, <2>6, <4>1
    <3>   QED  BY <1>2, <2>2, <2>3, <2>4, <3>1
  <2>8. cells2 = <<cells2[1]>> \o Tail(cells) /\ cells2[1] \in CsvText
        BY <1>2, <1>11, <2>4, <2>7, FirstAndRest
  <2>9. cells2[1] = FieldText(v, q1[1]) \o first
        BY <1>11, <1>13, <2>2, <2>3, <2>4, <2>6
  <2>10. FlattenSeq(<<cells2[1]>> \o Tail(cells)) = cells2[1] \o more
        BY <1>4, <2>8, FlattenFirst DEF CsvText
  <2>11. RowText(row, q1, end) = FieldText(v, q1[1]) \o (first \o more)
    <3>1. RowText(row, q1, end) = (FieldText(v, q1[1]) \o first) \o more
          BY <2>4, <2>8, <2>9, <2>10
    <3>2. FieldText(v, q1[1]) \in CsvText
          BY FieldTextType
    <3>   HIDE DEF more
    <3>   QED  BY <1>2, <1>6, <3>1, <3>2, JoinedThree
  <2>12. /\ texts2 \in Seq(CsvText) /\ Len(texts2) = Len(new) /\ TableText(new, quoted, ends) = FlattenSeq(texts2)
         /\ \A n \in 1..Len(new) : texts2[n] = RowText(new[n], quoted[n], ends[n])
    <3>1. \A n \in 1..Len(new) : IsEnd(ends[n])
          BY <1>1, <2>2
    <3>2. new \in Seq(CsvRow) /\ texts2 = RowTexts(new, quoted, ends)
          BY <2>2, <2>3
    <3>   QED  BY <3>1, <3>2, RowTextsAre
  <2>13. \A n \in 1..Len(rows) : texts[n] = RowText(rows[n], quoted[n], ends[n])
         BY <1>1, <1>12, RowTextsAre
  <2>14. (\A n \in 1..Len(texts) : n > 1 => texts[n] = texts2[n]) /\ Len(texts) = Len(texts2)
         BY <1>3, <2>2, <2>12, <2>13
  <2>15. texts2 = <<texts2[1]>> \o Tail(texts) /\ texts2[1] \in CsvText
         BY <1>1, <1>3, <2>12, <2>14, FirstAndRest
  <2>16. texts2[1] = RowText(row, q1, end)
         BY <1>1, <1>10, <2>2, <2>3, <2>12
  <2>17. FlattenSeq(<<texts2[1]>> \o Tail(texts)) = texts2[1] \o below
         BY <1>5, <2>15, FlattenFirst DEF CsvText
  <2>18. TableText(new, quoted, ends) = RowText(row, q1, end) \o below
         BY <2>12, <2>15, <2>16, <2>17
  <2>19. TableText(new, quoted, ends) = FieldText(v, q1[1]) \o rest
    <3>1. FieldText(v, q1[1]) \in CsvText
          BY FieldTextType
    <3>   HIDE DEF more, below
    <3>2. (FieldText(v, q1[1]) \o (first \o more)) \o below = FieldText(v, q1[1]) \o ((first \o more) \o below)
          BY <1>6, <1>7, <3>1, JoinedThree
    <3>   QED  BY <2>11, <2>18, <3>2
  <2>20. ASSUME Len(rows) = 1 PROVE RowText(row, q1, end) = TableText(new, quoted, ends)
    <3>1. Tail(texts) = <<>>
      <4>1. Tail(texts) \in Seq(CsvText) /\ Len(Tail(texts)) = 0
            BY <1>5, <2>20
      <4>   QED  BY <4>1, EmptyIs
    <3>2. below = <<>>
          BY <3>1 DEF FlattenSeq
    <3>3. RowText(row, q1, end) \in Seq(CsvChar)
          BY <2>15, <2>16 DEF CsvText
    <3>4. RowText(row, q1, end) \o <<>> = RowText(row, q1, end)
      <4>   DEFINE t == RowText(row, q1, end)
      <4>   HIDE DEF t
      <4>1. t \in Seq(CsvChar)
            BY <3>3 DEF t
      <4>2. t \o <<>> = t
            BY <4>1
      <4>   QED  BY <4>2 DEF t
    <3>   QED  BY <2>18, <3>2, <3>4
  <2>   HIDE DEF rest
  <2>   QED  BY <2>1, <2>3, <2>19, <2>20
<1>   HIDE DEF rest
<1>   QED  BY <1>7, <1>8, <1>9, <1>10

LEMMA StripIs ==
    ASSUME NEW v \in CsvText
    PROVE  /\ strip_utf8_bom(v) \in CsvText
           /\ strip_utf8_bom(v) = v \/ v = <<"bom">> \o strip_utf8_bom(v)
           /\ <<"bom">> \o v \in CsvText /\ strip_utf8_bom(<<"bom">> \o v) = v
           /\ Plain(<<"bom">> \o v) <=> Plain(v)
           /\ Plain(v) => Plain(strip_utf8_bom(v))
<1>   DEFINE m(s) == <<"bom">> \o s
<1>1. ASSUME NEW s \in CsvText
      PROVE  /\ m(s) \in CsvText /\ Len(m(s)) = Len(s) + 1 /\ m(s)[1] = "bom" /\ m(s) # <<>>
             /\ Tail(m(s)) = s /\ Len(s) \in Nat
             /\ \A k \in 1..Len(s) : m(s)[k + 1] = s[k]
  <2>1. s \in Seq(CsvChar) /\ "bom" \in CsvChar
        BY CharsAre, TextIs
  <2>   HIDE DEF m
  <2>2. /\ m(s) \in Seq(CsvChar) /\ Len(m(s)) = Len(s) + 1 /\ m(s)[1] = "bom" /\ m(s) # <<>>
        /\ Tail(m(s)) = s /\ Len(s) \in Nat
        /\ \A k \in 1..Len(s) : m(s)[k + 1] = s[k]
        BY <2>1 DEF m
  <2>   QED  BY <2>2 DEF CsvText
<1>2. ASSUME NEW s \in CsvText PROVE Plain(m(s)) <=> Plain(s)
  <2>1. Plain(s) <=> \A k \in 1..Len(s) : s[k] \notin Special
        BY PlainIs
  <2>2. Plain(m(s)) <=> \A k \in 1..Len(m(s)) : m(s)[k] \notin Special
        BY <1>1, PlainIs
  <2>   HIDE DEF m
  <2>3. \A k \in 1..Len(m(s)) : k = 1 \/ (k - 1 \in 1..Len(s) /\ m(s)[k] = s[k - 1])
    <3>   TAKE k \in 1..Len(m(s))
    <3>1. CASE k # 1
      <4>1. k - 1 \in 1..Len(s) /\ k - 1 + 1 = k
            BY <1>1, <3>1
      <4>   QED  BY <1>1, <4>1
    <3>   QED  BY <3>1
  <2>4. \A k \in 1..Len(s) : k + 1 \in 1..Len(m(s)) /\ m(s)[k + 1] = s[k]
        BY <1>1
  <2>5. m(s)[1] \notin Special
        BY <1>1, CharsAre
  <2>   QED  BY <2>1, <2>2, <2>3, <2>4, <2>5
<1>3. strip_utf8_bom(v) = v \/ (v # <<>> /\ v[1] = "bom" /\ strip_utf8_bom(v) = Tail(v))
      BY DEF strip_utf8_bom
<1>4. ASSUME v # <<>> PROVE Tail(v) \in CsvText /\ v = <<v[1]>> \o Tail(v)
      BY <1>4, HeadAndRest DEF CsvText
<1>5. strip_utf8_bom(v) \in CsvText /\ (strip_utf8_bom(v) = v \/ v = m(strip_utf8_bom(v)))
      BY <1>3, <1>4
<1>6. m(v) \in CsvText /\ strip_utf8_bom(m(v)) = v
      BY <1>1 DEF strip_utf8_bom
<1>7. Plain(v) => Plain(strip_utf8_bom(v))
      BY <1>2, <1>5
<1>   QED  BY <1>2, <1>5, <1>6, <1>7

\* A mark before a text is a mark in its first field, or stands before a quote.
LEMMA MarkedText ==
    ASSUME NEW u \in CsvText, NEW rest \in CsvText
    PROVE  /\ <<"bom">> \o (FieldText(u, FALSE) \o rest) = FieldText(<<"bom">> \o u, FALSE) \o rest
           /\ MarkThenQuote(<<"bom">> \o (FieldText(u, TRUE) \o rest))
<1>1. PICK m : m = <<"bom">>
      OBVIOUS
<1>2. m \in CsvText /\ Len(m) = 1 /\ m[1] = "bom"
      BY <1>1, EndIs
<1>3. <<"bom">> \o (FieldText(u, FALSE) \o rest) = FieldText(<<"bom">> \o u, FALSE) \o rest
  <2>1. FieldText(u, FALSE) = u /\ FieldText(m \o u, FALSE) = m \o u
        BY DEF FieldText
  <2>2. (m \o u) \o rest = m \o (u \o rest)
        BY <1>2, JoinedThree
  <2>   QED  BY <1>1, <2>1, <2>2
<1>4. PICK text : text = FieldText(u, TRUE) \o rest
      OBVIOUS
<1>5. MarkThenQuote(<<"bom">> \o text)
  <2>1. PICK q : q = Quoted(u)
        OBVIOUS
  <2>2. q \in CsvText /\ q[1] = "quote" /\ Len(q) > 0
        BY <2>1, QuotedIs
  <2>3. text = q \o rest
        BY <1>4, <2>1 DEF FieldText
  <2>4. text \in CsvText /\ Len(text) > 0 /\ text[1] = "quote"
        BY <2>2, <2>3, Joined
  <2>5. text \in Seq(CsvChar) /\ "bom" \in CsvChar /\ Len(text) \in Nat
        BY <2>4, TextIs, CharsAre
  <2>6. /\ Len(<<"bom">> \o text) = Len(text) + 1
        /\ (<<"bom">> \o text)[1] = "bom" /\ (<<"bom">> \o text)[2] = text[1]
        BY <2>4, <2>5
  <2>   QED  BY <2>4, <2>5, <2>6 DEF MarkThenQuote
<1>   QED  BY <1>3, <1>4, <1>5

\* Another first field, as well written.
LEMMA OtherFieldWritten ==
    ASSUME NEW rows, NEW quoted, NEW ends, WrittenAs(rows, quoted, ends), Len(rows) > 0,
           NEW v \in CsvText, quoted[1][1] \/ Plain(v),
           TableText(WithFirstField(rows, v), quoted, ends) # <<>>
    PROVE  WrittenAs(WithFirstField(rows, v), quoted, ends)
<1>1. PICK new : new = WithFirstField(rows, v)
      OBVIOUS
<1>2. rows \in Seq(CsvRow) /\ Len(rows) \in Nat \ {0} /\ 1 \in 1..Len(rows) /\ Len(rows[1]) \in Nat \ {0}
      BY WrittenIs DEF WrittenAs
<1>3. /\ new \in Seq(CsvRow) /\ Len(new) = Len(rows)
      /\ Len(new[1]) = Len(rows[1]) /\ new[1][1] = v
      /\ \A k \in 1..Len(rows[1]) : k > 1 => new[1][k] = rows[1][k]
      /\ \A n \in 1..Len(rows) : n > 1 => new[n] = rows[n]
      BY <1>1, <1>2, FirstFieldOf
<1>4. /\ quoted \in Seq(Seq(BOOLEAN)) /\ ends \in Seq(CsvText)
      /\ Len(quoted) = Len(rows) /\ Len(ends) = Len(rows)
      /\ \A n \in 1..Len(rows) :
            /\ Len(rows[n]) = Len(rows[1]) /\ Len(rows[n]) > 0
            /\ Len(quoted[n]) = Len(rows[n])
            /\ \A k \in 1..Len(rows[n]) : quoted[n][k] \/ Plain(rows[n][k])
            /\ IsEnd(ends[n])
            /\ ends[n] = <<>> => n = Len(rows) /\ RowText(rows[n], quoted[n], <<>>) # <<>>
      BY Zenon DEF WrittenAs
<1>5. ASSUME NEW n \in 1..Len(new)
      PROVE  /\ Len(new[n]) = Len(new[1]) /\ Len(new[n]) > 0
             /\ Len(quoted[n]) = Len(new[n])
             /\ \A k \in 1..Len(new[n]) : quoted[n][k] \/ Plain(new[n][k])
             /\ IsEnd(ends[n])
             /\ ends[n] = <<>> => n = Len(new) /\ RowText(new[n], quoted[n], <<>>) # <<>>
  <2>1. n \in 1..Len(rows)
        BY <1>3
  <2>2. CASE n > 1
    <3>1. new[n] = rows[n]
          BY <1>3, <2>1, <2>2
    <3>   QED  BY <1>3, <1>4, <2>1, <3>1
  <2>3. CASE ~(n > 1)
    <3>1. n = 1
          BY <1>2, <2>1, <2>3
    <3>2. ASSUME NEW k \in 1..Len(new[1]) PROVE quoted[1][k] \/ Plain(new[1][k])
      <4>1. k \in 1..Len(rows[1])
            BY <1>3
      <4>2. CASE k = 1
            BY <1>3, <4>2
      <4>3. CASE k # 1
        <5>1. k > 1
              BY <4>3
        <5>   QED  BY <1>2, <1>3, <1>4, <4>1, <5>1
      <4>   QED  BY <4>2, <4>3
    <3>3. ASSUME ends[1] = <<>> PROVE 1 = Len(new) /\ RowText(new[1], quoted[1], <<>>) # <<>>
      <4>1. Len(rows) = 1
            BY <1>2, <1>4, <3>3
      <4>2. RowText(new[1], quoted[1], ends[1]) = TableText(new, quoted, ends)
        <5>1. PICK rest \in CsvText : \A x \in CsvText :
                  Len(rows) = 1 => RowText(WithFirstField(rows, x)[1], quoted[1], ends[1])
                                       = TableText(WithFirstField(rows, x), quoted, ends)
              BY TextOfFirst
        <5>   QED  BY <1>1, <4>1, <5>1
      <4>   QED  BY <1>1, <1>3, <3>3, <4>1, <4>2
    <3>4. Len(quoted[1]) = Len(rows[1]) /\ IsEnd(ends[1])
          BY <1>2, <1>4
    <3>   QED  BY <1>2, <1>3, <3>1, <3>2, <3>3, <3>4
  <2>   QED  BY <2>2, <2>3
<1>6. Len(quoted) = Len(new) /\ Len(ends) = Len(new)
      BY <1>3, <1>4
<1>   QED  BY <1>1, <1>3, <1>4, <1>5, <1>6, Zenon DEF WrittenAs

-----------------------------------------------------------------------------
\* The writings of a table.

LEMMA WrittenIsUnmarked ==
    ASSUME NEW rows, NEW quoted, NEW ends, WrittenAs(rows, quoted, ends), Len(rows) > 0
    PROVE  TableText(rows, quoted, ends) \in Unmarked(rows)
<1>1. /\ Len(rows) \in Nat \ {0} /\ DOMAIN rows = 1..Len(rows) /\ 1 \in 1..Len(rows)
      /\ Len(quoted) = Len(rows) /\ Len(ends) = Len(rows)
      /\ quoted \in Seq(Seq(BOOLEAN)) /\ ends \in Seq(CsvText)
      BY WrittenIs DEF WrittenAs
<1>2. \A n \in 1..Len(rows) :
         /\ rows[n] \in CsvRow /\ quoted[n] \in Seq(BOOLEAN) /\ IsEnd(ends[n])
         /\ Len(rows[n]) = Len(rows[1]) /\ Len(rows[n]) \in Nat \ {0}
         /\ Len(quoted[n]) = Len(rows[n])
         /\ \A k \in 1..Len(rows[n]) : quoted[n][k] \/ Plain(rows[n][k])
      BY WrittenIs
<1>3. \A row \in CsvRow : DOMAIN row = 1..Len(row)
      BY DEF CsvRow
<1>4. quoted \in Quotings(rows)
  <2>1. DOMAIN rows[1] = 1..Len(rows[1])
        BY <1>1, <1>2, <1>3
  <2>2. ASSUME NEW n \in 1..Len(rows) PROVE quoted[n] \in [1..Len(rows[1]) -> BOOLEAN]
    <3>1. \A q \in Seq(BOOLEAN) : q \in [1..Len(q) -> BOOLEAN]
          OBVIOUS
    <3>2. quoted[n] \in Seq(BOOLEAN) /\ Len(quoted[n]) = Len(rows[1])
          BY <1>2
    <3>   QED  BY <3>1, <3>2
  <2>3. quoted = [n \in 1..Len(rows) |-> quoted[n]]
        BY <1>1
  <2>   DEFINE B == [1..Len(rows[1]) -> BOOLEAN]
  <2>   HIDE DEF B
  <2>4. quoted \in [1..Len(rows) -> B]
        BY <2>2, <2>3 DEF B
  <2>   QED  BY <1>1, <2>1, <2>4 DEF Quotings, B
<1>5. ends \in LineEnds(rows)
  <2>1. \A n \in 1..Len(rows) : ends[n] \in {<<"\n">>, <<"\r", "\n">>, <<>>}
        BY <1>2 DEF IsEnd
  <2>   DEFINE E == {<<"\n">>, <<"\r", "\n">>, <<>>}
  <2>   HIDE DEF E
  <2>2. ends \in [1..Len(rows) -> E]
        BY <1>1, <2>1 DEF E
  <2>   QED  BY <1>1, <2>2 DEF LineEnds, E
<1>6. IsWriting(rows, quoted, ends)
  <2>1. ASSUME NEW n \in DOMAIN rows, NEW k \in DOMAIN rows[n]
        PROVE  quoted[n][k] \/ Range(rows[n][k]) \cap Special = {}
    <3>1. n \in 1..Len(rows) /\ k \in 1..Len(rows[n])
          BY <1>1, <1>2, <1>3
    <3>2. quoted[n][k] \/ Plain(rows[n][k])
          BY <1>2, <3>1
    <3>   QED  BY <3>2 DEF Plain
  <2>2. ASSUME NEW n \in DOMAIN rows, ends[n] = <<>>
        PROVE  n = Len(rows) /\ RowText(rows[n], quoted[n], <<>>) # <<>>
        BY <1>1, <2>2 DEF WrittenAs
  <2>   QED  BY <2>1, <2>2, Zenon DEF IsWriting
<1>   DEFINE w == <<quoted, ends>>
<1>7. w \in Quotings(rows) \X LineEnds(rows) /\ w[1] = quoted /\ w[2] = ends
      BY <1>4, <1>5
<1>   HIDE DEF w
<1>   QED  BY <1>6, <1>7 DEF Unmarked

LEMMA UnmarkedIsWritten ==
    ASSUME NEW table, IsTable(table), NEW text \in Unmarked(table)
    PROVE  \E quoted, ends : WrittenAs(table, quoted, ends) /\ text = TableText(table, quoted, ends)
<1>1. PICK quoted \in Quotings(table), ends \in LineEnds(table) :
          IsWriting(table, quoted, ends) /\ text = TableText(table, quoted, ends)
  <2>1. PICK w \in Quotings(table) \X LineEnds(table) :
            IsWriting(table, w[1], w[2]) /\ text = TableText(table, w[1], w[2])
        BY DEF Unmarked
  <2>2. w[1] \in Quotings(table) /\ w[2] \in LineEnds(table)
        BY <2>1
  <2>   QED  BY <2>1, <2>2
<1>2. /\ table \in Seq(CsvRow) /\ Len(table) \in Nat /\ DOMAIN table = 1..Len(table)
      /\ Len(table) > 0
  <2>1. table \in Seq(Seq(Seq(CsvChar))) /\ table # <<>>
        BY DEF IsTable
  <2>   QED  BY <2>1 DEF CsvRow, CsvText
<1>3. ASSUME NEW n \in 1..Len(table)
      PROVE  /\ table[n] \in CsvRow /\ Len(table[n]) = Len(table[1]) /\ Len(table[n]) \in Nat \ {0}
             /\ DOMAIN table[n] = 1..Len(table[n])
  <2>3. \A m \in DOMAIN table : Len(table[m]) = Len(table[1]) /\ table[m] # <<>>
        BY Zenon DEF IsTable
  <2>4. table[n] \in CsvRow
        BY <1>2
  <2>1. Len(table[n]) = Len(table[1]) /\ table[n] # <<>> /\ table[n] \in CsvRow
        BY <1>2, <2>3, <2>4, Zenon
  <2>2. \A row \in CsvRow : row # <<>> => Len(row) \in Nat \ {0} /\ DOMAIN row = 1..Len(row)
        BY DEF CsvRow
  <2>   QED  BY <2>1, <2>2
<1>4. 1 \in 1..Len(table) /\ DOMAIN table[1] = 1..Len(table[1]) /\ Len(table[1]) \in Nat
      BY <1>2, <1>3
<1>5. quoted \in Seq(Seq(BOOLEAN)) /\ Len(quoted) = Len(table)
      /\ \A n \in 1..Len(table) : Len(quoted[n]) = Len(table[1])
  <2>   DEFINE w == Len(table[1])
               B == [1..w -> BOOLEAN]
  <2>1. quoted \in [1..Len(table) -> B]
        BY <1>2, <1>4 DEF Quotings
  <2>2. w \in Nat
        BY <1>4
  <2>   HIDE DEF w
  <2>3. \A q \in B : q \in Seq(BOOLEAN) /\ Len(q) = w
        BY <2>2
  <2>   HIDE DEF B
  <2>4. \A n \in 1..Len(table) : quoted[n] \in B
        BY <2>1
  <2>5. quoted \in [1..Len(table) -> Seq(BOOLEAN)]
        BY <2>1, <2>3, <2>4
  <2>   QED  BY <1>2, <2>3, <2>4, <2>5 DEF w
<1>6. ends \in Seq(CsvText) /\ Len(ends) = Len(table) /\ \A n \in 1..Len(table) : IsEnd(ends[n])
  <2>1. ends \in [1..Len(table) -> {<<"\n">>, <<"\r", "\n">>, <<>>}]
        BY <1>2 DEF LineEnds
  <2>2. \A n \in 1..Len(table) : IsEnd(ends[n])
        BY <2>1 DEF IsEnd
  <2>3. ends \in [1..Len(table) -> CsvText]
        BY <2>1, <2>2, EndIs
  <2>   QED  BY <1>2, <2>2, <2>3
<1>7. ASSUME NEW n \in 1..Len(table)
      PROVE  /\ \A k \in 1..Len(table[n]) : quoted[n][k] \/ Plain(table[n][k])
             /\ ends[n] = <<>> => n = Len(table) /\ RowText(table[n], quoted[n], <<>>) # <<>>
  <2>1. n \in DOMAIN table /\ DOMAIN table[n] = 1..Len(table[n])
        BY <1>2, <1>3
  <2>2. \A k \in DOMAIN table[n] : quoted[n][k] \/ Range(table[n][k]) \cap Special = {}
        BY <1>1, <2>1 DEF IsWriting
  <2>3. ends[n] = <<>> => n = Len(table) /\ RowText(table[n], quoted[n], <<>>) # <<>>
        BY <1>1, <2>1 DEF IsWriting
  <2>   QED  BY <2>1, <2>2, <2>3 DEF Plain
<1>8. WrittenAs(table, quoted, ends)
  <2>1. \A n \in 1..Len(table) :
          /\ Len(table[n]) = Len(table[1]) /\ Len(table[n]) > 0
          /\ Len(quoted[n]) = Len(table[n])
          /\ \A k \in 1..Len(table[n]) : quoted[n][k] \/ Plain(table[n][k])
          /\ IsEnd(ends[n])
          /\ ends[n] = <<>> => n = Len(table) /\ RowText(table[n], quoted[n], <<>>) # <<>>
    <3>1. SUFFICES ASSUME NEW n \in 1..Len(table)
                   PROVE  /\ Len(table[n]) = Len(table[1]) /\ Len(table[n]) > 0
                          /\ Len(quoted[n]) = Len(table[n])
                          /\ \A k \in 1..Len(table[n]) : quoted[n][k] \/ Plain(table[n][k])
                          /\ IsEnd(ends[n])
                          /\ ends[n] = <<>> =>
                                n = Len(table) /\ RowText(table[n], quoted[n], <<>>) # <<>>
          BY Zenon
    <3>2. Len(table[n]) = Len(table[1]) /\ Len(table[n]) > 0
          BY <1>3
    <3>3. Len(quoted[n]) = Len(table[n])
          BY <1>5, <3>2
    <3>4. IsEnd(ends[n])
          BY <1>6
    <3>   QED  BY <1>7, <3>2, <3>3, <3>4
  <2>   QED  BY <1>2, <1>5, <1>6, <2>1, Zenon DEF WrittenAs
<1>   QED  BY <1>1, <1>8

\* What is written is the table that is read, or that with a mark.
LEMMA TextIsWriting ==
    ASSUME NEW rows, NEW quoted, NEW ends, WrittenAs(rows, quoted, ends), Len(rows) > 0,
           NEW text, text = TableText(rows, quoted, ends)
    PROVE  text \in Unmarked(Stripped(rows)) \cup Unmarked(WithMark(Stripped(rows)))
<1>1. rows \in Seq(CsvRow) /\ Len(rows) \in Nat \ {0} /\ Len(rows[1]) \in Nat \ {0}
      BY WrittenIs DEF WrittenAs
<1>2. PICK v, u : v = rows[1][1] /\ u = strip_utf8_bom(v)
      OBVIOUS
<1>3. v \in CsvText /\ WithFirstField(rows, v) = rows
      BY <1>1, <1>2, SameFirstField
<1>4. u \in CsvText /\ (u = v \/ v = <<"bom">> \o u)
      BY <1>2, <1>3, StripIs
<1>5. PICK new : new = WithFirstField(rows, u)
      OBVIOUS
<1>6. Stripped(rows) = new
      BY <1>2, <1>5 DEF Stripped
<1>7. text \in Unmarked(rows)
      BY WrittenIsUnmarked
<1>8. CASE u = v
      BY <1>3, <1>5, <1>6, <1>7, <1>8
<1>9. CASE v = <<"bom">> \o u
  <2>1. new[1][1] = u /\ WithFirstField(new, v) = rows
        BY <1>1, <1>2, <1>4, <1>5, FirstFieldOf
  <2>2. WithMark(new) = rows
    <3>1. WithMark(new) = WithFirstField(new, <<"bom">> \o new[1][1])
          BY DEF WithMark, WithFirstField
    <3>   QED  BY <1>9, <2>1, <3>1
  <2>   QED  BY <1>6, <1>7, <2>2
<1>   QED  BY <1>4, <1>8, <1>9

\* And a writing of a table is what is written, with a mark or without, unless the
\* mark is before a quote.
LEMMA WritingIsText ==
    ASSUME NEW table, IsTable(table), strip_utf8_bom(table[1][1]) = table[1][1],
           NEW text \in Writings(table), ~MarkThenQuote(text)
    PROVE  \E rows, quoted, ends :
               /\ WrittenAs(rows, quoted, ends) /\ text = TableText(rows, quoted, ends)
               /\ Stripped(rows) = table /\ Len(rows) > 0
<1>1. table \in Seq(CsvRow) /\ Len(table) > 0 /\ Len(table[1]) > 0 /\ 1 \in 1..Len(table)
  <2>1. table \in Seq(Seq(Seq(CsvChar))) /\ table # <<>>
        BY DEF IsTable
  <2>2. table \in Seq(CsvRow) /\ Len(table) > 0 /\ 1 \in 1..Len(table) /\ DOMAIN table = 1..Len(table)
        BY <2>1 DEF CsvRow, CsvText
  <2>3. table[1] \in CsvRow /\ table[1] # <<>>
        BY <2>2 DEF IsTable
  <2>   QED  BY <2>2, <2>3 DEF CsvRow
<1>2. WithFirstField(table, table[1][1]) = table /\ table[1][1] \in CsvText
      BY <1>1, SameFirstField
<1>3. PICK u : u = table[1][1]
      OBVIOUS
<1>4. CASE text \in Unmarked(table)
  <2>1. PICK quoted, ends : WrittenAs(table, quoted, ends) /\ text = TableText(table, quoted, ends)
        BY <1>4, UnmarkedIsWritten
  <2>2. Stripped(table) = table
        BY <1>2 DEF Stripped
  <2>   QED  BY <1>1, <2>1, <2>2
<1>5. ASSUME NEW plain \in Unmarked(table), text = <<"bom">> \o plain
      PROVE  \E rows, quoted, ends :
                 /\ WrittenAs(rows, quoted, ends) /\ text = TableText(rows, quoted, ends)
                 /\ Stripped(rows) = table /\ Len(rows) > 0
  <2>1. PICK quoted, ends : WrittenAs(table, quoted, ends) /\ plain = TableText(table, quoted, ends)
        BY <1>5, UnmarkedIsWritten
  <2>2. PICK v, b, rows : v = <<"bom">> \o u /\ b = quoted[1][1] /\ rows = WithFirstField(table, v)
        OBVIOUS
  <2>3. 1 \in 1..Len(table[1])
    <3>1. Len(table[1]) \in Nat
          BY <1>1, <2>1, WrittenIs
    <3>   QED  BY <1>1, <3>1
  <2>4. u \in CsvText /\ b \in BOOLEAN /\ (b \/ Plain(u))
        BY <1>1, <1>2, <1>3, <2>1, <2>2, <2>3, WrittenIs
  <2>5. v \in CsvText /\ (b \/ Plain(v)) /\ strip_utf8_bom(v) = u
        BY <2>2, <2>4, StripIs
  <2>6. PICK rest \in CsvText :
            /\ rest = <<>> \/ rest[1] \in {"separator", "\r", "\n"}
            /\ \A x \in CsvText : TableText(WithFirstField(table, x), quoted, ends) = FieldText(x, quoted[1][1]) \o rest
        BY <1>1, <2>1, TextOfFirst
  <2>7. plain = FieldText(u, b) \o rest /\ TableText(rows, quoted, ends) = FieldText(v, b) \o rest
        BY <1>2, <1>3, <2>1, <2>2, <2>4, <2>5, <2>6
  <2>8. text = FieldText(v, b) \o rest
    <3>1. /\ <<"bom">> \o (FieldText(u, FALSE) \o rest) = FieldText(v, FALSE) \o rest
          /\ MarkThenQuote(<<"bom">> \o (FieldText(u, TRUE) \o rest))
          BY <2>2, <2>4, <2>6, MarkedText
    <3>2. text = <<"bom">> \o (FieldText(u, b) \o rest)
          BY <1>5, <2>7
    <3>3. CASE b = TRUE
          BY <3>1, <3>2, <3>3
    <3>4. CASE b = FALSE
          BY <3>1, <3>2, <3>4
    <3>   QED  BY <2>4, <3>3, <3>4
  <2>10. text # <<>>
    <3>1. text = FieldText(v, b) \o rest /\ FieldText(v, b) \in CsvText
          BY <2>5, <2>8, FieldTextType
    <3>2. Len(FieldText(v, b)) > 0
      <4>1. CASE b
            BY <2>5, <4>1, QuotedIs DEF FieldText
      <4>2. CASE ~b
        <5>1. FieldText(v, b) = <<"bom">> \o u
              BY <2>2, <4>2 DEF FieldText
        <5>2. <<"bom">> \in CsvText /\ Len(<<"bom">>) = 1
              BY EndIs
        <5>3. Len(<<"bom">> \o u) = Len(<<"bom">>) + Len(u) /\ Len(u) \in Nat
              BY <2>4, <5>2, Joined
        <5>   QED  BY <5>1, <5>2, <5>3
      <4>   QED  BY <2>4, <4>1, <4>2
    <3>3. Len(text) > 0
          BY <3>1, <3>2, Joined
    <3>   QED  BY <3>3
  <2>11. WrittenAs(rows, quoted, ends)
         BY <1>1, <2>1, <2>2, <2>5, <2>7, <2>8, <2>10, OtherFieldWritten
  <2>12. WithFirstField(rows, u) = table /\ rows[1][1] = v /\ Len(rows) = Len(table)
         BY <1>1, <1>3, <2>2, <2>5, FirstFieldOf
  <2>13. Stripped(rows) = table
         BY <2>5, <2>12 DEF Stripped
  <2>   QED  BY <1>1, <2>7, <2>8, <2>11, <2>12, <2>13
<1>6. text \in Unmarked(table) \cup {<<"bom">> \o t : t \in Unmarked(table)}
      BY Zenon DEF Writings
<1>   QED  BY <1>4, <1>5, <1>6

-----------------------------------------------------------------------------
\* Steps of reading.

\* The end of a record that is found at a place.
LEMMA EndFound ==
    ASSUME csv \in CsvText, NEW n \in 1..Len(csv) + 1, end_of_record(n), eat_newline(n) # 0
    PROVE  \E end : /\ IsEnd(end) /\ HasAt(csv, n, end)
                    /\ end = <<>> => n = Len(csv) + 1 /\ eat_newline(n) = Len(csv) + 2
                    /\ end # <<>> => eat_newline(n) = n + Len(end)
<1>1. Len(csv) \in Nat /\ csv \in Seq(CsvChar) /\ n \in Nat \ {0}
      BY TextIs
<1>2. CASE n > Len(csv)
  <2>1. n = Len(csv) + 1
        BY <1>1, <1>2
  <2>2. eat_newline(n) = Len(csv) + 2
        BY <1>1, <1>2, <2>1 DEF eat_newline
  <2>3. IsEnd(<<>>) /\ HasAt(csv, n, <<>>)
        BY <1>1, <2>1 DEF IsEnd, HasAt
  <2>   QED  BY <2>1, <2>2, <2>3
<1>3. CASE n <= Len(csv) /\ csv[n] = "\n"
  <2>1. PICK end : end = <<"\n">>
        OBVIOUS
  <2>2. eat_newline(n) = n + 1
        BY <1>3 DEF eat_newline
  <2>3. Len(end) = 1 /\ end # <<>> /\ IsEnd(end)
        BY <2>1 DEF IsEnd
  <2>4. HasAt(csv, n, end)
        BY <1>1, <1>3, <2>1, HasOne
  <2>   QED  BY <2>2, <2>3, <2>4
<1>4. CASE n <= Len(csv) /\ csv[n] # "\n"
  <2>1. csv[n] = "\r"
        BY <1>4 DEF end_of_record
  <2>2. n < Len(csv) /\ csv[n + 1] = "\n" /\ eat_newline(n) = n + 2
        BY <1>1, <1>4 DEF eat_newline
  <2>3. PICK end : end = <<"\r", "\n">>
        OBVIOUS
  <2>4. Len(end) = 2 /\ end # <<>> /\ IsEnd(end)
        BY <2>3 DEF IsEnd
  <2>5. HasAt(csv, n, end)
        BY <1>1, <2>1, <2>2, <2>3, HasTwo
  <2>   QED  BY <2>2, <2>4, <2>5
<1>   QED  BY <1>1, <1>2, <1>3, <1>4

\* And the one that is written.
LEMMA EndIsRead ==
    ASSUME csv \in CsvText, NEW n \in Nat \ {0}, NEW end, IsEnd(end), HasAt(csv, n, end),
           end = <<>> => n = Len(csv) + 1
    PROVE  /\ end_of_record(n) /\ eat_newline(n) # 0
           /\ end = <<>> => eat_newline(n) = Len(csv) + 2
           /\ end # <<>> => eat_newline(n) = n + Len(end)
<1>1. Len(csv) \in Nat /\ csv \in Seq(CsvChar)
      BY TextIs
<1>2. CASE end = <<>>
      BY <1>1, <1>2 DEF end_of_record, eat_newline
<1>3. CASE end = <<"\n">>
  <2>1. n <= Len(csv) /\ csv[n] = "\n"
        BY <1>1, <1>3, HasOne
  <2>2. Len(end) = 1 /\ end # <<>>
        BY <1>3
  <2>   QED  BY <1>1, <2>1, <2>2 DEF end_of_record, eat_newline
<1>4. CASE end = <<"\r", "\n">>
  <2>1. n + 1 <= Len(csv) /\ csv[n] = "\r" /\ csv[n + 1] = "\n"
        BY <1>1, <1>4, HasTwo
  <2>2. Len(end) = 2 /\ end # <<>>
        BY <1>4
  <2>   QED  BY <1>1, <2>1, <2>2 DEF end_of_record, eat_newline
<1>   QED  BY <1>2, <1>3, <1>4 DEF IsEnd

\* One more row leaves the first as it is.
LEMMA OtherBehind ==
    ASSUME NEW A, NEW s \in Seq(A), Len(s) > 0, NEW x \in A, NEW y \in A
    PROVE  [Append(s, y) EXCEPT ![1] = x] = Append([s EXCEPT ![1] = x], y)
<1>1. PICK a, b, n : a = Append(s, y) /\ b = [s EXCEPT ![1] = x] /\ n = Len(s)
      OBVIOUS
<1>2. a \in Seq(A) /\ Len(a) = n + 1 /\ n \in Nat \ {0} /\ \A k \in 1..n : a[k] = s[k]
      BY <1>1, Appended
<1>3. a[n + 1] = y
      BY <1>1, Appended
<1>4. b \in Seq(A) /\ Len(b) = n /\ b[1] = x /\ \A k \in 1..n : k > 1 => b[k] = s[k]
      BY <1>1, OtherFirst
<1>5. PICK c, d : c = [a EXCEPT ![1] = x] /\ d = Append(b, y)
      OBVIOUS
<1>6. c \in Seq(A) /\ Len(c) = n + 1 /\ c[1] = x /\ \A k \in 1..n + 1 : k > 1 => c[k] = a[k]
      BY <1>2, <1>5, OtherFirst
<1>7. d \in Seq(A) /\ Len(d) = n + 1 /\ d[n + 1] = y /\ \A k \in 1..n : d[k] = b[k]
      BY <1>4, <1>5, Appended
<1>8. ASSUME NEW k \in 1..n + 1 PROVE c[k] = d[k]
  <2>1. CASE k = 1
        BY <1>2, <1>4, <1>6, <1>7, <2>1
  <2>2. CASE k > 1 /\ k <= n
        BY <1>2, <1>4, <1>6, <1>7, <2>2
  <2>3. CASE k = n + 1
        BY <1>2, <1>3, <1>6, <1>7, <2>3
  <2>   QED  BY <1>2, <2>1, <2>2, <2>3
<1>9. c = d
      BY <1>6, <1>7, <1>8
<1>   QED  BY <1>1, <1>5, <1>9

LEMMA StrippedBehind ==
    ASSUME NEW rows \in Seq(CsvRow), Len(rows) > 0, Len(rows[1]) > 0, NEW row \in CsvRow
    PROVE  Stripped(Append(rows, row)) = Append(Stripped(rows), row)
<1>1. PICK x : x = [rows[1] EXCEPT ![1] = strip_utf8_bom(rows[1][1])]
      OBVIOUS
<1>6. x \in CsvRow
  <2>1. rows[1][1] \in CsvText /\ rows[1] \in CsvRow
        BY SameFirstField
  <2>2. strip_utf8_bom(rows[1][1]) \in CsvText
        BY <2>1, StripIs
  <2>   QED  BY <1>1, <2>1, <2>2, OtherFirst DEF CsvRow
<1>2. Append(rows, row)[1] = rows[1]
      BY Appended
<1>3. [Append(rows, row) EXCEPT ![1] = x] = Append([rows EXCEPT ![1] = x], row)
      BY <1>6, OtherBehind
<1>4. Stripped(rows) = [rows EXCEPT ![1] = x]
      BY <1>1, Zenon DEF Stripped, WithFirstField
<1>5. Stripped(Append(rows, row)) = [Append(rows, row) EXCEPT ![1] = x]
      BY <1>1, <1>2, Zenon DEF Stripped, WithFirstField
<1>   QED  BY <1>3, <1>4, <1>5

LEMMA StrippedOne ==
    ASSUME NEW row \in CsvRow
    PROVE  Stripped(Append(<<>>, row)) = <<[row EXCEPT ![1] = strip_utf8_bom(row[1])]>>
<1>1. PICK x : x = [row EXCEPT ![1] = strip_utf8_bom(row[1])]
      OBVIOUS
<1>2. Append(<<>>, row)[1] = row /\ [Append(<<>>, row) EXCEPT ![1] = x] = <<x>>
      OBVIOUS
<1>3. Stripped(Append(<<>>, row)) = [Append(<<>>, row) EXCEPT ![1] = x]
      BY <1>1, <1>2, Zenon DEF Stripped, WithFirstField
<1>   QED  BY <1>1, <1>2, <1>3

LEMMA StrippedIs ==
    ASSUME NEW rows \in Seq(CsvRow), Len(rows) > 0, Len(rows[1]) > 0
    PROVE  /\ Stripped(rows) \in Seq(CsvRow) /\ Len(Stripped(rows)) = Len(rows)
           /\ Stripped(rows)[1] \in CsvRow /\ Len(Stripped(rows)[1]) = Len(rows[1])
           /\ Stripped(rows)[1] = [rows[1] EXCEPT ![1] = strip_utf8_bom(rows[1][1])]
           /\ \A n \in 1..Len(rows) : n > 1 => Stripped(rows)[n] = rows[n]
<1>1. PICK v : v = strip_utf8_bom(rows[1][1])
      OBVIOUS
<1>2. rows[1][1] \in CsvText
      BY SameFirstField
<1>3. v \in CsvText
      BY <1>1, <1>2, StripIs
<1>4. Stripped(rows) = WithFirstField(rows, v)
      BY <1>1 DEF Stripped
<1>5. WithFirstField(rows, v)[1] = [rows[1] EXCEPT ![1] = v]
  <2>1. PICK x : x = [rows[1] EXCEPT ![1] = v]
        OBVIOUS
  <2>2. [rows EXCEPT ![1] = x][1] = x
        OBVIOUS
  <2>   QED  BY <2>1, <2>2 DEF WithFirstField
<1>   QED  BY <1>1, <1>3, <1>4, <1>5, FirstFieldOf

-----------------------------------------------------------------------------
\* What is in the file, so far, is what was read.

CsvTyped ==
    /\ csv \in CsvText /\ fields \in CsvRow /\ header \in CsvRow /\ data \in Seq(CsvRow)
    /\ get \in Nat \ {0} /\ loading \in {"header", "records", "loaded", "failed"}
    /\ fields # <<>> \/ loading = "header" => get <= Len(csv) + 1

\* The file begins with these rows, and with the fields of the present record.
SoFar(rows, quoted, ends, q) ==
    /\ WrittenAs(rows, quoted, ends)
    /\ q \in Seq(BOOLEAN) /\ Len(q) = Len(fields)
    /\ \A k \in 1..Len(fields) : q[k] \/ Plain(fields[k])
    /\ HasAt(csv, 1, TableText(rows, quoted, ends) \o Open(fields, q))
    /\ \/ /\ get = 1 + Len(TableText(rows, quoted, ends) \o Open(fields, q))
          /\ \A n \in 1..Len(rows) : ends[n] # <<>>
       \/ get > Len(csv) /\ fields = <<>> /\ Len(TableText(rows, quoted, ends)) = Len(csv)
    /\ \/ loading = "header" /\ rows = <<>> /\ header = <<>> /\ data = <<>>
       \/ /\ loading \in {"records", "loaded"}
          /\ Len(rows) > 0 /\ <<header>> \o data = Stripped(rows)
    /\ loading = "loaded" => get > Len(csv) /\ fields = <<>>

FileSoFar ==
    csv # <<>> /\ loading # "failed" => \E rows, quoted, ends, q : SoFar(rows, quoted, ends, q)

LEMMA TextSoFar ==
    ASSUME CsvTyped, NEW rows, NEW quoted, NEW ends, NEW q, SoFar(rows, quoted, ends, q)
    PROVE  /\ TableText(rows, quoted, ends) \in CsvText /\ Open(fields, q) \in CsvText
           /\ rows \in Seq(CsvRow) /\ quoted \in Seq(Seq(BOOLEAN)) /\ ends \in Seq(CsvText)
           /\ Len(quoted) = Len(rows) /\ Len(ends) = Len(rows) /\ Len(rows) \in Nat
           /\ \A n \in 1..Len(rows) : IsEnd(ends[n])
<1>1. WrittenAs(rows, quoted, ends)
      BY Zenon DEF SoFar
<1>2. /\ rows \in Seq(CsvRow) /\ quoted \in Seq(Seq(BOOLEAN)) /\ ends \in Seq(CsvText)
      /\ Len(quoted) = Len(rows) /\ Len(ends) = Len(rows)
      BY <1>1, Zenon DEF WrittenAs
<1>3. Len(rows) \in Nat /\ \A n \in 1..Len(rows) : IsEnd(ends[n])
      BY <1>1, WrittenIs
<1>4. TableText(rows, quoted, ends) \in CsvText
      BY <1>2, <1>3, RowTextsAre
<1>5. Open(fields, q) \in CsvText
      BY OpenIs DEF CsvTyped
<1>   QED  BY <1>2, <1>3, <1>4, <1>5

\* The next field is in the file behind them.
LEMMA FieldFound ==
    ASSUME CsvTyped, csv # <<>>, NEW rows, NEW quoted, NEW ends, NEW q,
           SoFar(rows, quoted, ends, q), IsReading, parse_field(get).ok
    PROVE  \E v \in CsvText, b \in BOOLEAN :
              LET text == (TableText(rows, quoted, ends) \o Open(fields, q)) \o FieldText(v, b)
              IN  /\ b \/ Plain(v)
                  /\ text \in CsvText /\ HasAt(csv, 1, text)
                  /\ parse_field(get) = Field(v, 1 + Len(text)) /\ 1 + Len(text) \in 1..Len(csv) + 1
                  /\ \A n \in 1..Len(rows) : ends[n] # <<>>
                  /\ get = 1 + Len(TableText(rows, quoted, ends) \o Open(fields, q))
                  /\ fields = <<>> => get <= Len(csv)
<1>1. PICK table, open, before : table = TableText(rows, quoted, ends) /\ open = Open(fields, q)
                                 /\ before = table \o open
      OBVIOUS
<1>2. table \in CsvText /\ open \in CsvText
      BY <1>1, TextSoFar
<1>3. before \in CsvText /\ Len(before) \in Nat /\ Len(csv) \in Nat /\ csv \in CsvText
      /\ Len(before) = Len(table) + Len(open) /\ Len(table) \in Nat /\ Len(open) \in Nat
      BY <1>1, <1>2, Joined, TextIs DEF CsvTyped
<1>4. HasAt(csv, 1, before)
      BY <1>1, Zenon DEF SoFar
<1>5. /\ \/ get = 1 + Len(before) /\ \A n \in 1..Len(rows) : ends[n] # <<>>
         \/ get > Len(csv) /\ fields = <<>> /\ Len(table) = Len(csv)
      BY <1>1, Zenon DEF SoFar
<1>6. CASE fields # <<>> \/ get <= Len(csv)
  <2>1. get = 1 + Len(before) /\ \A n \in 1..Len(rows) : ends[n] # <<>>
    <3>1. get \in Nat
          BY DEF CsvTyped
    <3>   QED  BY <1>3, <1>5, <1>6, <3>1
  <2>2. get \in 1..Len(csv) + 1
        BY <1>3, <1>4, <2>1 DEF HasAt
  <2>3. PICK v \in CsvText, b \in BOOLEAN :
            /\ b \/ Plain(v)
            /\ HasAt(csv, get, FieldText(v, b))
            /\ parse_field(get) = Field(v, get + Len(FieldText(v, b)))
        BY <1>3, <2>2, FieldIsWritten
  <2>4. PICK f, text : f = FieldText(v, b) /\ text = before \o f
        OBVIOUS
  <2>5. f \in CsvText /\ text \in CsvText /\ Len(text) = Len(before) + Len(f) /\ Len(f) \in Nat
        BY <1>3, <2>4, FieldTextType, Joined
  <2>6. HasAt(csv, 1, text)
    <3>1. HasAt(csv, 1 + Len(before), f)
          BY <2>1, <2>3, <2>4
    <3>2. csv \in Seq(CsvChar) /\ before \in Seq(CsvChar) /\ f \in Seq(CsvChar) /\ 1 \in Nat \ {0}
          BY <1>3, <2>5, TextIs
    <3>   QED  BY <1>4, <2>4, <3>1, <3>2, HasBoth
  <2>7. get + Len(f) = 1 + Len(text) /\ 1 + Len(text) \in 1..Len(csv) + 1
        BY <1>3, <2>1, <2>5, <2>6 DEF HasAt
  <2>   QED  BY <1>1, <1>6, <2>1, <2>3, <2>4, <2>5, <2>6, <2>7
<1>7. CASE ~(fields # <<>> \/ get <= Len(csv))
  <2>1. loading = "header"
        BY <1>7 DEF IsReading
  <2>2. rows = <<>>
        BY <2>1 DEF SoFar
  <2>3. Len(table) = 0
    <3>1. table = FlattenSeq(RowTexts(<<>>, quoted, ends))
          BY <1>1, <2>2, Zenon DEF TableText, RowTexts
    <3>2. RowTexts(<<>>, quoted, ends) = <<>>
          BY DEF RowTexts
    <3>3. FlattenSeq(<<>>) = <<>>
          BY DEF FlattenSeq
    <3>4. Len(<<>>) = 0
          OBVIOUS
    <3>   QED  BY <3>1, <3>2, <3>3, <3>4, Zenon
  <2>4. Len(open) = 0
    <3>1. fields = <<>>
          BY <1>7
    <3>2. OpenCells(<<>>, q) = <<>>
          BY DEF OpenCells
    <3>3. FlattenSeq(<<>>) = <<>>
          BY DEF FlattenSeq
    <3>4. Len(<<>>) = 0
          OBVIOUS
    <3>   QED  BY <1>1, <3>1, <3>2, <3>3, <3>4, Zenon DEF Open
  <2>5. get \in Nat
        BY DEF CsvTyped
  <2>6. Len(csv) = 0
        BY <1>3, <1>5, <1>7, <2>3, <2>4, <2>5
  <2>   QED  BY <1>3, <2>6, EmptyIs DEF CsvText
<1>   QED  BY <1>6, <1>7

LEMMA TypedInitially == CsvInit => CsvTyped
<1>   SUFFICES ASSUME CsvInit PROVE CsvTyped
      OBVIOUS
<1>1. csv \in CsvText
      BY CsvAssumption DEF CsvInit, CsvText
<1>2. <<>> \in CsvRow /\ <<>> \in Seq(CsvRow)
      BY DEF CsvRow
<1>3. Len(csv) \in Nat
      BY <1>1, TextIs
<1>   QED  BY <1>1, <1>2, <1>3 DEF CsvInit, CsvTyped

\* Nothing is written as nothing.
LEMMA NothingWritten ==
    /\ WrittenAs(<<>>, <<>>, <<>>)
    /\ TableText(<<>>, <<>>, <<>>) = <<>>
    /\ Open(<<>>, <<>>) = <<>>
<1>1. <<>> \in Seq(CsvRow) /\ <<>> \in Seq(Seq(BOOLEAN)) /\ <<>> \in Seq(CsvText) /\ Len(<<>>) = 0
      OBVIOUS
<1>2. WrittenAs(<<>>, <<>>, <<>>)
      BY <1>1 DEF WrittenAs
<1>3. FlattenSeq(<<>>) = <<>>
      BY DEF FlattenSeq
<1>4. RowTexts(<<>>, <<>>, <<>>) = <<>> /\ OpenCells(<<>>, <<>>) = <<>>
      BY DEF RowTexts, OpenCells
<1>5. TableText(<<>>, <<>>, <<>>) = FlattenSeq(RowTexts(<<>>, <<>>, <<>>))
      BY Zenon DEF TableText, RowTexts
<1>   QED  BY <1>2, <1>3, <1>4, <1>5, Zenon DEF Open

LEMMA SoFarInitially == CsvInit => FileSoFar
<1>   SUFFICES ASSUME CsvInit PROVE SoFar(<<>>, <<>>, <<>>, <<>>)
      BY Zenon DEF FileSoFar
<1>1. csv \in CsvText /\ get = 1 /\ fields = <<>> /\ header = <<>> /\ data = <<>> /\ loading = "header"
      BY TypedInitially DEF CsvInit, CsvTyped
<1>2. PICK e : e = <<>>
      OBVIOUS
<1>3. e \o e = e /\ Len(e) = 0 /\ e \in Seq(BOOLEAN) /\ 1 \in Nat /\ Len(csv) \in Nat
      BY <1>1, <1>2, TextIs
<1>4. HasAt(csv, 1, e)
      BY <1>2, <1>3, HasEmpty
<1>6. WrittenAs(e, e, e) /\ TableText(e, e, e) = e /\ Open(e, e) = e
      BY <1>2, NothingWritten
<1>7. TableText(e, e, e) \o Open(fields, e) = e
      BY <1>1, <1>2, <1>3, <1>6
<1>5. SoFar(e, e, e, e)
  <2>1. Len(fields) = 0 /\ \A k \in 1..0 : FALSE
        BY <1>1, <1>2, <1>3
  <2>2. get = 1 + Len(e) /\ \A n \in 1..Len(e) : e[n] # <<>>
        BY <1>1, <1>3
  <2>   QED  BY <1>1, <1>2, <1>3, <1>4, <1>6, <1>7, <2>1, <2>2 DEF SoFar
<1>   QED  BY <1>2, <1>5

LEMMA FieldReadType ==
    ASSUME CsvTyped, IsReading
    PROVE  /\ get \in 1..Len(csv) + 1
           /\ parse_field(get).ok => /\ parse_field(get).value \in CsvText
                                     /\ parse_field(get).next \in 1..Len(csv) + 1
<1>1. csv \in CsvText /\ Len(csv) \in Nat /\ get \in Nat \ {0}
      BY TextIs DEF CsvTyped
<1>2. get \in 1..Len(csv) + 1
      BY <1>1 DEF CsvTyped, IsReading
<1>3. ASSUME parse_field(get).ok
      PROVE  /\ parse_field(get).value \in CsvText
             /\ parse_field(get).next \in 1..Len(csv) + 1
  <2>1. PICK v \in CsvText, b \in BOOLEAN :
            /\ HasAt(csv, get, FieldText(v, b))
            /\ parse_field(get) = Field(v, get + Len(FieldText(v, b)))
        BY <1>1, <1>2, <1>3, FieldIsWritten
  <2>2. Len(FieldText(v, b)) \in Nat
        BY FieldTextType, TextIs
  <2>3. get + Len(FieldText(v, b)) \in 1..Len(csv) + 1
        BY <1>1, <2>1, <2>2 DEF HasAt
  <2>   QED  BY <2>1, <2>3, FieldIs
<1>   QED  BY <1>2, <1>3

LEMMA AppendedRow ==
    ASSUME NEW row \in CsvRow, NEW v \in CsvText
    PROVE  Append(row, v) \in CsvRow /\ Append(row, v) # <<>> /\ Len(Append(row, v)) = Len(row) + 1
           /\ Len(row) \in Nat
BY DEF CsvRow

LEMMA EatenIs ==
    ASSUME NEW n \in Nat
    PROVE  eat_newline(n) \in Nat
BY DEF eat_newline

LEMMA TypedPreserved == CsvTyped /\ [CsvNext]_csvVars => CsvTyped'
<1>   SUFFICES ASSUME CsvTyped, [CsvNext]_csvVars PROVE CsvTyped'
      OBVIOUS
<1>   DEFINE field == parse_field(get)
             row == Append(fields, field.value)
<1>1. /\ csv \in CsvText /\ fields \in CsvRow /\ header \in CsvRow /\ data \in Seq(CsvRow)
      /\ get \in Nat \ {0} /\ Len(csv) \in Nat
      BY TextIs DEF CsvTyped
<1>2. ASSUME IsReading, field.ok
      PROVE  field.next \in 1..Len(csv) + 1 /\ row \in CsvRow /\ row # <<>>
      BY <1>1, <1>2, FieldReadType, AppendedRow
<1>3. <<>> \in CsvRow
      BY DEF CsvRow
<1>   HIDE DEF field, row
<1>4. CASE NextField
  <2>1. /\ IsReading /\ field.ok /\ ~end_of_record(field.next)
        /\ fields' = row /\ get' = field.next + 1
        /\ loading' = loading /\ csv' = csv /\ header' = header /\ data' = data
        BY <1>4 DEF NextField, IsSeparated, field, row
  <2>2. field.next <= Len(csv) /\ field.next \in Nat
        BY <1>2, <2>1 DEF end_of_record
  <2>   QED  BY <1>1, <1>2, <2>1, <2>2 DEF CsvTyped
<1>5. ASSUME LastField(field)
      PROVE  IsReading /\ field.ok /\ row \in CsvRow /\ row # <<>> /\ get' \in Nat \ {0} /\ fields' = <<>>
  <2>1. IsReading /\ field.ok /\ eat_newline(field.next) # 0 /\ get' = eat_newline(field.next) /\ fields' = <<>>
        BY <1>5 DEF LastField, IsLast
  <2>3. field.next \in Nat
        BY <1>1, <1>2, <2>1
  <2>2. eat_newline(field.next) \in Nat
        BY <2>3, EatenIs
  <2>   QED  BY <1>2, <2>1, <2>2
<1>6. CASE ReadHeader
  <2>1. /\ LastField(field) /\ header' = [row EXCEPT ![1] = strip_utf8_bom(@)]
        /\ loading' = "records" /\ csv' = csv /\ data' = data
        BY <1>6 DEF ReadHeader, field, row
  <2>2. Len(row) > 0 /\ row[1] \in CsvText
        BY <1>5, <2>1 DEF CsvRow
  <2>3. strip_utf8_bom(row[1]) \in CsvText
        BY <2>2, StripIs
  <2>4. header' \in CsvRow
    <3>1. row \in Seq(CsvText)
          BY <1>5, <2>1 DEF CsvRow
    <3>2. [row EXCEPT ![1] = strip_utf8_bom(row[1])] \in Seq(CsvText)
          BY <2>2, <2>3, <3>1, OtherFirst
    <3>   QED  BY <2>1, <3>2 DEF CsvRow
  <2>   QED  BY <1>1, <1>3, <1>5, <2>1, <2>4 DEF CsvTyped
<1>7. CASE ReadRecord
  <2>1. /\ LastField(field) /\ data' = Append(data, row) /\ loading = "records"
        /\ loading' = loading /\ csv' = csv /\ header' = header
        BY <1>7 DEF ReadRecord, field, row
  <2>2. data' \in Seq(CsvRow)
        BY <1>1, <1>5, <2>1
  <2>   QED  BY <1>1, <1>3, <1>5, <2>1, <2>2 DEF CsvTyped
<1>8. CASE FormatError
      BY <1>1, <1>8 DEF FormatError, CsvTyped
<1>9. CASE EndOfRecords
      BY <1>1, <1>9 DEF EndOfRecords, CsvTyped
<1>10. CASE UNCHANGED csvVars
      BY <1>1, <1>10 DEF csvVars, CsvTyped
<1>   QED  BY <1>4, <1>6, <1>7, <1>8, <1>9, <1>10 DEF CsvNext

LEMMA NextFieldKeeps ==
    CsvTyped /\ FileSoFar /\ NextField => FileSoFar'
<1>   SUFFICES ASSUME CsvTyped, FileSoFar, NextField, csv # <<>> PROVE FileSoFar'
      BY DEF NextField, FileSoFar
<1>1. PICK field : field = parse_field(get)
      OBVIOUS
<1>2. /\ IsReading /\ field.ok /\ ~end_of_record(field.next) /\ csv[field.next] = "separator"
      /\ fields' = Append(fields, field.value) /\ get' = field.next + 1
      /\ loading' = loading /\ csv' = csv /\ header' = header /\ data' = data
      BY <1>1 DEF NextField, IsSeparated
<1>3. PICK rows, quoted, ends, q : SoFar(rows, quoted, ends, q)
      BY <1>2 DEF FileSoFar, IsReading
<1>4. PICK v \in CsvText, b \in BOOLEAN :
          LET text == (TableText(rows, quoted, ends) \o Open(fields, q)) \o FieldText(v, b)
          IN  /\ b \/ Plain(v)
              /\ text \in CsvText /\ HasAt(csv, 1, text)
              /\ parse_field(get) = Field(v, 1 + Len(text)) /\ 1 + Len(text) \in 1..Len(csv) + 1
              /\ \A n \in 1..Len(rows) : ends[n] # <<>>
      BY <1>1, <1>2, <1>3, FieldFound
<1>5. PICK table, open, f, text, sep : /\ table = TableText(rows, quoted, ends) /\ open = Open(fields, q)
                                     /\ f = FieldText(v, b) /\ text = (table \o open) \o f
                                     /\ sep = <<"separator">>
      OBVIOUS
<1>6. /\ text \in CsvText /\ HasAt(csv, 1, text) /\ field = Field(v, 1 + Len(text))
      /\ 1 + Len(text) \in 1..Len(csv) + 1 /\ (b \/ Plain(v))
      /\ \A n \in 1..Len(rows) : ends[n] # <<>>
      BY <1>1, <1>4, <1>5
<1>7. table \in CsvText /\ open \in CsvText /\ f \in CsvText /\ sep \in CsvText
      BY <1>3, <1>5, TextSoFar, FieldTextType, EndIs
<1>8. PICK row2, q2, open2 : row2 = Append(fields, v) /\ q2 = Append(q, b) /\ open2 = Open(row2, q2)
      OBVIOUS
<1>9. /\ q \in Seq(BOOLEAN) /\ Len(q) = Len(fields) /\ fields \in CsvRow
      /\ \A k \in 1..Len(fields) : q[k] \/ Plain(fields[k])
      BY <1>3 DEF SoFar, CsvTyped
<1>10. IsEnd(<<>>)
       BY DEF IsEnd
<1>11. /\ row2 \in CsvRow /\ Len(row2) = Len(fields) + 1 /\ Len(fields) \in Nat
       /\ \A k \in 1..Len(fields) : row2[k] = fields[k] /\ q2[k] = q[k]
       /\ row2[Len(fields) + 1] = v /\ q2[Len(fields) + 1] = b
       /\ q2 \in Seq(BOOLEAN) /\ Len(q2) = Len(fields) + 1
       /\ open2 = open \o (f \o sep)
  <2>1. PICK end : end = <<>>
        OBVIOUS
  <2>2. IsEnd(end) /\ fields \in CsvRow /\ q \in Seq(BOOLEAN) /\ Len(q) = Len(fields)
        BY <1>9, <1>10, <2>1
  <2>3. /\ row2 \in CsvRow /\ Len(row2) = Len(fields) + 1 /\ Len(fields) \in Nat
        /\ \A k \in 1..Len(fields) : row2[k] = fields[k] /\ q2[k] = q[k]
        /\ row2[Len(fields) + 1] = v /\ q2[Len(fields) + 1] = b
        /\ q2 \in Seq(BOOLEAN) /\ Len(q2) = Len(fields) + 1
        BY <1>8, <2>2, FieldBehind
  <2>4. open2 = Open(fields, q) \o (FieldText(v, b) \o <<"separator">>)
        BY <1>8, <2>2, FieldBehind
  <2>   QED  BY <1>5, <2>3, <2>4
<1>12. \A k \in 1..Len(row2) : q2[k] \/ Plain(row2[k])
  <2>1. \A k \in 1..Len(row2) : k \in 1..Len(fields) \/ k = Len(fields) + 1
        BY <1>11
  <2>   QED  BY <1>6, <1>9, <1>11, <2>1
<1>13. table \o open2 = text \o sep
  <2>1. PICK to, fs : to = table \o open /\ fs = f \o sep
        OBVIOUS
  <2>2. to \in CsvText /\ fs \in CsvText
        BY <1>7, <2>1, Joined
  <2>3. (to \o f) \o sep = to \o (f \o sep)
    <3>1. to \in CsvText /\ f \in CsvText /\ sep \in CsvText
          BY <1>7, <2>2
    <3>   QED  BY <3>1, JoinedThree
  <2>4. (table \o open) \o fs = table \o (open \o fs)
    <3>1. table \in CsvText /\ open \in CsvText /\ fs \in CsvText
          BY <1>7, <2>2
    <3>   QED  BY <3>1, JoinedThree
  <2>5. text = to \o f /\ open2 = open \o fs
        BY <1>5, <1>11, <2>1
  <2>   QED  BY <2>1, <2>3, <2>4, <2>5, Zenon
<1>14. /\ fields' = row2 /\ get' = 1 + Len(text) + 1 /\ csv \in CsvText /\ csv \in Seq(CsvChar)
       /\ Len(csv) \in Nat
       BY <1>2, <1>6, <1>8, FieldIs, TextIs DEF CsvTyped
<1>15. Len(sep) = 1 /\ text \o sep \in CsvText /\ Len(text \o sep) = Len(text) + 1 /\ Len(text) \in Nat
  <2>1. Len(sep) = 1
        BY <1>5
  <2>2. text \in CsvText /\ sep \in CsvText
        BY <1>6, <1>7
  <2>3. text \o sep \in CsvText /\ Len(text \o sep) = Len(text) + Len(sep) /\ Len(text) \in Nat
        BY <2>2, Joined
  <2>   QED  BY <2>1, <2>3, Zenon
<1>16. HasAt(csv, 1, text \o sep)
  <2>1. field.next = 1 + Len(text)
        BY <1>6, FieldIs
  <2>2. 1 + Len(text) <= Len(csv) /\ csv[1 + Len(text)] = "separator" /\ 1 + Len(text) \in Nat
        BY <1>2, <1>15, <2>1 DEF end_of_record
  <2>3. HasAt(csv, 1 + Len(text), sep)
        BY <1>5, <2>2, HasOne
  <2>4. text \in Seq(CsvChar) /\ sep \in Seq(CsvChar) /\ 1 \in Nat \ {0}
        BY <1>6, <1>7, TextIs
  <2>   QED  BY <1>6, <1>14, <2>3, <2>4, HasBoth
<1>17. WrittenAs(rows, quoted, ends)
       /\ (\/ loading = "header" /\ rows = <<>> /\ header = <<>> /\ data = <<>>
           \/ /\ loading \in {"records", "loaded"}
              /\ Len(rows) > 0 /\ <<header>> \o data = Stripped(rows))
       BY <1>3 DEF SoFar
<1>18. loading # "loaded"
       BY <1>2 DEF IsReading
<1>19. SoFar(rows, quoted, ends, q2)'
  <2>1. TableText(rows, quoted, ends) \o Open(fields', q2) = text \o sep
        BY <1>5, <1>8, <1>13, <1>14
  <2>2. get' = 1 + Len(text \o sep)
        BY <1>14, <1>15
  <2>   QED  BY <1>2, <1>6, <1>11, <1>12, <1>14, <1>16, <1>17, <1>18, <2>1, <2>2 DEF SoFar
<1>   QED  BY <1>19 DEF FileSoFar

\* A row behind others is written as they are.
LEMMA RowWritten ==
    ASSUME NEW rows, NEW quoted, NEW ends, WrittenAs(rows, quoted, ends),
           \A n \in 1..Len(rows) : ends[n] # <<>>,
           NEW row \in CsvRow, NEW q \in Seq(BOOLEAN), NEW end, IsEnd(end),
           Len(row) > 0, Len(q) = Len(row), \A k \in 1..Len(row) : q[k] \/ Plain(row[k]),
           Len(rows) > 0 => Len(row) = Len(rows[1]),
           end = <<>> => RowText(row, q, <<>>) # <<>>
    PROVE  WrittenAs(Append(rows, row), Append(quoted, q), Append(ends, end))
<1>1. PICK rows2, quoted2, ends2, m :
          /\ rows2 = Append(rows, row) /\ quoted2 = Append(quoted, q) /\ ends2 = Append(ends, end)
          /\ m = Len(rows)
      OBVIOUS
<1>2. /\ rows \in Seq(CsvRow) /\ quoted \in Seq(Seq(BOOLEAN)) /\ ends \in Seq(CsvText)
      /\ Len(quoted) = m /\ Len(ends) = m /\ m \in Nat /\ end \in CsvText
      BY <1>1, WrittenIs, EndIs DEF WrittenAs
<1>3. /\ rows2 \in Seq(CsvRow) /\ Len(rows2) = m + 1 /\ \A n \in 1..m : rows2[n] = rows[n]
      /\ rows2[m + 1] = row
      BY <1>1, <1>2, Appended
<1>4. /\ quoted2 \in Seq(Seq(BOOLEAN)) /\ Len(quoted2) = m + 1 /\ \A n \in 1..m : quoted2[n] = quoted[n]
      /\ quoted2[m + 1] = q
  <2>1. PICK B : B = Seq(BOOLEAN)
        OBVIOUS
  <2>2. quoted \in Seq(B) /\ q \in B
        BY <1>2, <2>1
  <2>3. /\ quoted2 \in Seq(B) /\ Len(quoted2) = Len(quoted) + 1
        /\ \A n \in 1..Len(quoted) : quoted2[n] = quoted[n]
        /\ quoted2[Len(quoted) + 1] = q
        BY <1>1, <2>2, Appended
  <2>   QED  BY <1>2, <2>1, <2>3
<1>5. /\ ends2 \in Seq(CsvText) /\ Len(ends2) = m + 1 /\ \A n \in 1..m : ends2[n] = ends[n]
      /\ ends2[m + 1] = end
  <2>1. /\ ends2 \in Seq(CsvText) /\ Len(ends2) = Len(ends) + 1
        /\ \A n \in 1..Len(ends) : ends2[n] = ends[n]
        /\ ends2[Len(ends) + 1] = end
        BY <1>1, <1>2, Appended
  <2>   QED  BY <1>2, <2>1
<1>6. Len(rows2[1]) = Len(row)
  <2>1. CASE m = 0
    <3>1. rows2[1] = row
          BY <1>3, <2>1
    <3>   QED  BY <3>1
  <2>2. CASE m > 0
    <3>1. rows2[1] = rows[1] /\ Len(row) = Len(rows[1])
          BY <1>1, <1>2, <1>3, <2>2
    <3>   QED  BY <3>1
  <2>   QED  BY <1>2, <2>1, <2>2
<1>7. ASSUME NEW n \in 1..m + 1
      PROVE  /\ Len(rows2[n]) = Len(rows2[1]) /\ Len(rows2[n]) > 0
             /\ Len(quoted2[n]) = Len(rows2[n])
             /\ \A k \in 1..Len(rows2[n]) : quoted2[n][k] \/ Plain(rows2[n][k])
             /\ IsEnd(ends2[n])
             /\ ends2[n] = <<>> => n = m + 1 /\ RowText(rows2[n], quoted2[n], <<>>) # <<>>
  <2>1. CASE n \in 1..m
    <3>4. rows2[n] = rows[n] /\ quoted2[n] = quoted[n] /\ ends2[n] = ends[n]
          BY <1>3, <1>4, <1>5, <2>1, Zenon
    <3>5. m > 0
          BY <1>2, <2>1
    <3>1. rows2[n] = rows[n] /\ quoted2[n] = quoted[n] /\ ends2[n] = ends[n] /\ m > 0
          BY <3>4, <3>5
    <3>2. /\ Len(rows[n]) = Len(rows[1]) /\ Len(rows[n]) > 0
          /\ Len(quoted[n]) = Len(rows[n])
          /\ \A k \in 1..Len(rows[n]) : quoted[n][k] \/ Plain(rows[n][k])
          /\ IsEnd(ends[n]) /\ ends[n] # <<>>
          BY <1>1, <2>1 DEF WrittenAs
    <3>3. Len(row) = Len(rows[1])
          BY <1>1, <3>1
    <3>   QED  BY <1>6, <3>1, <3>2, <3>3
  <2>2. CASE n = m + 1
    <3>1. rows2[n] = row /\ quoted2[n] = q /\ ends2[n] = end
          BY <1>3, <1>4, <1>5, <2>2
    <3>   QED  BY <1>6, <2>2, <3>1
  <2>   QED  BY <1>2, <2>1, <2>2
<1>8. WrittenAs(rows2, quoted2, ends2)
      BY <1>3, <1>4, <1>5, <1>7, Zenon DEF WrittenAs
<1>   QED  BY <1>1, <1>8

\* Fields with separators are something.
LEMMA OpenIsSomething ==
    ASSUME NEW row \in CsvRow, NEW q, Len(row) > 0
    PROVE  Len(Open(row, q)) > 0
<1>1. PICK open : open = OpenCells(row, q)
      OBVIOUS
<1>2. /\ open \in Seq(CsvText) /\ Len(open) = Len(row) /\ Len(row) \in Nat
      /\ \A k \in 1..Len(row) : open[k] = FieldText(row[k], q[k]) \o <<"separator">>
      /\ Open(row, q) \in CsvText
      BY <1>1, OpenIs
<1>3. PICK text : text = Open(row, q)
      OBVIOUS
<1>4. text = FlattenSeq(open) /\ text \in CsvText
      BY <1>1, <1>2, <1>3 DEF Open
<1>5. 1 \in 1..Len(row) /\ row[1] \in CsvText
      BY <1>2 DEF CsvRow
<1>6. Len(open[1]) > 0
  <2>1. PICK f, s : f = FieldText(row[1], q[1]) /\ s = <<"separator">>
        OBVIOUS
  <2>2. f \in CsvText /\ s \in CsvText /\ Len(s) = 1
        BY <1>5, <2>1, FieldTextType, EndIs
  <2>3. Len(f \o s) = Len(f) + Len(s) /\ Len(f) \in Nat
        BY <2>2, Joined
  <2>4. open[1] = f \o s
        BY <1>2, <1>5, <2>1
  <2>   QED  BY <2>2, <2>3, <2>4
<1>7. HasAt(text, 1, FlattenSeq(open)) /\ 0 \in 0..Len(open) - 1 /\ 1 \in Nat \ {0}
      BY <1>2, <1>4, <1>5, HasItself
<1>8. 1 + LengthUpTo(open, 0) \in Nat \ {0} /\ HasAt(text, 1 + LengthUpTo(open, 0), open[0 + 1])
      BY <1>2, <1>4, <1>7, TextParts
<1>9. Len(text) \in Nat /\ Len(open[1]) \in Nat /\ open[0 + 1] = open[1]
      BY <1>2, <1>4, <1>5, TextIs
<1>10. Len(text) > 0
       BY <1>6, <1>8, <1>9 DEF HasAt
<1>   QED  BY <1>3, <1>10

\* The file begins with these rows, and reading goes on at a place.
RowsSoFar(rows, quoted, ends, at) ==
    /\ WrittenAs(rows, quoted, ends)
    /\ TableText(rows, quoted, ends) \in CsvText
    /\ HasAt(csv, 1, TableText(rows, quoted, ends))
    /\ \/ /\ at = 1 + Len(TableText(rows, quoted, ends))
          /\ \A n \in 1..Len(rows) : ends[n] # <<>>
       \/ at > Len(csv) /\ Len(TableText(rows, quoted, ends)) = Len(csv)

LEMMA RecordFound ==
    ASSUME CsvTyped, csv # <<>>, NEW rows, NEW quoted, NEW ends, NEW q,
           SoFar(rows, quoted, ends, q), LastField(parse_field(get)),
           NEW row, row = Append(fields, parse_field(get).value),
           Len(rows) > 0 => Len(row) = Len(rows[1])
    PROVE  /\ row \in CsvRow /\ Len(row) > 0
           /\ \E quoted2, ends2 : RowsSoFar(Append(rows, row), quoted2, ends2, get')
<1>1. PICK field : field = parse_field(get)
      OBVIOUS
<1>2. /\ IsReading /\ field.ok /\ end_of_record(field.next) /\ eat_newline(field.next) # 0
      /\ get' = eat_newline(field.next)
      BY <1>1 DEF LastField, IsLast
<1>3. PICK v \in CsvText, b \in BOOLEAN :
          LET text == (TableText(rows, quoted, ends) \o Open(fields, q)) \o FieldText(v, b)
          IN  /\ b \/ Plain(v)
              /\ text \in CsvText /\ HasAt(csv, 1, text)
              /\ parse_field(get) = Field(v, 1 + Len(text)) /\ 1 + Len(text) \in 1..Len(csv) + 1
              /\ \A n \in 1..Len(rows) : ends[n] # <<>>
              /\ get = 1 + Len(TableText(rows, quoted, ends) \o Open(fields, q))
              /\ fields = <<>> => get <= Len(csv)
      BY <1>1, <1>2, FieldFound
<1>4. PICK table, open, before, f, text :
          /\ table = TableText(rows, quoted, ends) /\ open = Open(fields, q)
          /\ f = FieldText(v, b) /\ before = table \o open /\ text = before \o f
      OBVIOUS
<1>5. /\ text \in CsvText /\ HasAt(csv, 1, text) /\ field = Field(v, 1 + Len(text))
      /\ 1 + Len(text) \in 1..Len(csv) + 1 /\ (b \/ Plain(v))
      /\ \A n \in 1..Len(rows) : ends[n] # <<>>
      /\ get = 1 + Len(before) /\ (fields = <<>> => get <= Len(csv))
      BY <1>1, <1>3, <1>4
<1>6. table \in CsvText /\ open \in CsvText /\ f \in CsvText
      BY <1>4, TextSoFar, FieldTextType
<1>7. before \in CsvText /\ Len(before) = Len(table) + Len(open) /\ Len(text) = Len(before) + Len(f)
      /\ Len(before) \in Nat /\ Len(f) \in Nat /\ Len(text) \in Nat /\ Len(open) \in Nat
  <2>1. before \in CsvText /\ Len(before) = Len(table) + Len(open)
        BY <1>4, <1>6, Joined
  <2>2. Len(text) = Len(before) + Len(f)
        BY <1>4, <1>6, <2>1, Joined
  <2>3. Len(before) \in Nat /\ Len(f) \in Nat /\ Len(text) \in Nat /\ Len(open) \in Nat
        BY <1>5, <1>6, <2>1, TextIs
  <2>   QED  BY <2>1, <2>2, <2>3
<1>8. field.next = 1 + Len(text) /\ field.value = v
      BY <1>5, FieldIs
<1>9. csv \in CsvText /\ Len(csv) \in Nat /\ csv \in Seq(CsvChar) /\ fields \in CsvRow
      BY TextIs DEF CsvTyped
<1>10. PICK end : /\ IsEnd(end) /\ HasAt(csv, 1 + Len(text), end)
                  /\ end = <<>> => 1 + Len(text) = Len(csv) + 1 /\ get' = Len(csv) + 2
                  /\ end # <<>> => get' = 1 + Len(text) + Len(end)
       BY <1>2, <1>5, <1>8, <1>9, EndFound
<1>11. end \in CsvText /\ Len(end) \in Nat
       BY <1>10, EndIs, TextIs
<1>12. q \in Seq(BOOLEAN) /\ Len(q) = Len(fields) /\ \A k \in 1..Len(fields) : q[k] \/ Plain(fields[k])
       BY DEF SoFar
<1>13. PICK q2 : q2 = Append(q, b)
       OBVIOUS
<1>14. row = Append(fields, v)
       BY <1>1, <1>8
<1>15. /\ row \in CsvRow /\ Len(row) = Len(fields) + 1 /\ Len(fields) \in Nat
       /\ \A k \in 1..Len(fields) : row[k] = fields[k] /\ q2[k] = q[k]
       /\ row[Len(fields) + 1] = v /\ q2[Len(fields) + 1] = b
       /\ q2 \in Seq(BOOLEAN) /\ Len(q2) = Len(fields) + 1
       BY <1>9, <1>10, <1>12, <1>13, <1>14, FieldBehind
<1>16. ASSUME NEW e, IsEnd(e) PROVE RowText(row, q2, e) = open \o (f \o e)
  <2>1. RowText(Append(fields, v), Append(q, b), e) = Open(fields, q) \o (FieldText(v, b) \o e)
        BY <1>9, <1>12, <1>16, FieldBehind
  <2>   QED  BY <1>4, <1>13, <1>14, <2>1
<1>17. \A k \in 1..Len(row) : q2[k] \/ Plain(row[k])
  <2>1. \A k \in 1..Len(row) : k \in 1..Len(fields) \/ k = Len(fields) + 1
        BY <1>15
  <2>   QED  BY <1>5, <1>12, <1>15, <2>1
<1>18. ASSUME end = <<>> PROVE RowText(row, q2, <<>>) # <<>>
  <2>1. Len(open) + Len(f) > 0
    <3>1. Len(text) = Len(csv)
          BY <1>7, <1>9, <1>10, <1>18
    <3>2. CASE fields = <<>>
          BY <1>5, <1>7, <1>9, <3>1, <3>2
    <3>3. CASE fields # <<>>
      <4>1. Len(fields) > 0
            BY <1>9, <1>15, <3>3, EmptyIs DEF CsvRow
      <4>2. Len(open) > 0
            BY <1>4, <1>9, <4>1, OpenIsSomething
      <4>   QED  BY <1>7, <4>2
    <3>   QED  BY <3>2, <3>3
  <2>2. RowText(row, q2, <<>>) = open \o (f \o <<>>)
        BY <1>10, <1>16, <1>18
  <2>3. PICK fe : fe = f \o <<>>
        OBVIOUS
  <2>4. fe \in CsvText /\ Len(fe) = Len(f)
    <3>1. <<>> \in CsvText /\ Len(<<>>) = 0
          BY EndIs
    <3>2. fe \in CsvText /\ Len(fe) = Len(f) + Len(<<>>)
          BY <1>6, <2>3, <3>1, Joined
    <3>   QED  BY <1>7, <3>1, <3>2
  <2>5. Len(open \o fe) = Len(open) + Len(fe)
        BY <1>6, <2>4, Joined
  <2>   QED  BY <2>1, <2>2, <2>3, <2>4, <2>5
<1>19. PICK quoted2, ends2, rows2 : /\ quoted2 = Append(quoted, q2) /\ ends2 = Append(ends, end)
                                    /\ rows2 = Append(rows, row)
       OBVIOUS
<1>20. WrittenAs(rows, quoted, ends)
       BY DEF SoFar
<1>21. WrittenAs(rows2, quoted2, ends2)
  <2>1. Len(row) > 0 /\ Len(q2) = Len(row)
        BY <1>15
  <2>   QED  BY <1>5, <1>10, <1>15, <1>17, <1>18, <1>19, <1>20, <2>1, RowWritten
<1>22. PICK whole, last : whole = TableText(rows2, quoted2, ends2) /\ last = RowText(row, q2, end)
       OBVIOUS
<1>23. whole = table \o last
  <2>1. row \in CsvRow /\ q2 \in Seq(BOOLEAN) /\ IsEnd(end)
        BY <1>10, <1>15
  <2>2. TableText(Append(rows, row), Append(quoted, q2), Append(ends, end))
            = TableText(rows, quoted, ends) \o RowText(row, q2, end)
        BY <1>20, <2>1, RowBehind
  <2>   QED  BY <1>4, <1>19, <1>22, <2>2
<1>24. whole = text \o end
  <2>1. PICK fe : fe = f \o end
        OBVIOUS
  <2>2. fe \in CsvText /\ table \in CsvText /\ open \in CsvText /\ f \in CsvText /\ end \in CsvText
        /\ before \in CsvText
        BY <1>6, <1>7, <1>11, <2>1, Joined
  <2>3. (before \o f) \o end = before \o (f \o end)
    <3>1. before \in CsvText /\ f \in CsvText /\ end \in CsvText
          BY <2>2
    <3>   QED  BY <3>1, JoinedThree
  <2>4. (table \o open) \o fe = table \o (open \o fe)
    <3>1. table \in CsvText /\ open \in CsvText /\ fe \in CsvText
          BY <2>2
    <3>   QED  BY <3>1, JoinedThree
  <2>5. last = open \o fe
        BY <1>10, <1>16, <1>22, <2>1
  <2>   QED  BY <1>4, <1>23, <2>1, <2>3, <2>4, <2>5, Zenon
<1>25. whole \in CsvText /\ Len(whole) = Len(text) + Len(end)
       BY <1>5, <1>11, <1>24, Joined
<1>26. HasAt(csv, 1, whole)
  <2>1. text \in Seq(CsvChar) /\ end \in Seq(CsvChar) /\ 1 \in Nat \ {0}
        BY <1>5, <1>11, TextIs
  <2>   QED  BY <1>5, <1>9, <1>10, <1>24, <2>1, HasBoth
<1>27. \/ get' = 1 + Len(whole) /\ \A n \in 1..Len(rows2) : ends2[n] # <<>>
       \/ get' > Len(csv) /\ Len(whole) = Len(csv)
  <2>1. CASE end = <<>>
    <3>1. Len(end) = 0
          BY <2>1
    <3>   QED  BY <1>7, <1>9, <1>10, <1>25, <2>1, <3>1
  <2>2. CASE end # <<>>
    <3>1. get' = 1 + Len(whole)
          BY <1>7, <1>10, <1>11, <1>25, <2>2
    <3>2. Len(ends) = Len(rows) /\ Len(rows2) = Len(rows) + 1 /\ Len(rows) \in Nat
          /\ ends \in Seq(CsvText)
      <4>1. rows \in Seq(CsvRow) /\ ends \in Seq(CsvText) /\ Len(ends) = Len(rows)
            BY TextSoFar
      <4>   QED  BY <1>15, <1>19, <4>1, Appended
    <3>3. \A n \in 1..Len(rows2) : ends2[n] # <<>>
      <4>1. /\ \A n \in 1..Len(ends) : ends2[n] = ends[n]
            /\ ends2[Len(ends) + 1] = end
            /\ \A n \in 1..Len(ends) + 1 : n = Len(ends) + 1 \/ n \in 1..Len(ends)
            BY <1>11, <1>19, <3>2, Appended
      <4>   QED  BY <1>5, <2>2, <3>2, <4>1
    <3>   QED  BY <3>1, <3>3
  <2>   QED  BY <2>1, <2>2
<1>28. Len(row) > 0
       BY <1>15
<1>29. RowsSoFar(rows2, quoted2, ends2, get')
       BY <1>21, <1>22, <1>25, <1>26, <1>27, Zenon DEF RowsSoFar
<1>30. rows2 = Append(rows, row) /\ row \in CsvRow
       BY <1>15, <1>19
<1>   QED  BY <1>28, <1>29, <1>30, Zenon

\* A record that is read is in the file behind the others.
LEMMA RecordKeeps ==
    ASSUME CsvTyped, FileSoFar, csv # <<>>, ReadHeader \/ ReadRecord
    PROVE  FileSoFar'
<1>1. PICK field, row : field = parse_field(get) /\ row = Append(fields, field.value)
      OBVIOUS
<1>2. /\ LastField(field) /\ IsReading /\ fields' = <<>> /\ csv' = csv
      /\ \/ /\ loading = "header" /\ data' = data
            /\ header' = [row EXCEPT ![1] = strip_utf8_bom(row[1])]
         \/ /\ loading = "records" /\ Len(row) = Len(header)
            /\ data' = Append(data, row) /\ header' = header
      /\ loading' = "records"
      BY <1>1 DEF ReadHeader, ReadRecord, LastField, RowFits
<1>3. PICK rows, quoted, ends, q : SoFar(rows, quoted, ends, q)
      BY <1>2 DEF FileSoFar, IsReading
<1>4. \/ loading = "header" /\ rows = <<>> /\ header = <<>> /\ data = <<>>
      \/ /\ loading \in {"records", "loaded"}
         /\ Len(rows) > 0 /\ <<header>> \o data = Stripped(rows)
      BY <1>3, Zenon DEF SoFar
<1>5. WrittenAs(rows, quoted, ends) /\ rows \in Seq(CsvRow) /\ Len(rows) \in Nat
      BY <1>3, TextSoFar DEF SoFar
<1>6. header \in CsvRow /\ data \in Seq(CsvRow) /\ csv \in CsvText /\ Len(csv) \in Nat
      BY TextIs DEF CsvTyped
<1>7. ASSUME Len(rows) > 0
      PROVE  /\ loading = "records" /\ <<header>> \o data = Stripped(rows) /\ Len(rows[1]) > 0
             /\ Len(header) = Len(rows[1])
  <2>1. rows # <<>>
        BY <1>7
  <2>2. loading = "records" /\ <<header>> \o data = Stripped(rows)
        BY <1>2, <1>4, <2>1
  <2>3. Len(rows[1]) \in Nat \ {0}
        BY <1>5, <1>7, WrittenIs
  <2>4. Len(Stripped(rows)[1]) = Len(rows[1])
    <3>1. rows \in Seq(CsvRow) /\ Len(rows) > 0 /\ Len(rows[1]) > 0
          BY <1>5, <1>7, <2>3
    <3>   QED  BY <3>1, StrippedIs
  <2>5. (<<header>> \o data)[1] = header
        BY <1>6
  <2>   QED  BY <2>2, <2>3, <2>4, <2>5
<1>8. ASSUME Len(rows) > 0 PROVE Len(row) = Len(rows[1])
      BY <1>2, <1>7, <1>8
<1>9. PICK rows2 : rows2 = Append(rows, row)
      OBVIOUS
<1>10. row \in CsvRow /\ Len(row) > 0
       BY <1>1, <1>2, <1>3, <1>8, RecordFound
<1>11. PICK quoted2, ends2 : RowsSoFar(Append(rows, row), quoted2, ends2, get')
  <2>1. /\ LastField(parse_field(get)) /\ row = Append(fields, parse_field(get).value)
        /\ Len(rows) > 0 => Len(row) = Len(rows[1])
        BY <1>1, <1>2, <1>8
  <2>   QED  BY <1>3, <2>1, RecordFound
<1>12. PICK text :
          /\ text = TableText(rows2, quoted2, ends2)
          /\ WrittenAs(rows2, quoted2, ends2)
          /\ text \in CsvText /\ HasAt(csv, 1, text)
          /\ \/ /\ get' = 1 + Len(text)
                /\ \A n \in 1..Len(rows2) : ends2[n] # <<>>
             \/ get' > Len(csv) /\ Len(text) = Len(csv)
       BY <1>9, <1>11, Zenon DEF RowsSoFar
<1>13. <<header'>> \o data' = Stripped(rows2) /\ Len(rows2) > 0
  <2>1. Len(rows2) > 0
        BY <1>5, <1>9, <1>10, Appended
  <2>2. CASE loading = "header"
    <3>1. rows = <<>> /\ data = <<>>
          BY <1>4, <2>2
    <3>2. Stripped(rows2) = <<header'>>
          BY <1>2, <1>9, <1>10, <2>2, <3>1, StrippedOne
    <3>3. data' = <<>>
          BY <1>2, <2>2, <3>1
    <3>4. \A x : <<x>> \o <<>> = <<x>>
          OBVIOUS
    <3>   QED  BY <2>1, <3>2, <3>3, <3>4
  <2>3. CASE loading = "records"
    <3>1. Len(rows) > 0
          BY <1>4, <2>3
    <3>2. Stripped(rows2) = Append(Stripped(rows), row)
          BY <1>5, <1>7, <1>9, <1>10, <3>1, StrippedBehind
    <3>3. <<header>> \o Append(data, row) = Append(<<header>> \o data, row)
          BY <1>6, <1>10, AppendBehind
    <3>4. data' = Append(data, row) /\ header' = header
          BY <1>2, <2>3
    <3>   QED  BY <1>7, <2>1, <3>1, <3>2, <3>3, <3>4
  <2>   QED  BY <1>2, <2>2, <2>3
<1>14. PICK q2 : q2 = <<>>
       OBVIOUS
<1>15. q2 \in Seq(BOOLEAN) /\ Len(q2) = 0 /\ Open(<<>>, q2) = <<>> /\ text \o <<>> = text
  <2>1. q2 \in Seq(BOOLEAN) /\ Len(q2) = 0
        BY <1>14
  <2>2. text \in Seq(CsvChar)
        BY <1>12, TextIs
  <2>3. text \o <<>> = text
        BY <2>2
  <2>   QED  BY <1>14, <2>1, <2>3, NothingWritten
<1>16. SoFar(rows2, quoted2, ends2, q2)'
  <2>1. TableText(rows2, quoted2, ends2) \o Open(fields', q2) = text
        BY <1>2, <1>12, <1>15
  <2>2. Len(fields') = 0 /\ \A k \in 1..0 : FALSE
        BY <1>2
  <2>3. fields' = <<>> /\ csv' = csv /\ loading' = "records"
        BY <1>2
  <2>4. WrittenAs(rows2, quoted2, ends2)'
        BY <1>12
  <2>5. q2 \in Seq(BOOLEAN) /\ Len(q2) = Len(fields') /\ \A k \in 1..Len(fields') : q2[k] \/ Plain(fields'[k])
        BY <1>15, <2>2
  <2>6. HasAt(csv', 1, TableText(rows2, quoted2, ends2) \o Open(fields', q2))
        BY <1>12, <2>1, <2>3
  <2>7. \/ /\ get' = 1 + Len(TableText(rows2, quoted2, ends2) \o Open(fields', q2))
           /\ \A n \in 1..Len(rows2) : ends2[n] # <<>>
        \/ get' > Len(csv') /\ fields' = <<>> /\ Len(TableText(rows2, quoted2, ends2)) = Len(csv')
        BY <1>12, <2>1, <2>3
  <2>   QED  BY <1>13, <2>3, <2>4, <2>5, <2>6, <2>7 DEF SoFar
<1>   QED  BY <1>16 DEF FileSoFar

LEMMA FilePreserved == CsvTyped /\ FileSoFar /\ [CsvNext]_csvVars => FileSoFar'
<1>   SUFFICES ASSUME CsvTyped, FileSoFar, [CsvNext]_csvVars, csv # <<>>, csv' = csv, loading' # "failed"
               PROVE  FileSoFar'
      BY DEF FileSoFar, CsvNext, NextField, ReadHeader, ReadRecord, FormatError, EndOfRecords, csvVars
<1>1. CASE NextField
      BY <1>1, NextFieldKeeps
<1>2. CASE ReadHeader \/ ReadRecord
      BY <1>2, RecordKeeps
<1>3. CASE FormatError
      BY <1>3 DEF FormatError
<1>4. CASE EndOfRecords
  <2>1. /\ loading = "records" /\ fields = <<>> /\ ~(get <= Len(csv)) /\ loading' = "loaded"
        /\ get' = get /\ fields' = fields /\ header' = header /\ data' = data
        BY <1>4 DEF EndOfRecords, IsReading
  <2>2. PICK rows, quoted, ends, q : SoFar(rows, quoted, ends, q)
        BY <2>1 DEF FileSoFar
  <2>3. get > Len(csv)
    <3>1. get \in Nat /\ Len(csv) \in Nat
          BY TextIs DEF CsvTyped
    <3>   QED  BY <2>1, <3>1
  <2>4. SoFar(rows, quoted, ends, q)'
        BY <2>1, <2>2, <2>3 DEF SoFar
  <2>   QED  BY <2>4 DEF FileSoFar
<1>5. CASE UNCHANGED csvVars
      BY <1>5 DEF csvVars, FileSoFar, SoFar
<1>   QED  BY <1>1, <1>2, <1>3, <1>4, <1>5 DEF CsvNext

\* When it is loaded, that is all there is.
LEMMA LoadedIsWriting ==
    ASSUME CsvTyped, FileSoFar, loading = "loaded", csv # <<>>
    PROVE  csv \in Unmarked(<<header>> \o data) \cup Unmarked(WithMark(<<header>> \o data))
<1>1. PICK rows, quoted, ends, q : SoFar(rows, quoted, ends, q)
      BY DEF FileSoFar
<1>2. PICK text : text = TableText(rows, quoted, ends)
      OBVIOUS
<1>3. /\ text \in CsvText /\ Len(text) \in Nat /\ csv \in CsvText /\ Len(csv) \in Nat
      /\ text \in Seq(CsvChar) /\ csv \in Seq(CsvChar)
      BY <1>1, <1>2, TextSoFar, TextIs DEF CsvTyped
<1>4. /\ fields = <<>> /\ get > Len(csv) /\ get \in Nat /\ Len(rows) > 0
      /\ <<header>> \o data = Stripped(rows) /\ WrittenAs(rows, quoted, ends)
      BY <1>1 DEF SoFar, CsvTyped
<1>5. text \o Open(fields, q) = text
  <2>1. OpenCells(<<>>, q) = <<>>
        BY DEF OpenCells
  <2>2. FlattenSeq(<<>>) = <<>>
        BY DEF FlattenSeq
  <2>3. Open(fields, q) = <<>>
        BY <1>4, <2>1, <2>2, Zenon DEF Open
  <2>4. text \o <<>> = text
        BY <1>3
  <2>   QED  BY <2>3, <2>4
<1>6. HasAt(csv, 1, text) /\ (get = 1 + Len(text) \/ Len(text) = Len(csv))
      BY <1>1, <1>2, <1>5 DEF SoFar
<1>7. Len(text) >= Len(csv)
      BY <1>3, <1>4, <1>6
<1>8. csv = text
      BY <1>3, <1>6, <1>7, HasAll
<1>9. text \in Unmarked(Stripped(rows)) \cup Unmarked(WithMark(Stripped(rows)))
      BY <1>2, <1>4, TextIsWriting
<1>   QED  BY <1>4, <1>8, <1>9

-----------------------------------------------------------------------------
\* What is written as a table is read so.

IsFileOf(rows, quoted, ends) ==
    WrittenAs(rows, quoted, ends) /\ Len(rows) > 0 /\ csv = TableText(rows, quoted, ends)

\* r rows of it have been read, and some fields of the next one.
RowsRead(rows, quoted, ends, r) ==
    /\ r \in 0..Len(rows)
    /\ \/ r = 0 /\ loading = "header" /\ data = <<>>
       \/ r > 0 /\ loading \in {"records", "loaded"} /\ <<header>> \o data = SubSeq(Stripped(rows), 1, r)
    /\ r < Len(rows) =>
          /\ loading # "loaded"
          /\ \E k \in 0..Len(rows[1]) - 1 :
                fields = SubSeq(rows[r + 1], 1, k) /\ get = CellPlace(rows, quoted, ends, r, k)
    /\ r = Len(rows) => fields = <<>> /\ get > Len(csv)

TableIsRead ==
    \A rows, quoted, ends :
        IsFileOf(rows, quoted, ends) => \E r : RowsRead(rows, quoted, ends, r)

LEMMA FirstPart ==
    ASSUME NEW A, NEW s \in Seq(A), NEW k \in 0..Len(s) - 1
    PROVE  /\ Append(SubSeq(s, 1, k), s[k + 1]) = SubSeq(s, 1, k + 1)
           /\ Len(SubSeq(s, 1, k)) = k /\ SubSeq(s, 1, k) \in Seq(A)
           /\ SubSeq(s, 1, 0) = <<>> /\ SubSeq(s, 1, Len(s)) = s
<1>1. PICK a, b, x : a = SubSeq(s, 1, k) /\ b = SubSeq(s, 1, k + 1) /\ x = s[k + 1]
      OBVIOUS
<1>2. a \in Seq(A) /\ Len(a) = k /\ k \in Nat /\ \A n \in 1..k : a[n] = s[n]
      BY <1>1
<1>3. b \in Seq(A) /\ Len(b) = k + 1 /\ \A n \in 1..k + 1 : b[n] = s[n]
      BY <1>1
<1>4. x \in A
      BY <1>1
<1>5. /\ Append(a, x) \in Seq(A) /\ Len(Append(a, x)) = k + 1
      /\ \A n \in 1..k : Append(a, x)[n] = a[n]
      /\ Append(a, x)[k + 1] = x
      /\ \A n \in 1..k + 1 : n = k + 1 \/ n \in 1..k
      BY <1>2, <1>4, Appended
<1>6. \A n \in 1..k + 1 : Append(a, x)[n] = b[n]
      BY <1>1, <1>2, <1>3, <1>5
<1>7. Append(a, x) = b
      BY <1>3, <1>5, <1>6
<1>8. SubSeq(s, 1, 0) = <<>> /\ SubSeq(s, 1, Len(s)) = s
      BY SubSeqEmpty, SubSeqFull
<1>   QED  BY <1>1, <1>2, <1>7, <1>8

\* The next field is the one that is written there.
LEMMA CellRead ==
    ASSUME NEW rows, NEW quoted, NEW ends, IsFileOf(rows, quoted, ends),
           NEW r \in 0..Len(rows) - 1, NEW k \in 0..Len(rows[1]) - 1,
           fields = SubSeq(rows[r + 1], 1, k), get = CellPlace(rows, quoted, ends, r, k)
    PROVE  LET field == parse_field(get)
               row   == Append(fields, field.value)
           IN  /\ fields # <<>> \/ get <= Len(csv)
               /\ row = SubSeq(rows[r + 1], 1, k + 1)
               /\ k + 1 < Len(rows[1]) =>
                     /\ IsSeparated(field) /\ ~IsLast(field)
                     /\ field.next + 1 = CellPlace(rows, quoted, ends, r, k + 1)
               /\ k + 1 = Len(rows[1]) =>
                     /\ IsLast(field) /\ ~IsSeparated(field) /\ row = rows[r + 1]
                     /\ r + 1 < Len(rows) => eat_newline(field.next) = CellPlace(rows, quoted, ends, r + 1, 0)
                     /\ r + 1 = Len(rows) => eat_newline(field.next) > Len(csv)
<1>1. WrittenAs(rows, quoted, ends) /\ csv = TableText(rows, quoted, ends) /\ Len(rows) > 0
      BY DEF IsFileOf
<1>2. /\ Len(rows) \in Nat /\ r + 1 \in 1..Len(rows)
      BY <1>1, WrittenIs
<1>3. PICK row, w : row = rows[r + 1] /\ w = Len(rows[1])
      OBVIOUS
<1>4. /\ row \in CsvRow /\ Len(row) = w /\ w \in Nat \ {0} /\ k \in 0..w - 1
      /\ IsEnd(ends[r + 1]) /\ quoted[r + 1][k + 1] \in BOOLEAN
  <2>1. k + 1 \in 1..Len(rows[1])
    <3>1. Len(rows[1]) \in Nat
          BY <1>1, WrittenIs
    <3>   QED  BY <3>1
  <2>2. /\ rows[r + 1] \in CsvRow /\ Len(rows[r + 1]) = Len(rows[1]) /\ IsEnd(ends[r + 1])
        /\ Len(rows[1]) \in Nat \ {0}
        BY <1>1, <1>2, WrittenIs
  <2>3. quoted[r + 1][k + 1] \in BOOLEAN
        BY <1>1, <1>2, <2>1, <2>2, WrittenIs
  <2>   QED  BY <1>3, <2>2, <2>3
<1>5. PICK n, v, q, after : /\ n = CellPlace(rows, quoted, ends, r, k) /\ v = rows[r + 1][k + 1]
                            /\ q = quoted[r + 1][k + 1] /\ after = n + Len(FieldText(v, q))
      OBVIOUS
<1>6. /\ csv \in CsvText /\ n \in Nat \ {0} /\ after \in Nat \ {0} /\ FieldAt(v, q, n)
      /\ k + 1 < Len(rows[1]) =>
            /\ after <= Len(csv) /\ csv[after] = "separator"
            /\ CellPlace(rows, quoted, ends, r, k + 1) = after + 1
      /\ k + 1 = Len(rows[1]) =>
            /\ HasAt(csv, after, ends[r + 1])
            /\ CellPlace(rows, quoted, ends, r + 1, 0) = after + Len(ends[r + 1])
            /\ ends[r + 1] = <<>> => after = Len(csv) + 1 /\ r + 1 = Len(rows)
      BY <1>1, <1>5, Places
<1>7. PICK field : field = parse_field(get)
      OBVIOUS
<1>8. field = Field(v, after)
      BY <1>4, <1>5, <1>6, <1>7, FieldIsRead
<1>9. field.ok /\ field.value = v /\ field.next = after
      BY <1>8, FieldIs
<1>10. /\ Append(SubSeq(row, 1, k), row[k + 1]) = SubSeq(row, 1, k + 1)
       /\ Len(SubSeq(row, 1, k)) = k /\ SubSeq(row, 1, Len(row)) = row
       BY <1>4, FirstPart DEF CsvRow
<1>11. Append(fields, field.value) = SubSeq(rows[r + 1], 1, k + 1)
       BY <1>3, <1>5, <1>9, <1>10
<1>12. fields # <<>> \/ get <= Len(csv)
  <2>1. CASE k = 0
    <3>1. CellPlace(rows, quoted, ends, r, 0) <= Len(csv)
          BY <1>1, RowPlaces
    <3>   QED  BY <2>1, <3>1
  <2>2. CASE k # 0
    <3>1. Len(fields) = k /\ Len(<<>>) = 0
          BY <1>3, <1>10
    <3>   QED  BY <2>2, <3>1
  <2>   QED  BY <2>1, <2>2
<1>13. ASSUME k + 1 < w
       PROVE  /\ IsSeparated(field) /\ ~IsLast(field)
              /\ field.next + 1 = CellPlace(rows, quoted, ends, r, k + 1)
  <2>1. after <= Len(csv) /\ csv[after] = "separator" /\ CellPlace(rows, quoted, ends, r, k + 1) = after + 1
        BY <1>3, <1>6, <1>13
  <2>2. ~end_of_record(after)
        BY <2>1 DEF end_of_record
  <2>   QED  BY <1>9, <2>1, <2>2 DEF IsSeparated, IsLast
<1>14. ASSUME k + 1 = w
       PROVE  /\ IsLast(field) /\ ~IsSeparated(field) /\ Append(fields, field.value) = rows[r + 1]
              /\ r + 1 < Len(rows) => eat_newline(field.next) = CellPlace(rows, quoted, ends, r + 1, 0)
              /\ r + 1 = Len(rows) => eat_newline(field.next) > Len(csv)
  <2>1. PICK end : end = ends[r + 1]
        OBVIOUS
  <2>2. /\ HasAt(csv, after, end) /\ CellPlace(rows, quoted, ends, r + 1, 0) = after + Len(end)
        /\ end = <<>> => after = Len(csv) + 1 /\ r + 1 = Len(rows)
        BY <1>3, <1>6, <1>14, <2>1
  <2>3. IsEnd(end)
        BY <1>4, <2>1
  <2>4. /\ end_of_record(after) /\ eat_newline(after) # 0
        /\ end = <<>> => eat_newline(after) = Len(csv) + 2
        /\ end # <<>> => eat_newline(after) = after + Len(end)
        BY <1>6, <2>2, <2>3, EndIsRead
  <2>5. IsLast(field) /\ ~IsSeparated(field)
        BY <1>9, <2>4 DEF IsLast, IsSeparated
  <2>6. Append(fields, field.value) = rows[r + 1]
        BY <1>3, <1>4, <1>10, <1>11, <1>14
  <2>7. Len(csv) \in Nat
        BY <1>6, TextIs
  <2>8. CASE end = <<>>
        BY <1>2, <1>9, <2>2, <2>4, <2>5, <2>6, <2>7, <2>8
  <2>9. CASE end # <<>>
    <3>1. eat_newline(field.next) = CellPlace(rows, quoted, ends, r + 1, 0)
          BY <1>9, <2>2, <2>4, <2>9
    <3>2. ASSUME r + 1 = Len(rows) PROVE eat_newline(field.next) > Len(csv)
      <4>1. CellPlace(rows, quoted, ends, Len(rows), 0) = Len(csv) + 1
            BY <1>1, RowPlaces
      <4>   QED  BY <2>7, <3>1, <3>2, <4>1
    <3>   QED  BY <2>5, <2>6, <3>1, <3>2
  <2>   QED  BY <2>8, <2>9
<1>   QED  BY <1>3, <1>7, <1>11, <1>12, <1>13, <1>14

LEMMA TableInitially == CsvInit => TableIsRead
<1>   SUFFICES ASSUME CsvInit, NEW rows, NEW quoted, NEW ends, IsFileOf(rows, quoted, ends)
               PROVE  RowsRead(rows, quoted, ends, 0)
      BY DEF TableIsRead
<1>1. WrittenAs(rows, quoted, ends) /\ csv = TableText(rows, quoted, ends) /\ Len(rows) > 0
      BY DEF IsFileOf
<1>2. Len(rows) \in Nat \ {0} /\ Len(rows[1]) \in Nat \ {0} /\ rows[1] \in CsvRow /\ 0 + 1 = 1
  <2>1. Len(rows) \in Nat \ {0} /\ 1 \in 1..Len(rows)
        BY <1>1, WrittenIs
  <2>   QED  BY <1>1, <2>1, WrittenIs
<1>3. CellPlace(rows, quoted, ends, 0, 0) = 1
      BY <1>1, RowPlaces
<1>4. SubSeq(rows[0 + 1], 1, 0) = <<>>
      BY SubSeqEmpty
<1>5. 0 \in 0..Len(rows) /\ 0 \in 0..Len(rows[1]) - 1 /\ 0 < Len(rows) /\ 0 # Len(rows)
      BY <1>2
<1>6. fields = <<>> /\ get = 1 /\ data = <<>> /\ loading = "header" /\ loading # "loaded"
      BY DEF CsvInit
<1>7. \E k \in 0..Len(rows[1]) - 1 :
          fields = SubSeq(rows[0 + 1], 1, k) /\ get = CellPlace(rows, quoted, ends, 0, k)
      BY <1>3, <1>4, <1>5, <1>6
<1>   QED  BY <1>5, <1>6, <1>7 DEF RowsRead

\* One more row of a table.
LEMMA RowsGoOn ==
    ASSUME NEW rows, NEW quoted, NEW ends, IsFileOf(rows, quoted, ends), CsvTyped,
           NEW r \in 0..Len(rows) - 1, NEW row, row = rows[r + 1],
           \/ r = 0 /\ data = <<>> /\ data' = data
              /\ header' = [row EXCEPT ![1] = strip_utf8_bom(row[1])]
           \/ r > 0 /\ <<header>> \o data = SubSeq(Stripped(rows), 1, r)
              /\ header' = header /\ data' = Append(data, row)
    PROVE  <<header'>> \o data' = SubSeq(Stripped(rows), 1, r + 1)
<1>1. /\ rows \in Seq(CsvRow) /\ Len(rows) \in Nat \ {0} /\ Len(rows) > 0 /\ Len(rows[1]) > 0
      /\ r + 1 \in 1..Len(rows)
  <2>1. WrittenAs(rows, quoted, ends) /\ Len(rows) > 0
        BY DEF IsFileOf
  <2>2. rows \in Seq(CsvRow)
        BY <2>1 DEF WrittenAs
  <2>3. Len(rows) \in Nat \ {0} /\ Len(rows[1]) \in Nat \ {0}
        BY <2>1, WrittenIs
  <2>   QED  BY <2>1, <2>2, <2>3
<1>2. PICK all : all = Stripped(rows)
      OBVIOUS
<1>3. /\ all \in Seq(CsvRow) /\ Len(all) = Len(rows)
      /\ all[1] = [rows[1] EXCEPT ![1] = strip_utf8_bom(rows[1][1])]
      /\ \A n \in 1..Len(rows) : n > 1 => all[n] = rows[n]
      BY <1>1, <1>2, StrippedIs
<1>4. r \in 0..Len(all) - 1
      BY <1>3
<1>5. Append(SubSeq(all, 1, r), all[r + 1]) = SubSeq(all, 1, r + 1) /\ SubSeq(all, 1, 0) = <<>>
      BY <1>3, <1>4, FirstPart
<1>6. CASE r = 0
  <2>1. header' = all[1] /\ data' = <<>>
        BY <1>3, <1>6
  <2>2. \A x : Append(<<>>, x) = <<x>> \o <<>>
        OBVIOUS
  <2>3. SubSeq(all, 1, r + 1) = Append(<<>>, all[1])
    <3>1. r + 1 = 1 /\ SubSeq(all, 1, r) = SubSeq(all, 1, 0)
          BY <1>6
    <3>   QED  BY <1>5, <3>1, Zenon
  <2>   QED  BY <1>2, <2>1, <2>2, <2>3
<1>7. CASE r > 0
  <2>1. all[r + 1] = row
        BY <1>1, <1>3, <1>7
  <2>2. header' = header /\ data' = Append(data, row) /\ <<header>> \o data = SubSeq(all, 1, r)
        BY <1>2, <1>7
  <2>3. header \in CsvRow /\ data \in Seq(CsvRow) /\ row \in CsvRow
        BY <1>1 DEF CsvTyped
  <2>4. <<header>> \o Append(data, row) = Append(<<header>> \o data, row)
        BY <2>3, AppendBehind
  <2>   QED  BY <1>2, <1>5, <2>1, <2>2, <2>4
<1>   QED  BY <1>6, <1>7

LEMMA RowKeeps ==
    ASSUME NEW rows, NEW quoted, NEW ends, IsFileOf(rows, quoted, ends), CsvTyped,
           NEW r, RowsRead(rows, quoted, ends, r), r < Len(rows), CsvNext
    PROVE  \E r2 : RowsRead(rows, quoted, ends, r2)'
<1>   DEFINE w == Len(rows[1])
<1>1. WrittenAs(rows, quoted, ends) /\ csv = TableText(rows, quoted, ends) /\ Len(rows) > 0
      BY DEF IsFileOf
<1>2. /\ rows \in Seq(CsvRow) /\ Len(rows) \in Nat \ {0} /\ w \in Nat \ {0}
      /\ \A n \in 1..Len(rows) : Len(rows[n]) = w
  <2>1. rows \in Seq(CsvRow)
        BY <1>1 DEF WrittenAs
  <2>   QED  BY <1>1, <2>1, WrittenIs
<1>3. /\ r \in 0..Len(rows) - 1 /\ r + 1 \in 1..Len(rows) /\ loading # "loaded"
      /\ \/ r = 0 /\ loading = "header" /\ data = <<>>
         \/ r > 0 /\ loading \in {"records", "loaded"} /\ <<header>> \o data = SubSeq(Stripped(rows), 1, r)
      BY <1>2 DEF RowsRead
<1>4. PICK k \in 0..Len(rows[1]) - 1 :
          fields = SubSeq(rows[r + 1], 1, k) /\ get = CellPlace(rows, quoted, ends, r, k)
      BY DEF RowsRead
<1>5. PICK field, row : field = parse_field(get) /\ row = Append(fields, field.value)
      OBVIOUS
<1>6. /\ fields # <<>> \/ get <= Len(csv)
      /\ row = SubSeq(rows[r + 1], 1, k + 1)
      /\ k + 1 < Len(rows[1]) =>
            /\ IsSeparated(field) /\ ~IsLast(field)
            /\ field.next + 1 = CellPlace(rows, quoted, ends, r, k + 1)
      /\ k + 1 = Len(rows[1]) =>
            /\ IsLast(field) /\ ~IsSeparated(field) /\ row = rows[r + 1]
            /\ r + 1 < Len(rows) => eat_newline(field.next) = CellPlace(rows, quoted, ends, r + 1, 0)
            /\ r + 1 = Len(rows) => eat_newline(field.next) > Len(csv)
      BY <1>3, <1>4, <1>5, CellRead
<1>7. IsReading
      BY <1>3, <1>6 DEF IsReading
<1>8. ASSUME k + 1 < w PROVE RowsRead(rows, quoted, ends, r)'
  <2>1. IsSeparated(field) /\ ~IsLast(field) /\ field.next + 1 = CellPlace(rows, quoted, ends, r, k + 1)
        BY <1>6, <1>8
  <2>2. NextField
        BY <1>5, <1>7, <2>1 DEF CsvNext, ReadHeader, ReadRecord, LastField, FormatError, EndOfRecords
  <2>3. /\ fields' = row /\ get' = field.next + 1
        /\ loading' = loading /\ csv' = csv /\ header' = header /\ data' = data
        BY <1>5, <2>2 DEF NextField
  <2>4. k + 1 \in 0..Len(rows[1]) - 1
        BY <1>2, <1>8
  <2>5. \E j \in 0..Len(rows[1]) - 1 :
            fields' = SubSeq(rows[r + 1], 1, j) /\ get' = CellPlace(rows, quoted, ends, r, j)
        BY <1>6, <2>1, <2>3, <2>4
  <2>6. r \in 0..Len(rows) /\ r # Len(rows)
        BY <1>2, <1>3
  <2>   QED  BY <1>3, <2>3, <2>5, <2>6 DEF RowsRead
<1>9. ASSUME k + 1 = w PROVE RowsRead(rows, quoted, ends, r + 1)'
  <2>1. /\ IsLast(field) /\ ~IsSeparated(field) /\ row = rows[r + 1]
        /\ r + 1 < Len(rows) => eat_newline(field.next) = CellPlace(rows, quoted, ends, r + 1, 0)
        /\ r + 1 = Len(rows) => eat_newline(field.next) > Len(csv)
        BY <1>6, <1>9
  <2>2. RowFits(row)
    <3>1. ASSUME loading = "records" PROVE Len(row) = Len(header)
      <4>1. r > 0 /\ <<header>> \o data = SubSeq(Stripped(rows), 1, r)
            BY <1>3, <3>1
      <4>2. PICK all : all = Stripped(rows)
            OBVIOUS
      <4>3. all \in Seq(CsvRow) /\ Len(all) = Len(rows) /\ Len(all[1]) = w
        <5>1. rows \in Seq(CsvRow) /\ Len(rows) > 0 /\ Len(rows[1]) > 0
              BY <1>2
        <5>   QED  BY <4>2, <5>1, StrippedIs
      <4>4. SubSeq(all, 1, r)[1] = all[1]
            BY <1>2, <1>3, <4>1, <4>3
      <4>5. (<<header>> \o data)[1] = header
            BY DEF CsvTyped
      <4>6. Len(header) = w
            BY <4>1, <4>2, <4>3, <4>4, <4>5
      <4>7. Len(row) = w
            BY <1>2, <1>3, <2>1
      <4>   QED  BY <4>6, <4>7
    <3>   QED  BY <3>1 DEF RowFits
  <2>3. ReadHeader \/ ReadRecord
        BY <1>5, <1>7, <2>1, <2>2 DEF CsvNext, NextField, FormatError, EndOfRecords
  <2>4. /\ get' = eat_newline(field.next) /\ fields' = <<>> /\ csv' = csv /\ loading' = "records"
        /\ \/ loading = "header" /\ data' = data
              /\ header' = [row EXCEPT ![1] = strip_utf8_bom(row[1])]
           \/ loading = "records" /\ header' = header /\ data' = Append(data, row)
        BY <1>5, <2>3 DEF ReadHeader, ReadRecord, LastField
  <2>5. <<header'>> \o data' = SubSeq(Stripped(rows), 1, r + 1)
    <3>1. \/ r = 0 /\ data = <<>> /\ data' = data
             /\ header' = [row EXCEPT ![1] = strip_utf8_bom(row[1])]
          \/ r > 0 /\ <<header>> \o data = SubSeq(Stripped(rows), 1, r)
             /\ header' = header /\ data' = Append(data, row)
          BY <1>3, <2>4
    <3>   QED  BY <1>3, <2>1, <3>1, RowsGoOn
  <2>6. r + 1 \in 0..Len(rows) /\ r + 1 > 0
        BY <1>2, <1>3
  <2>7. ASSUME r + 1 < Len(rows)
        PROVE  \E j \in 0..Len(rows[1]) - 1 :
                  fields' = SubSeq(rows[r + 1 + 1], 1, j) /\ get' = CellPlace(rows, quoted, ends, r + 1, j)
    <3>1. SubSeq(rows[r + 1 + 1], 1, 0) = <<>> /\ 0 \in 0..Len(rows[1]) - 1
          BY <1>2, SubSeqEmpty
    <3>   QED  BY <2>1, <2>4, <2>7, <3>1
  <2>8. r + 1 = Len(rows) => get' > Len(csv')
        BY <2>1, <2>4
  <2>   QED  BY <2>4, <2>5, <2>6, <2>7, <2>8 DEF RowsRead
<1>10. k + 1 < w \/ k + 1 = w
       BY <1>2
<1>   QED  BY <1>8, <1>9, <1>10

LEMMA TablePreserved == CsvTyped /\ TableIsRead /\ [CsvNext]_csvVars => TableIsRead'
<1>1. CASE UNCHANGED csvVars
      BY <1>1 DEF csvVars, TableIsRead, IsFileOf, RowsRead
<1>2. CASE CsvNext
  <2>   SUFFICES ASSUME CsvTyped, TableIsRead, NEW rows, NEW quoted, NEW ends, IsFileOf(rows, quoted, ends)'
                 PROVE  \E r : RowsRead(rows, quoted, ends, r)'
        BY <1>2 DEF TableIsRead
  <2>1. csv' = csv
        BY <1>2 DEF CsvNext, NextField, ReadHeader, ReadRecord, FormatError, EndOfRecords
  <2>2. IsFileOf(rows, quoted, ends)
        BY <2>1 DEF IsFileOf
  <2>3. PICK r : RowsRead(rows, quoted, ends, r)
        BY <2>2 DEF TableIsRead
  <2>4. CASE r < Len(rows)
        BY <1>2, <2>2, <2>3, <2>4, RowKeeps
  <2>5. CASE r = Len(rows)
    <3>1. /\ fields = <<>> /\ get > Len(csv) /\ r > 0
          /\ loading \in {"records", "loaded"} /\ <<header>> \o data = SubSeq(Stripped(rows), 1, r)
          BY <2>2, <2>3, <2>5 DEF RowsRead, IsFileOf
    <3>2. get \in Nat /\ Len(csv) \in Nat
          BY TextIs DEF CsvTyped
    <3>3. ~IsReading
          BY <3>1, <3>2 DEF IsReading
    <3>4. EndOfRecords
          BY <1>2, <3>1, <3>3 DEF CsvNext, NextField, ReadHeader, ReadRecord, FormatError, LastField
    <3>5. RowsRead(rows, quoted, ends, r)'
      <4>1. r \in 0..Len(rows)
            BY <2>3 DEF RowsRead
      <4>2. ~(r < Len(rows))
            BY <2>5, <4>1
      <4>   QED  BY <2>5, <3>1, <3>4, <4>1, <4>2 DEF EndOfRecords, RowsRead
    <3>   QED  BY <3>5
  <2>6. r < Len(rows) \/ r = Len(rows)
    <3>1. Len(rows) \in Nat /\ r \in 0..Len(rows)
          BY <2>2, <2>3, WrittenIs DEF RowsRead, IsFileOf
    <3>   QED  BY <3>1
  <2>   QED  BY <2>4, <2>5, <2>6
<1>   QED  BY <1>1, <1>2

LEMMA TableIsAllRead ==
    ASSUME CsvTyped, TableIsRead, loading \in {"loaded", "failed"},
           NEW table \in Table, csv \in WritingsOf[table], ~MarkThenQuote(csv)
    PROVE  loading = "loaded" /\ <<header>> \o data = table
<1>1. IsTable(table) /\ strip_utf8_bom(table[1][1]) = table[1][1] /\ csv \in Writings(table)
      BY CsvAssumption DEF WritingsOf
<1>2. PICK rows, quoted, ends :
          /\ WrittenAs(rows, quoted, ends) /\ csv = TableText(rows, quoted, ends)
          /\ Stripped(rows) = table /\ Len(rows) > 0
      BY <1>1, WritingIsText
<1>3. IsFileOf(rows, quoted, ends)
      BY <1>2 DEF IsFileOf
<1>4. PICK r : RowsRead(rows, quoted, ends, r)
      BY <1>3 DEF TableIsRead
<1>5. /\ rows \in Seq(CsvRow) /\ Len(rows) \in Nat \ {0} /\ Len(rows[1]) > 0
  <2>1. Len(rows[1]) \in Nat \ {0} /\ Len(rows) \in Nat
        BY <1>2, WrittenIs
  <2>   QED  BY <1>2, <2>1 DEF WrittenAs
<1>6. loading = "loaded" /\ r > 0 /\ <<header>> \o data = SubSeq(Stripped(rows), 1, r)
      BY <1>4 DEF RowsRead
<1>7. r = Len(rows)
      BY <1>4, <1>5, <1>6 DEF RowsRead
<1>8. SubSeq(Stripped(rows), 1, Len(Stripped(rows))) = Stripped(rows) /\ Len(Stripped(rows)) = Len(rows)
      BY <1>2, <1>5, StrippedIs, SubSeqFull
<1>   QED  BY <1>2, <1>6, <1>7, <1>8

-----------------------------------------------------------------------------
\* A mark before a quote.

\* Nothing is read of such a file.
MarkIsRefused ==
    MarkThenQuote(csv) => \/ loading = "header" /\ get = 1
                          \/ loading = "failed"

\* Its first field would begin with the mark, and end at the quote or have it within.
LEMMA MarkedFieldFails ==
    ASSUME CsvTyped, MarkThenQuote(csv)
    PROVE  ~IsSeparated(parse_field(1)) /\ ~IsLast(parse_field(1))
<1>1. csv \in CsvText /\ Len(csv) \in Nat /\ Len(csv) >= 2 /\ csv[1] = "bom" /\ csv[2] = "quote"
      BY TextIs DEF CsvTyped, MarkThenQuote
<1>2. SUFFICES ASSUME parse_field(1).ok
               PROVE  ~IsSeparated(parse_field(1)) /\ ~IsLast(parse_field(1))
      BY DEF IsSeparated, IsLast
<1>3. PICK v \in CsvText, b \in BOOLEAN :
          /\ b \/ Plain(v)
          /\ HasAt(csv, 1, FieldText(v, b))
          /\ parse_field(1) = Field(v, 1 + Len(FieldText(v, b)))
      BY <1>1, <1>2, FieldIsWritten
<1>4. ~b
  <2>1. ASSUME b PROVE csv[1] = "quote"
    <3>1. HasAt(csv, 1, Quoted(v))
          BY <1>3, <2>1 DEF FieldText
    <3>   QED  BY <1>1, <3>1, QuotedIs
  <2>   QED  BY <1>1, <2>1, CharsAre
<1>5. /\ HasAt(csv, 1, v) /\ Plain(v) /\ Len(v) \in Nat
      /\ parse_field(1).next = 1 + Len(v)
  <2>1. FieldText(v, b) = v
        BY <1>4 DEF FieldText
  <2>   QED  BY <1>3, <1>4, <2>1, TextIs, FieldIs
<1>6. Len(v) < 2
  <2>1. ASSUME Len(v) >= 2 PROVE FALSE
    <3>1. 2 \in 1..Len(v) /\ v[2] = csv[2]
          BY <1>5, <2>1 DEF HasAt
    <3>2. v[2] \notin Special
          BY <1>5, <3>1, PlainIs
    <3>   QED  BY <1>1, <3>1, <3>2 DEF Special
  <2>   QED  BY <1>5, <2>1
<1>7. parse_field(1).next \in {1, 2}
      BY <1>5, <1>6
<1>8. \A n \in {1, 2} : n <= Len(csv) /\ csv[n] \notin {"separator", "\r", "\n"}
      BY <1>1, CharsAre DEF Special
<1>   QED  BY <1>7, <1>8 DEF IsSeparated, IsLast, end_of_record

LEMMA RefusalPreserved == CsvTyped /\ MarkIsRefused /\ [CsvNext]_csvVars => MarkIsRefused'
<1>   SUFFICES ASSUME CsvTyped, MarkIsRefused, [CsvNext]_csvVars, MarkThenQuote(csv)'
               PROVE  \/ loading' = "header" /\ get' = 1
                      \/ loading' = "failed"
      BY DEF MarkIsRefused
<1>1. csv' = csv
      BY DEF CsvNext, NextField, ReadHeader, ReadRecord, FormatError, EndOfRecords, csvVars
<1>2. MarkThenQuote(csv) /\ ((loading = "header" /\ get = 1) \/ loading = "failed")
      BY <1>1 DEF MarkIsRefused
<1>3. CASE UNCHANGED csvVars
      BY <1>2, <1>3 DEF csvVars
<1>4. CASE CsvNext
  <2>1. loading = "header" /\ get = 1
        BY <1>2, <1>4
           DEF CsvNext, NextField, ReadHeader, ReadRecord, FormatError, EndOfRecords, IsReading, LastField
  <2>2. ~IsSeparated(parse_field(get)) /\ ~IsLast(parse_field(get))
        BY <1>2, <2>1, MarkedFieldFails
  <2>3. FormatError
        BY <1>4, <2>1, <2>2 DEF CsvNext, NextField, ReadHeader, ReadRecord, LastField, EndOfRecords
  <2>   QED  BY <2>3 DEF FormatError
<1>   QED  BY <1>3, <1>4

\* For every file: the table that is loaded from it, it is a writing of, with or
\* without quotes and with any line ends, but for one mark at the start of the first
\* header, which is lost; and of every table, however long and wide, each writing
\* is read as that table and not refused, unless a mark stands before a header in
\* quotes: that is always refused (csv_file::load, parse_record, parse_escaped_field).
THEOREM RowsReadAsWritten == CsvSpec => []RowsAsWritten
<1>1. CsvInit => CsvTyped /\ FileSoFar /\ TableIsRead /\ MarkIsRefused
  <2>1. CsvInit => MarkIsRefused
        BY DEF CsvInit, MarkIsRefused
  <2>   QED  BY <2>1, TypedInitially, SoFarInitially, TableInitially
<1>2. CsvTyped /\ FileSoFar /\ TableIsRead /\ MarkIsRefused /\ [CsvNext]_csvVars =>
          CsvTyped' /\ FileSoFar' /\ TableIsRead' /\ MarkIsRefused'
      BY TypedPreserved, FilePreserved, TablePreserved, RefusalPreserved
<1>3. CsvTyped /\ FileSoFar /\ TableIsRead /\ MarkIsRefused => RowsAsWritten
  <2>   SUFFICES ASSUME CsvTyped, FileSoFar, TableIsRead, MarkIsRefused PROVE RowsAsWritten
        OBVIOUS
  <2>1. loading = "loaded" /\ csv # <<>> =>
            csv \in Unmarked(<<header>> \o data) \cup Unmarked(WithMark(<<header>> \o data))
        BY LoadedIsWriting
  <2>2. loading \in {"loaded", "failed"} /\ MarkThenQuote(csv) => loading = "failed"
        BY DEF MarkIsRefused
  <2>3. ASSUME loading \in {"loaded", "failed"}, NEW table \in Table, csv \in WritingsOf[table]
        PROVE  IF MarkThenQuote(csv) THEN loading = "failed"
               ELSE loading = "loaded" /\ <<header>> \o data = table
        BY <2>2, <2>3, TableIsAllRead
  <2>   QED  BY <2>1, <2>3 DEF RowsAsWritten
<1>   QED  BY <1>1, <1>2, <1>3, PTL DEF CsvSpec
=============================================================================
