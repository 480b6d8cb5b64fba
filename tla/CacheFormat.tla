----------------------------- MODULE CacheFormat -----------------------------
(***************************************************************************)
(* Reading the cache file: rendered_cache_file::get_contents and, for a    *)
(* file without the magic number, the old format of cache_file.cpp, which  *)
(* has objects that are still to be rendered.  A file is a sequence of     *)
(* numbers, those that are lengths and counts and those that are           *)
(* characters.  One step reads the header or an object.                    *)
(*                                                                         *)
(* What is read is a file that was written as a whole and then cut off     *)
(* anywhere, by a full disk or by a copy that stopped.                     *)
(***************************************************************************)
EXTENDS Naturals, Sequences, SequencesExt

CONSTANTS
    Rendered,        \* lists of rendered objects: <<id, type, json>>
    Unrendered,      \* lists of <<id, type, attributes>>, an attribute <<name, values>>
    Versions         \* versions of the format that a file may have

MAGIC_NUMBER == 1000
CURRENT_VERSION == 1

CacheText == Seq(Nat)
OldAttribute == CacheText \X Seq(CacheText)

\* (A file of the old format starts with the number of its objects, which is
\* less than the magic number.)
ASSUME FormatAssumption ==
    /\ Rendered \subseteq Seq(CacheText \X CacheText \X CacheText)
    /\ Unrendered \subseteq Seq(CacheText \X CacheText \X Seq(OldAttribute))
    /\ \A list \in Unrendered : Len(list) < MAGIC_NUMBER
    /\ Versions \subseteq Nat

VARIABLES
    cacheReading,    \* "magic", "objects", "old", "done" or "failed"
    file,
    ifs,             \* the place in the file
    left,            \* objects still to be read
    objects,         \* objects read
    \* History variable, read by the properties only.
    written          \* the objects of the file before it was cut off

formatVars == <<cacheReading, file, ifs, left, objects, written>>

-----------------------------------------------------------------------------
\* Writing.

WriteString(s) == <<Len(s)>> \o s

WriteList(texts) == <<Len(texts)>> \o FlattenSeq(texts)

write_object(o) == WriteString(o[1]) \o WriteString(o[2]) \o WriteString(o[3])

RenderedTexts(list) == [n \in DOMAIN list |-> write_object(list[n])]

write_objects(list) == WriteList(RenderedTexts(list))

save(list, version) == <<MAGIC_NUMBER, version>> \o write_objects(list)

\* The old format, as read_objects expects it; nothing writes it any more.
WriteStrings(list) == WriteList([n \in DOMAIN list |-> WriteString(list[n])])

WriteAttribute(a) == WriteString(a[1]) \o WriteStrings(a[2])

WriteAttributes(list) == WriteList([n \in DOMAIN list |-> WriteAttribute(list[n])])

WriteOldObject(o) == WriteString(o[1]) \o WriteString(o[2]) \o WriteAttributes(o[3])

OldTexts(list) == [n \in DOMAIN list |-> WriteOldObject(list[n])]

WriteOld(list) == WriteList(OldTexts(list))

-----------------------------------------------------------------------------
\* Reading: a reader gives, for a place in the file, nothing or a value and the
\* place after it.

Place == Nat \ {0}

NothingRead == [ok |-> FALSE, value |-> <<>>, next |-> 1]
Got(value, next) == [ok |-> TRUE, value |-> value, next |-> next]

\* Mutated form: what there is of a string is taken for all of it.
read_string_Short ==
    [n \in Place |->
        IF n > Len(file) THEN NothingRead
        ELSE LET end == IF n + file[n] > Len(file) THEN Len(file) ELSE n + file[n]
             IN  Got(SubSeq(file, n + 1, end), end + 1)]

read_string ==
    [n \in Place |->
        IF n > Len(file) \/ n + file[n] > Len(file) THEN NothingRead
        ELSE Got(SubSeq(file, n + 1, n + file[n]), n + file[n] + 1)]

\* One after the other, if the first could be read.
AndThen(first, reader) ==
    IF ~first.ok THEN NothingRead
    ELSE LET second == reader[first.next]
         IN  IF second.ok THEN Got(Append(first.value, second.value), second.next) ELSE NothingRead

Nothing(n) == Got(<<>>, n)

ReadTimes(times, n, reader) ==
    FoldLeft(LAMBDA got, k : AndThen(got, reader), Nothing(n), [k \in 1..times |-> k])

\* A number, and so many values.
ReadList(reader) ==
    [n \in Place |-> IF n > Len(file) THEN NothingRead ELSE ReadTimes(file[n], n + 1, reader)]

read_object ==
    [n \in Place |-> AndThen(AndThen(AndThen(Nothing(n), read_string), read_string), read_string)]

read_value_list == ReadList(read_string)

read_attribute == [n \in Place |-> AndThen(AndThen(Nothing(n), read_string), read_value_list)]

read_attributes == ReadList(read_attribute)

read_old_object ==
    [n \in Place |->
        AndThen(AndThen(AndThen(Nothing(n), read_string), read_string), read_attributes)]

-----------------------------------------------------------------------------

\* An exception of the new format's reader: run_main exits.
Throw == cacheReading' = "failed" /\ UNCHANGED <<file, ifs, left, objects, written>>

\* The old format's reader gives an empty list when it cannot go on.
GiveUpOld ==
    /\ cacheReading' = "done"
    /\ objects' = <<>>
    /\ UNCHANGED <<file, ifs, left, written>>

VersionIsKnown(version) == version <= CURRENT_VERSION

\* get_contents: the magic number, the version and the number of objects.
get_rendered_contents ==
    /\ cacheReading = "magic"
    /\ IF Len(file) < 3 \/ ~VersionIsKnown(file[2]) THEN Throw
       ELSE /\ left' = file[3]
            /\ ifs' = 4
            /\ cacheReading' = "objects"
            /\ UNCHANGED <<file, objects, written>>
    /\ file # <<>> => file[1] = MAGIC_NUMBER

\* bad_format, and the old reader's number of objects.  (A file too short to
\* hold a magic number does not come here.)
get_old_contents ==
    /\ cacheReading = "magic"
    /\ file # <<>> /\ file[1] # MAGIC_NUMBER
    /\ left' = file[1]
    /\ ifs' = 2
    /\ cacheReading' = "old"
    /\ UNCHANGED <<file, objects, written>>

Take(object) ==
    /\ object.ok
    /\ objects' = Append(objects, object.value)
    /\ ifs' = object.next
    /\ left' = left - 1
    /\ UNCHANGED <<cacheReading, file, written>>

ReadRendered ==
    /\ cacheReading = "objects" /\ left > 0
    /\ \/ Take(read_object[ifs])
       \/ ~read_object[ifs].ok /\ Throw

ReadOld ==
    /\ cacheReading = "old" /\ left > 0
    /\ \/ Take(read_old_object[ifs])
       \/ ~read_old_object[ifs].ok /\ GiveUpOld

AllRead ==
    /\ cacheReading \in {"objects", "old"} /\ left = 0
    /\ cacheReading' = "done"
    /\ UNCHANGED <<file, ifs, left, objects, written>>

-----------------------------------------------------------------------------

FormatIdle ==
    /\ cacheReading = "idle" /\ file = <<>> /\ ifs = 1 /\ left = 0 /\ objects = <<>>
    /\ written = <<>>

FormatInit ==
    /\ cacheReading = "magic"
    /\ ifs = 1 /\ left = 0 /\ objects = <<>>
    /\ \/ /\ written \in Rendered
          /\ \E version \in Versions : file \in Prefixes(save(written, version))
       \/ /\ written \in Unrendered
          /\ file \in Prefixes(WriteOld(written))

FormatNext == get_rendered_contents \/ get_old_contents \/ ReadRendered \/ ReadOld \/ AllRead

FormatSpec == FormatInit /\ [][FormatNext]_formatVars

-----------------------------------------------------------------------------
\* Properties.

\* Wherever a file was cut off, its objects are read all or none: what is left
\* of it is never taken for a shorter list, whose missing objects would be
\* created again.  A cut file of the new format and one of a later version stop
\* the run; one of the old format reads as empty, which cache_file.cpp does
\* without a word (rendered_cache_file::read, cache_file::read_objects).
CutFileIsNotRead ==
    cacheReading = "done" =>
        \/ objects = written /\ (file[1] = MAGIC_NUMBER => file[2] <= CURRENT_VERSION)
        \/ objects = <<>> /\ written \in Unrendered

\* The inductive invariant behind it: the objects read so far are the first ones
\* that were written, and what is read next starts where they end, whatever
\* lengths and counts are in the file.

PlaceAfter(texts, n) == Len(FlattenSeq(SubSeq(texts, 1, n)))

ReadSoFar(texts, first) ==
    /\ Len(objects) \in 0..Len(written)
    /\ objects = SubSeq(written, 1, Len(objects))
    /\ left = Len(written) - Len(objects)
    /\ ifs = first + PlaceAfter(texts, Len(objects))

NewFormat ==
    /\ written \in Rendered
    /\ \E version \in Versions : file \in Prefixes(save(written, version))
    /\ cacheReading # "old"
    /\ cacheReading \in {"objects", "done"} =>
          /\ Len(file) >= 3 /\ file[1] = MAGIC_NUMBER /\ file[2] <= CURRENT_VERSION
          /\ ReadSoFar(RenderedTexts(written), 4)
    /\ cacheReading = "done" => left = 0

OldFormat ==
    /\ written \in Unrendered
    /\ file \in Prefixes(WriteOld(written))
    /\ cacheReading # "objects"
    /\ cacheReading = "old" => file[1] # MAGIC_NUMBER /\ ReadSoFar(OldTexts(written), 2)
    /\ cacheReading = "done" =>
          objects = <<>> \/ (left = 0 /\ file[1] # MAGIC_NUMBER /\ ReadSoFar(OldTexts(written), 2))

FormatInv ==
    /\ NewFormat \/ OldFormat
    /\ cacheReading \in {"magic", "objects", "old", "done", "failed"}
    /\ cacheReading = "magic" => objects = <<>>
=============================================================================
