---------------------------- MODULE SfntContainer ----------------------------
(***************************************************************************)
(* The file around the tables: lib/font/caryll-sfnt-builder.c writes it,   *)
(* lib/font/caryll-sfnt.c reads it, and lib/table/head.c keeps the place   *)
(* of the number that makes the whole of it add up.                        *)
(*                                                                         *)
(* A font is a list of tables [tag, bytes]; a file is a sequence of bytes. *)
(* A table that its writer did not make is Junk (NULL in C).  A byte has   *)
(* ByteBase values, 256 in the program and fewer where TLC counts sums of  *)
(* four.  There is always a head, which parseHead makes from nothing.      *)
(***************************************************************************)
EXTENDS OtlGlyphSets, RoundTrip

CONSTANTS
  ByteBase,   \* 256
  HeadTag,    \* 'head'
  Magic       \* 0xB1B0AFBA

LongBase == ByteBase * ByteBase * ByteBase * ByteBase
ByteValues == 0..(ByteBase - 1)

\* Tables, and what the writers of tables made, if anything.  Tags are text: the first
\* of their four bytes is less than half of a byte's values.
Tables == [tag : 0..(LongBase - 1), bytes : Seq(ByteValues)]
RawTables == [tag : 0..(LongBase \div 2 - 1), bytes : {Junk} \union Seq(ByteValues)]

ASSUME BaseHolds == ByteBase \in Nat /\ ByteBase > 1
ASSUME NumbersFit == HeadTag \in 0..(LongBase \div 2 - 1) /\ Magic \in 0..(LongBase - 1)
ASSUME JunkIsNoBytes == Junk \notin Seq(ByteValues)
ASSUME NullIsNoFile == Null \notin Seq(ByteValues) /\ Null \notin Seq(Tables)

-----------------------------------------------------------------------------
Byte(n, weight) == (n \div weight) % ByteBase
Short(n) == <<Byte(n, ByteBase), Byte(n, 1)>>
Long(n) == Short(n \div (ByteBase * ByteBase)) \o Short(n)
FieldAt(bytes, i, size) == FoldLeft(LAMBDA n, k : ByteBase * n + bytes[i + k], 0, [k \in 1..size |-> k])

\* buflongalign, and the sum of a buffer in words of four bytes.
Aligned(bytes) == bytes \o [k \in 1..((4 - (Len(bytes) % 4)) % 4) |-> 0]
Total(bytes) ==
  FoldLeft(LAMBDA n, k : (n + FieldAt(Aligned(bytes), 4 * k - 4, 4)) % LongBase, 0,
           [k \in 1..(Len(Aligned(bytes)) \div 4) |-> k])

Patched(bytes, at, new) ==
  [i \in DOMAIN bytes |-> IF i - at \in DOMAIN new THEN new[i - at] ELSE bytes[i]]
WithoutAdjustment(t) == IF t.tag = HeadTag THEN [t EXCEPT !.bytes = Patched(@, 8, Long(0))] ELSE t

-----------------------------------------------------------------------------

\* parseHead leaves the adjustment zero.
ParseTables(js) == Mapped(Those(js, LAMBDA t : t.bytes # Junk), WithoutAdjustment)

\* The directory has room for four to six doublings; fewer than eight tables search in
\* more room than there is.
SearchFields(n) ==
  LET doublings == IF n < 16 THEN 3 ELSE IF n < 32 THEN 4 ELSE IF n < 64 THEN 5 ELSE 6
  IN Short(16 * (2 ^ doublings)) \o Short(doublings) \o Short(16 * n - 16 * (2 ^ doublings))

\* A second table of a tag is dropped; the tables stand in the order of their tags.
TableOffset(kept, j) ==
  12 + 16 * Len(kept) + Len(Flattened(SubSeq(kept, 1, j - 1), LAMBDA t : Aligned(t.bytes)))
HeadOffset_Unset(kept) == TableOffset(kept, 1)
HeadOffset(kept) == TableOffset(kept, CHOOSE j \in DOMAIN kept : kept[j].tag = HeadTag)

BuildFile(tables) ==
  LET kept == ByKey(tables, LAMBDA t : t.tag)
      record(j) == Long(kept[j].tag) \o Long(Total(kept[j].bytes)) \o Long(TableOffset(kept, j))
                     \o Long(Len(kept[j].bytes))
      file == Long(1) \o Short(Len(kept)) \o SearchFields(Len(kept))
                \o FlattenSeq([j \in DOMAIN kept |-> record(j)]) \o Flattened(kept, LAMBDA t : Aligned(t.bytes))
  IN Patched(file, HeadOffset(kept) + 8, Long(Magic - Total(file)))

NumTables(file) == FieldAt(file, 4, 2)
RecordAt(file, j) ==
  LET field(k) == FieldAt(file, 12 + 16 * (j - 1) + 4 * k, 4)
  IN [tag |-> field(0), checksum |-> field(1), offset |-> field(2), length |-> field(3)]
ReadFileTables(file) ==
  LET table(r) == [tag |-> r.tag, bytes |-> SubSeq(file, r.offset + 1, r.offset + r.length)]
  IN [j \in 1..NumTables(file) |-> table(RecordAt(file, j))]

-----------------------------------------------------------------------------
\* Of several tables of a tag the first one counts.
TablesOf(tables) ==
  {<<t.tag, WithoutAdjustment(t).bytes>> : t \in ToSet(FirstOfEach(tables, LAMBDA t : t.tag))}

\* What a file of tables must be, whoever reads it: tables in the order of their tags,
\* on words of four bytes, one after another within the file, each with its sum, and
\* with the adjustment the whole of it adds up to the magic number.
IsSoundFile(file) ==
  LET records == [j \in 1..NumTables(file) |-> RecordAt(file, j)]
      bytes(r) == SubSeq(file, r.offset + 1, r.offset + r.length)
      end(j) == IF j = 0 THEN 12 + 16 * Len(records) ELSE records[j].offset + records[j].length
  IN /\ \A j \in DOMAIN records :
          /\ j > 1 => records[j - 1].tag < records[j].tag
          /\ records[j].offset % 4 = 0 /\ end(j - 1) <= records[j].offset /\ end(j) <= Len(file)
          /\ records[j].checksum = Total(WithoutAdjustment([tag |-> records[j].tag, bytes |-> bytes(records[j])]).bytes)
     /\ Total(file) = Magic

\* A file that was written is one that every reader takes: its tables in order, apart
\* from each other and aligned, and the sums of the tables and of the file right.
FilesAreSound == kind = "sfnt" /\ form = "file" => IsSoundFile(content)

-----------------------------------------------------------------------------
\* What the tables of otfccbuild are: a head among them, of which the adjustment takes
\* the bytes 9 to 12, no more of them than two bytes count, and all of them in a file
\* that four bytes measure.
FitsFile(js) ==
  LET tables == ParseTables(js)
  IN /\ js \in Seq(RawTables)
     /\ Len(tables) < ByteBase * ByteBase
     /\ \E t \in ToSet(FirstOfEach(tables, LAMBDA e : e.tag)) : t.tag = HeadTag /\ Len(t.bytes) >= 12
     /\ Len(BuildFile(tables)) < LongBase

ASSUME FontsFitFiles == "sfnt" \in Kinds => \A js \in JsonOf("sfnt") : FitsFile(js)
=============================================================================
