# otfcc in TLA+

otfcc turns an OpenType font into JSON (`otfccdump`) and JSON into an OpenType
font (`otfccbuild`). This directory holds TLA+ models of the parts of it where
that is hard to get right, the TLC runs that check them and TLAPS proofs about
them. Paths below are relative to the repository.

Both programs are sequential: read, consolidate, write. Nothing is concurrent,
nothing is persisted between two runs and nothing is retried. What is hard is

- rewriting of graphs in place: merging equal blocks or digrams, copying blocks,
  freeing what is merged, while other parts still hold pointers and indexes;
- references by name and by position that must agree while lists shrink;
- merging (of rules, of charstring operators) that must not change meaning;
- formats chosen by size or by content, and read by code that knows each format
  on its own: what one writes the other must understand, up to the last value
  before a format changes;
- limits of the binary format: offsets of 16 bits, 48 operands, 10 levels of
  subroutines;
- loops that run until nothing changes, and walks over references that may be
  circular.

## Inventory

| component | state it keeps | operations | what is hard | what makes it correct |
|---|---|---|---|---|
| block graph serializer, `lib/bk` | blocks and their cells; graph entries with order, height, depth, alias | build graph, minimize, attract, untangle, write | offsets decide copies and copies move offsets; aliases are resolved level by level | the written offsets decode to the tree handed over |
| chaining classifier, `chaining/classifier.c` | three hashes glyph to class, count of compatible rules | extend a group by a rule, write a subtable | a rule that fails half way has already changed the hashes | the same rules match, the same rule first |
| chaining reader and writer, `chaining/{build,read,parse,dump}.c` | rules, class definitions | write coverages or classes, read, take apart | rules of a class-based subtable are kept by first class | the rules read back do the same to every text |
| coverage, class definitions, lookup subtables, `lib/table/otl/{coverage,classdef,subtables}` | lists of glyphs with what becomes of them | parse, consolidate, choose a format, write, read, dump | sorting, duplicates, ranges, matrices of classes | the facts of the JSON are the facts of the font |
| OTL parser, reader, writer, `lib/table/otl/{parse,read,build}.c` | lookups, features, languages, offsets | parse, alias, merge, sort, choose extension, write, read | numbers in the font are places in lists that are sorted | every reference leads to what it named |
| GDEF, BASE | classes, carets, baselines | parse, write, read, dump | omitted parts | the same facts |
| OTL consolidation, `lib/consolidate` | lookups, features, languages, lookup handles | rounds of resolving, filtering and disposing | positions stored in one round are stale in the next; ownership is by list | nothing live lost, no dangling reference, final positions |
| glyph names and order | name to glyph, glyph to name, names inside glyphs, JSON placeholders | naming passes, renaming of clashes, renumbering from JSON | sources of names compete, and suffixes may be taken | one name per glyph, the same numbers after a round trip |
| glyph consolidation, `lib/consolidate/consolidate.c` 33-262 | contours, references, stems, masks | drop what is empty or absent, sort stems and permute masks, resolve anchors | permutations, dependence on the order of glyphs | masks select the same stems, anchors meet |
| glyf and loca | points, flags, references, instructions | write, repeat flags, read | three lists read in step; arguments of two widths | outlines and places read back |
| cmap | characters, selectors | formats 4, 12, 14 | segments that change kind half way | every character reads back |
| CFF table | dictionaries, indexes, texts, charset, FDSelect | lay out, patch, read | offsets that depend on each other's sizes | offsets lead to their parts |
| CFF subroutinizer, `lib/libcff/subr.c` | rings of nodes, reference counts, digram index | append, substitute, dissolve, number, inline | the index points into rings that change | the grammar yields its input, the charstrings read the same |
| charstring writer and reader | instruction list; argument stack, stems, outline being read | compile, roll, decide how far, interpret | rolls that combine; masks placed by point counts | what is read is what was compiled |
| glyph statistics, `stat.c` 10-157 | mark of each glyph, call stack, stats | walk references, sum up, take maxima | circles, nested transformations | boxes and counts of what is drawn |
| metrics, `stat.c` 159-260, 519-600 | hmtx, vmtx, VORG, CFF widths | cut equal advances, choose defaults | off-by-one at the cut | advances and origins read back |
| colours, names, gasp, TSI, SVG, meta, VDMX | records, texts, documents | parse, write, read, dump | indexes into pools, conversions of text | the same facts, settled dumps |
| sfnt container | tables, directory, sums | write, read | padding, a sum that includes itself | files add up, tables read back |
| variations, flat tables, OS/2, TrueType instructions, buffers, logger, command line | fields of records | read, write | nothing that lasts | fields read back |

How they interact. A reader (`otf-reader.c` or `json-reader.c`) fills one
`otfcc_Font`. Its parts refer to glyphs and lookups by *handles*, which are a
name, a position, or both once consolidated. `otfcc_consolidateFont` settles
glyph names, then every part's references, then OTL tables round by round. The
JSON writer dumps names only. The binary writer first takes statistics
(`stat.c`), then has every table build blocks, which `lib/bk` serializes; CFF
outlines go through the charstring compiler and the subroutinizer. `PROJECT.json`
lists all components with their sources, and under `hazards` the lines where
each of these difficulties bites.

## Modules

The algorithms that keep a state over many steps are state machines of their own:

| module | models | run |
|---|---|---|
| `BkCells`, `BkGraph`, `BlockMeaning`, `MCBkGraph` | `lib/bk`, and the abstract rewriting it implements | `block_graph` |
| `ChainingClassifier`, `ChainingLookup`, `MCChainingLookup` | the classifier, and its composition with the writer and reader of chaining subtables | `contexts`, `last_rule` |
| `OtlConsolidate`, `MCOtlConsolidate` | consolidation of GSUB/GPOS, and the indexes that `otl/build.c` writes | `consolidate`, `required_feature` |
| `GlyphNames`, `MCGlyphNames` | naming, consolidation and renumbering of glyphs | `glyph_names` |
| `CffSubroutines`, `MCCffSubroutines` | the subroutinizer | `subroutines` |
| `CharstringIL`, `MCCharstringIL` | writer, optimizer and reader of charstrings | `charstrings` |
| `GlyphStat`, `MCGlyphStat` | bounding boxes and `maxp` counts | `glyph_stat` |
| `*_proofs` | the theorems, each module beside the one it is about | |
| `OrderLemmas` | what the proofs share: induction, recursive functions, folds | |

Tables are pure functions from one form of a table to the next, and one machine,
`RoundTrip`, drives them round the circle of the two programs:

| module | models |
|---|---|
| `RoundTrip` | `otfccbuild` and `otfccdump` one after the other on one table: parse, consolidate, write, read, consolidate, dump, again and again; the table's code is a parameter |
| `FontTables`, `MCFontTables` | which code that is for each kind of table, and the inputs |
| `JsonValues` | what JSON may hold instead of what is expected |
| `OtlGlyphSets` | coverage, class definitions and handles; blocks of words and pointers |
| `GsubSubtables`, `GposSubtables`, `ChainingSubtables` | every subtable of lookups |
| `OtlTables` | GDEF and BASE |
| `OtlMeaning` | what the JSON of a layout table says and what the table says |
| `OtlLists` | lookups, features, languages; aliases; extension lookups |
| `CmapTable`, `ColorTables`, `SimpleTables`, `TextEncoding`, `DocumentTables` | cmap; COLR, CPAL; name, gasp, TSI; UTF-8, UTF-16, base64; SVG, meta, VDMX |
| `GlyfTable`, `Metrics`, `GlyphHints` | glyf and loca with consolidation of references; hmtx, vmtx, VORG and CFF widths; stems and masks |
| `CffTable` | the CFF table, byte by byte |
| `SfntContainer` | the file |

**BkGraph** has one action per function of the pipeline; `bk_minimizeGraph` and
`bk_untangleGraph` loop, so they have one action per iteration. Block numbers
stand for addresses. `MeaningKept` is the refinement: `BlockMeaning` knows only
heaps of blocks, and allows a step that redirects a pointer between blocks with
equal cells or to a copy; every pass of the pipeline is such a step, with
`from` and `matches` as the history that shows it. `OutputDecodes` reads the
written bytes from offset 0 and finds the tree handed over, unless the limit of
passes ended the loop with pointers that do not fit, which the code does not
report; `BkGraph_proofs` shows the same for every tree. Left out: the hash of `compareEntry`, which only skips comparisons, the
growth of arrays, and the size estimate.

**ChainingClassifier** steps through rules and, inside `tryClassifyAround`,
through positions of a rule, so a group can end in the middle of one. A hash from
glyphs to classes is a function. **ChainingLookup** writes each group when it is
made and reads the file back; `SameEffect` compares, for every text over the
glyphs, what the rules of the lookup and the rules read back do.
The test at classifier.c:226 that skips subtables already classified is not
modelled: consolidation hands over unclassified ones.

**RoundTrip** and the table modules. A table in JSON is a record or a sequence of
entries in which a value of the wrong type is `Junk`; what is written is a
sequence of words, bytes or blocks (`W`, `P`: `lib/bk` turns the pointers of
blocks into offsets, which `BkGraph` is about). For every table there are a set
of facts the JSON *intends* and a set of facts a consolidated table *states*,
each defined without the other and without the code between them. `MeaningKept`
says they are equal on the way into the font and on every way back; `DumpsSettle`
that the dump of a font built from a dump is that dump. A table that the code gives
up (no entry left, a reader that returns nothing) must have had nothing to say.
`AnchorsMeet` walks the outlines of glyphs with anchored references, and
`FilesAreSound` adds up the sums of a file as another program would; `SfntContainer_proofs`
shows it for every list of tables that fits a file.

**OtlConsolidate** has an action per phase of a round. Lists are only ever
filtered, so a list is the set of its members and a position is a rank; a lookup
that no list holds is disposed of. `ExactResult` says what remains is the
greatest set that supports itself; `ReadBack` follows the written positions.
A subtable that is not a chaining rule is reduced to whether anything is left
of it; what is left is in the subtable modules.

**GlyphNames** follows `createGlyphOrder` pass by pass, the loop of
`otfcc_consolidateFont` over glyphs, and the numbering from JSON. A name is a
base with numbers appended, since the code makes names only that way. The names
the passes gave stay in `order` after the code has freed them, so that `SettledInTurn`
can say what became of each: clashes are settled as a greedy choice would settle
them, from the first glyph on.

**CffSubroutines** keeps the graph of the C code: doubly linked rings with a guard
per rule, an index from digrams to nodes. Functions of the file are operators on
graphs, one action appends one node, and `undefined` is set when a freed node is
used. Properties are stated for graphs where that has not happened.

**CharstringIL** compiles in `Init`, since the compiler has no choices; every
roll is a step, and after each the list is read by the model of the reader. The
charstring may be read after any roll because each roll alone has to keep what
is drawn.

**GlyphStat** turns the recursion of `stat_single_glyph` into a stack of frames; one
step is a call, a return or a reference that is dropped. Points have one
coordinate, as both are computed alike, so a transformation is a scale and an
offset.

**CffTable** lays the parts of the table out as `writecff_CIDKeyed` does, patches
the lengths and offsets of the private dictionaries afterwards, and reads the bytes
with the code of the reader, which follows the offsets. A charstring is opaque but
for the call of a subroutine that may end it.

## Runs and bounds

| run | instances | why they are enough |
|---|---|---|
| `block_graph` | all trees of 5 blocks with two payloads, 4 chains of length 2, 3 extension lookups; offsets up to 12, 4 passes | payloads repeat, so blocks merge and become shared; 12 bytes are outgrown by trees of 5 blocks, so blocks are copied, twice in a pass; some trees end at the limit of passes |
| `contexts` | 3 glyphs of 4, up to 4 rules, up to two glyphs before and one after or beside the input | three rules make a group; the fourth starts or ends one; overlapping coverages fail early, late and after half a rule; rules come back in another order than they were written in |
| `tables` | 29 kinds, each with every combination of a few values per field: known, repeated and unknown glyphs, missing and wrong values, lists of up to three entries, all subsets of 8 glyphs where coverages and classes choose a format | both formats of every choice are written, each with its boundary on either side |
| `consolidate` | 3 lookups, up to two rules in the first, handles by name, by position, unknown and empty, 2 features, 2 languages | a chain of removals as long as the list, positions that move twice |
| `glyph_names` | 3 glyphs, all assignments of 7 names, 3 `post` tables, 2 `cmap` tables, hashes alike or not, 4 naming modes | every source of names meets every other; suffixed and `$$gid` names are taken before they are needed, or given to one glyph before another that has them as its own |
| `subroutines` | all sequences of up to 11 nodes over 3 units; 1 subroutine per index, 2 levels | rules are made, reused, dissolved; both limits are reached |
| `charstrings` | all sequences of 3 curves and lines with every pattern of zeros that rolls look for, runs of 14 lines; 2 stems in a direction, 2 hint masks and a counter mask at any place; stack of 12 for 48 | a roll needs two operators and the third may roll into the result; 12 operands are two curves, so rolls both fit and are refused |
| `glyph_stat` | 3 glyphs, all graphs of up to 2 references each, the first with 1; depth 4 for 255 | circles of every length, a glyph used twice, a glyph that refers to itself twice, and the limit of depth reached by re-entered circles |

Limits of the formats are constants, given in `MCFontTables.cfg` small enough to be
crossed:

| constant | in the code | in the run |
|---|---|---|
| `Format4Limit` | 64 KiB of a cmap subtable of format 4 | 64 bytes |
| `RangeLimit` | 255 selectors more in a range of format 14 | 2 |
| `LongText` | 0x8000 bytes, from which TSI writes its length elsewhere | 3 |
| `RepeatLimit` | a flag repeated 0xFE times | 2 |
| `LocaLimit` | 0x20000 bytes of outlines before loca is long | 48 |
| `LargeSubtables`, `ListLimit` | 4096 bytes, and offsets of 0xFF00, before lookups are extended | 40, 100 |
| `MaxStatMetric` | advances counted for the nominal width, 4096 | 6 |
| `ByteBase`, `Magic` | bytes of 256 and the sum 0xB1B0AFBA in `SfntContainer` | 16 and 0xB0EF |

`ShortDelta` (255), and every bound of numbers in CFF dictionaries, are the real ones.

Every property has a mutant: an operator `X_...` beside a definition `X` that
changes it as a slip in the code would, with which TLC finds the property
violated. The definitions named so are used by nothing else.

`CHECK_DEADLOCK FALSE` is set for the subroutinizer and the charstrings, whose input
is bounded and which stop when it is used up, and for tables, of which one that was
given up goes no further. The other modules have a step `Done` that stutters when
the code returns.

Fairness. `FairSpec` is weak fairness of the next-state relation: a sequential
function that is called runs on to its end. Only termination is stated under it
(`Terminates` of consolidation, naming and statistics), and nothing is assumed
about the choice between steps: there is none.

Configurations leave out what is known not to hold, each in its own run or noted in
the next section: masks over stems whose order is a longer cycle, two masks at one
place, stems that do not fit, vertical stems alone, contours of a single point or
drawn back to the first one in `charstrings`; references nested inside scaled ones in
`glyph_stat` (`BoxExact` and `CountsExact` are for fonts without circles);
references anchored to points of other anchored ones, characters beyond U+FFFF in
names, texts of a CFF font that are also names of glyphs, short integers in
dictionaries and base64 documents in `tables`.

## What the code does otherwise than it says

Shown by a run, with the line that is contradicted quoted in `PROJECT.json`:

- `required_feature`: a language keeps a pointer to a required feature that
  consolidation has freed (`lib/consolidate/consolidate.c:387`); the dump reads
  its name.
- `last_rule`: a class-based contextual rule at the end of a table is refused by the
  reader, whose check asks for one class more than such a rule has, and
  unconsolidation follows the null pointer (`chaining/read.c:92`).
- `short_integers`: the two bytes after 28 are read without their sign
  (`lib/libcff/cff-codecs.c:187`).
- `base64_documents`: a base64 document is not decoded when parsed, so every trip
  encodes it again (`lib/table/SVG.c:109`).

Met while modelling, where the models take the code's side or leave the case out:

- `lib/libcff/subr.c:311`: three equal units in a row make two digrams that share a
  node; the second is replaced after its node was freed.
- `lib/libcff/cff-parser.c:394`: vertical stems alone, rolled into a mask, come back
  horizontal. The compiler counts stems against the operand limit, though each is two
  operands (`lib/libcff/charstring-il.c:119`), and where it starts a new operator for
  stems that do not fit, that is `hstem` for vertical ones too (line 121).
- `lib/otf-writer/stat.c:65`: offsets of nested references are composed the wrong way
  round, so boxes are wrong once a scale is involved. A circle clears the mark of a
  glyph still being measured (`stat.c:23`), so a second reference to itself measures
  it again; with three, the number of calls doubles with each of the 255 levels.
- `lib/consolidate/consolidate.c:95`: bits of masks are permuted backwards, which shows
  for cycles of three stems; masks keep the number of contours before them when empty
  contours go; masks shorter than the stems are read past their end. Lines 170-208:
  points are counted through anchored references that are not settled, and two
  transformations are composed in the other order than the writer's.
- `lib/table/otl/parse.c:134`: a lookup aliased by a string is freed twice.
  `otl/build.c:128`: the room left by the header is computed unsigned and wraps above
  0xFF00.
- `chaining`: `covOffset` is 16 bits wide (`read.c:129`, `306`); `inputBegins` may be
  greater than `inputEnds`; an `apply` before `inputBegins` wraps in 16 bits and is
  restored by the reader; an unknown glyph of a reverse substitution becomes glyph 0
  though "Ignored missing glyph" is logged.
- `gpos_pair`: the individual and the class format are not equivalent when the first
  column of the matrix is not zero; the class reader takes in glyphs outside the
  coverage; the greatest class is not lowered with the glyphs that go
  (`gpos-pair.c:149`), so the reader refuses what was written.
- A ligature with an unknown component gets shorter. Negative carets are read unsigned
  (`GDEF.c:53`). Unused classes of marks go on the second dump.
- CPAL version 1: the reader adds the array offsets to other places than the builder
  (`CPAL.c:80`, `87`, `96` and `273`), and the label is parsed from `type`. COLR keeps
  an empty mapping though it logs that it does not.
- cmap: U+FFFF is lost in format 4; an unknown glyph becomes glyph 0 though "Ignored
  mapping" is logged; selectors without characters are lost; the stub maps U+0000 to
  glyph 0; format 14 asks for 11 bytes too many.
- Characters beyond U+FFFF in names are encoded with wrong surrogates
  (`unicodeconv.c:247`). `name.c:178` reads a length `base64_decode` does not set.
- gvar: wide point numbers in the wrong byte order (`glyf/read.c:318`). glyf: a matrix
  entry of 2 wraps, and so do distances beyond 16 bits; a glyph with contours loses its
  references, an empty one its instructions.
- CFF: the charset assumes that names of glyphs have consecutive numbers
  (`CFF.c:1153`); `cidRegistry` without an FDArray reads as CID; an empty FDArray
  crashes the reader; `cff_make_fdselect` compares with `>` and keeps 8 bits.
  `horizontalOrigin`, `yPel` and gasp of CFF fonts are not read back.
- Two default languages, `DFLT` and `dflt`: the last wins; a language without features
  is dropped when parsed. VDMX without `ratios` follows a null pointer. The reader of
  collections walks every font by the table count of the first (`caryll-sfnt.c:23`).

## What is proved

For every value of the constants, under the assumptions the modules name:

| theorem | says | argument |
|---|---|---|
| `BkGraph_proofs!MeaningIsPreserved` | rewriting steps, in any order and number, leave what the graph stands for | the relation `matches` is a simulation of the input; a step composes it with the relation of copies |
| `BkGraph_proofs!TypeCorrect` (`GraphTypeOK`), `MinimizeIsComplete` | the graph stays closed and within the limit of passes; after `bk_minimizeGraph` no two blocks that the root reaches are equal | `IInv`: blocks have ranks along which links lead down (`Typed`), heights separate levels and the root is alone on the highest (`ByLevel`), and the aliases of the level in work lead to blocks that differ (`Merged`) |
| `BkGraph_proofs!PipelineKeepsMeaning`, `GraphMeansTree` | the serializer implements `BlockMeaning`, so at every step the graph stands for the tree handed over | each level merged and each pass of untangling is a rewriting step, with the history of copies (`Copying`) as its witness, every other action a stutter; `MeaningIsPreserved` then speaks of it |
| `BkGraph_proofs!LayoutDecodes`, `NarrowTablesDecode` | when the last pass copied nothing, the written bytes decode to the tree handed over: for heaps of 16-bit pointers always, for others as long as their 32-bit pointers fit (`WideLinksFit`) | `LayoutInv`: the blocks laid out are what the root reaches, the root first, and a pass that adds no entry leaves every 16-bit pointer fitting; offsets are sums of the sizes before, so no cell is written over another; then induction over the tree from its last block on, along `matches` |
| `ChainingLookup_proofs!TypeIsCorrect`, `ClassesStayExact`, `RulesStayInOrder`, `MatchIsPreserved` | classes are exactly the coverages accepted, no rule is lost or doubled, a merged rule matches what its source does | one inductive invariant, `TypeOK`, `Loop`, `ClassesExact`, `RulesInOrder` and `Merged`: where the scan stands, and that the class a written rule names at a position is the rule's coverage there |
| `OtlGlyphSets_proofs!CoverageReadBack`, `ClassDefReadBack` | a coverage reads back as the same glyphs, and a class definition that puts no glyph in two classes as the same definition without class 0, in either format | the entries of format 2 are the maximal runs of the sorted glyphs: they cover every glyph, do not overlap and are at most as many as the glyphs, so counts and bounds fit 16 bits; a reader that takes the ranges apart gets each glyph once |
| `ChainingLookup_proofs!LookupClassifies`, `SameEffectHolds` | the lookup on its way is a run of the classifier; the rules read back do to every text what the rules of the lookup do | `LookupInv`: `IInv` of the classifier, `Room` (each class has a glyph of its own, so class numbers fit words), `Filed` (the groups are whole and the file is what was written of them) and `SameEffect`; see below |
| `SfntContainer_proofs!FileReadBack`, `FilesAreSoundHolds`, `FilesKeepTables` | a file that is written has its tables in order, apart and on words, every sum right and the magic number as the sum of the whole; what is read from it says what was handed over, however often it goes round, and is written again to the same bytes | digits of a number, taken apart and put together, are the number modulo the word size, so sums can be split at any word; the directory leads to running sums of padded lengths; a patch of a word that was zero adds just that word to the sum; tables in the order of their tags stay as they are when the builder takes them again. `FilesInv` names the two lists, the file and the list read from it that a font goes through |
| `OtlConsolidate_proofs!ReferencesStayAlive`, `NothingLiveIsLost` | references of features and languages lead to objects that exist; a lookup in use is never removed | `RefsInv`: what each filter has left when the disposal comes; `LiveInv`: every live lookup is listed with a rule that works with live lookups, and a position is resolved before the first lookup is removed |
| `OtlConsolidate_proofs!ResultIsExact`, `WrittenTableReadsBack` | what remains is exactly the greatest set of lookups that supports itself, with the references to it; every written position leads to what it was written for | a round that changes nothing leaves a set that supports itself, which the greatest one contains; positions in a filtered list are ranks, and an order of a finite set has one object of each rank |
| `GlyphNames_proofs!NamesAreUnique`, `OrderMatchesGlyphs` | consolidated names are unique and agree with the glyphs' | `NamesInv`: all glyphs before the loop's are entered, all have a name, one glyph per name, and both copies of a name agree |
| `GlyphNames_proofs!ClashesSettleInTurn` | a glyph loses the name `createGlyphOrder` gave it only to an earlier glyph, and gets the least suffix that is free, at most one more than its place | `SettleInv`: glyphs still to come bear the names of the passes, and every name tried for the glyph in work is another glyph's; names with different suffixes differ (`TriesDiffer`), so there are no more such names than glyphs (`TakenAreFew`, by the pigeonhole principle). `OrderInv`: what the passes give are names, the ones made of hashes among them, whose own search `HashNameIsFree` shows to end |
| `GlyphNames_proofs!OwnNamesStay`, `NumbersComeBack` | names of their own that differ are all kept; dumping and rebuilding gives each glyph its number back | in such a font the first pass enters each glyph under its own name; entries sorted by order and unique names make the numbering from JSON the inverse of the dump |
| `GlyphStat_proofs!Typed`, `NoMarkLeft` | the walk stays within its depth and the references of each glyph; a glyph is marked only while a call for it is open | every open call but the last waits for a reference that exists, and each mark has its frame; a return takes away both |
| `GlyphStat_proofs!BoxesAreExact`, `CountsAreExact`, `TablesHaveRoom` | boxes, counts and depths are those of what is drawn, `maxp` and `head` cover every glyph | `MeasureInv`: each open call has measured what its glyph draws before its next reference, under the transformation it was called with, and ranks fall along the stack, so no call ends early; `TablesInv`: the maxima cover the glyphs already counted |

None of these properties is inductive alone: `MatchPreserved` needs exact classes and
the position of the scan, uniqueness of names needs that glyphs not yet reached are
not entered, `RefsAlive` needs what the filters left, `LiveKept` that positions are
resolved in the first round, `DoingIsOpen` the shape of the stack, `BoxExact` what
every call on it has done so far, and minimality that an alias leads to a block already
judged, `OutputDecodes` that nothing reachable is left out of the layout, `SameEffect`
that the file holds what the classifier made and that class numbers did not wrap.

`SameEffect` joins four arguments. Class definitions and coverages read back as they
were written (`OtlGlyphSets_proofs`). A rule, written by coverages or by classes and read
back, says what its source says: as many positions, the same glyphs at each, the same
places and lookups applied. The class sets of a subtable give back every rule of its
group once, ordered by the class of the first input glyph; two rules that change places
are in different classes, so no glyph starts both. Of two lists of rules that differ
only in such changes of place, the first rule that matches a place of a text is the
same, and along the text the same applications follow. `RulesInOrder` then says that
the groups together are the lookup.

`OutputDecodes` is proved under `WideLinksFit`: a 32-bit pointer that is written leads
forward, by less than 2^32. Nothing in `lib/bk` checks this. `try_untangle` looks at
16-bit pointers only, and `dfs_attract_cells`, which should order a block before what it
points to, raises the depth of a block it has seen before but not of what hangs below
it. The trees of the run with 32-bit pointers all decode; that every tree of extension
lookups is ordered so is not proved. Heaps without 32-bit pointers (`HeapsAreNarrow`)
need no condition: GDEF, BASE, VDMX, and GSUB and GPOS whose lookups need no extension.

What the code and the properties compute by recursion over data (heights of blocks,
the points a glyph draws, names in a list, maxima) is written with recursive functions
and folds. `OrderLemmas` shows, from the library's facts about natural numbers, finite
sets and sequences, that a function which recurs to a lower rank, to the next number or
along a fold solves its equations (`RecursionSolves`, `ChainSolves`, `FoldSolves`).
Induction is done there over sets of ranks and of sequences, since an operator cannot be
passed to a theorem; a proof then names the set of things that have what it is to show.

The assumptions are the `ASSUME`s of the modules, which say what the inputs are: fonts,
tables and rules that refer to what they hold, in the sizes of natural numbers. TLC
evaluates them in every run. Six are worth knowing:

- A heap handed to `lib/bk` numbers its blocks so that pointers lead to later ones, and
  `NULL` is none of them. The builders make a block only from finished ones, so such
  a numbering exists.
- No pointer handed to `lib/bk` is compact (`sp16`, `sp32`) yet, and what a 16-bit
  pointer leads to has a cell (`HeapsArePlain`). No builder makes compact pointers;
  only `try_untangle` does (`sp16`). And each of those blocks begins with a format or a
  count, while the texts and arrays that may be empty (SVG, meta, COLR, CPAL) are behind
  32-bit pointers. An empty block has the place of the next one, so a pointer to it could be
  one of length 0, which reads as null.
- Fewer than 65535 glyphs occur in the rules of a chaining lookup, and it has fewer than
  65536 rules of fewer than 65536 positions (`CountsFitWords`). The classifier gives a class
  to as many coverages as differ, and writes their number, class 0 included, in 16 bits:
  with a font of 65535 glyphs, each a class, the count of class sets would be 0.
- A table has at most 65535 features, the range of the indexes that are written and the
  value that stands for none.
- Tables that go into a file (`FitsFile`) have a head of twelve bytes or more, which
  `parseHead` always makes; they are fewer than 65536, in a file shorter than 2^32 bytes,
  and the first byte of a tag is below 128, as in all text. `byTag` subtracts tags as
  signed numbers, which would sort others wrongly.
- `BoxExact` and `TablesCover` speak of fonts in which a reference that is scaled is not
  nested with another (`ScalesApart`), for elsewhere `stat.c:65` composes them the wrong
  way round. They are conditions of the properties, not assumptions.

Only model-checked: that the bytes `lib/bk` writes decode where 32-bit pointers might not
fit, `TypeOK` of `RoundTrip`, which says nothing of what the tables do, all of `CffSubroutines` and `CharstringIL`, whose
algorithms are `RECURSIVE` operators, `MeaningKept` and `DumpsSettle` of the 28 kinds of
tables in `FontTables` other than the file, which are folds and conversions,
`AnchorsMeet`, which needs the recursion of glyf, and termination, which needs
fairness and `ENABLED`. The theorems about files have as a premise that the operations of
`RoundTrip` are those of `SfntContainer` for this kind (`IsOfFiles`); `FontTables`, where
they are, reaches `RECURSIVE` operators, so the premise is read off there and not proved.

## What is not modelled

- Variation values: sums of reals over regions; gvar is read and never written.
- OS/2 and head statistics: bits and averages over one pass, no state that lasts.
- Flat tables (`head`, `hhea`, `maxp`, `post`, `OS/2`, `cvt`, `fpgm`, `hdmx`, `LTSH`,
  `vhea`, ...): the fields of one record in one order.
- TrueType instructions: a table of mnemonics and a scanner of text.
- Format 1 of chaining and contextual subtables, encodings and charsets of CFF, flex and
  arithmetic operators of charstrings: read, never written, by this program.
- Fractions (font matrices, `blueScale`, scales of references beyond whole numbers),
  buffers, vectors, logger, options, and the vendored libraries under `dep/`.

What could be added: what keeps 32-bit pointers of `BkGraph` in order, proofs about
`OtlLists` (the extension choice), and the readers of formats the program never writes.
