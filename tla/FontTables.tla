------------------------------ MODULE FontTables ------------------------------
(***************************************************************************)
(* Every table that otfccbuild writes from JSON and otfccdump reads back,  *)
(* by the code of its own: the operations of RoundTrip.  The calls stand   *)
(* in lib/json-reader/json-reader.c, lib/consolidate/consolidate.c,        *)
(* lib/otf-writer/otf-writer.c, lib/otf-reader/otf-reader.c and            *)
(* lib/json-writer/json-writer.c.                                          *)
(***************************************************************************)
EXTENDS OtlMeaning, CmapTable, ColorTables, SimpleTables, GlyfTable, Metrics, OtlLists, CffTable, GlyphHints, DocumentTables,
        SfntContainer, RoundTrip

\* Layout tables and subtables: the type of its lookup decides which code a subtable
\* goes through, in lib/table/otl/parse.c, build.c, read.c and dump.c.
ParseTable(k, js) ==
  CASE k \in {"gsub_single", "gsub_vert"} -> ParseSingle(js)
    [] k = "gsub_multiple" -> ParseMulti(js)
    [] k = "gsub_ligature" -> ParseLigature(js)
    [] k = "gsub_reverse" -> ParseReverse(js)
    [] k = "chaining" -> ParseChaining(js)
    [] k = "gpos_single" -> ParseGposSingle(js)
    [] k = "gpos_cursive" -> ParseCursive(js)
    [] k = "gpos_pair" -> ParsePair(js)
    [] k = "gpos_mark_to_base" -> ParseMarkToSingle(js)
    [] k = "gpos_mark_to_ligature" -> ParseMarkToLigature(js)
    [] k = "GDEF" -> ParseGDEF(js)
    [] k = "BASE" -> ParseBASE(js)

ConsolidateTable(k, t) ==
  CASE k \in {"gsub_single", "gsub_vert"} -> ConsolidateSingle(t)
    [] k = "gsub_multiple" -> ConsolidateMulti(t)
    [] k = "gsub_ligature" -> ConsolidateLigature(t)
    [] k = "gsub_reverse" -> ConsolidateReverse(t)
    [] k = "chaining" -> ConsolidateChaining(t)
    [] k \in {"gpos_single", "gpos_cursive"} -> ConsolidateTargets(t)
    [] k = "gpos_pair" -> ConsolidatePair(t)
    [] k \in {"gpos_mark_to_base", "gpos_mark_to_ligature"} -> ConsolidateMarkToAny(t)
    [] k = "GDEF" -> ConsolidateGDEF(t)
    [] k = "BASE" -> t

BuildTable(k, t) ==
  CASE k \in {"gsub_single", "gsub_vert"} -> BuildSingle(t, k = "gsub_vert")
    [] k = "gsub_multiple" -> BuildMulti(t)
    [] k = "gsub_ligature" -> BuildLigature(t)
    [] k = "gsub_reverse" -> BuildReverse(t)
    [] k = "chaining" -> [contextual |-> IsContextual(<<t>>),
                          subtable |-> BuildChainingCoverage(t, IsContextual(<<t>>))]
    [] k = "gpos_single" -> BuildGposSingle(t)
    [] k = "gpos_cursive" -> BuildCursive(t)
    [] k = "gpos_pair" -> BuildPair(t)
    [] k = "gpos_mark_to_base" -> BuildMarkToSingle(t)
    [] k = "gpos_mark_to_ligature" -> BuildMarkToLigature(t)
    [] k = "GDEF" -> BuildGDEF(t)
    [] k = "BASE" -> BuildBASE(t)

ReadTable(k, b) ==
  CASE k \in {"gsub_single", "gsub_vert"} -> ReadSingle(b)
    [] k = "gsub_multiple" -> ReadMulti(b)
    [] k = "gsub_ligature" -> ReadLigature(b)
    [] k = "gsub_reverse" -> ReadReverse(b)
    [] k = "chaining" -> Head(ReadChaining(b.subtable, b.contextual))
    [] k = "gpos_single" -> ReadGposSingle(b)
    [] k = "gpos_cursive" -> ReadCursive(b)
    [] k = "gpos_pair" -> ReadPair(b)
    [] k = "gpos_mark_to_base" -> ReadMarkToSingle(b)
    [] k = "gpos_mark_to_ligature" -> ReadMarkToLigature(b)
    [] k = "GDEF" -> ReadGDEF(b)
    [] k = "BASE" -> ReadBASE(b)

DumpTable(k, t) ==
  CASE k \in {"gsub_single", "gsub_vert"} -> DumpSingle(t)
    [] k = "gsub_multiple" -> DumpMulti(t)
    [] k = "gsub_ligature" -> DumpLigature(t)
    [] k = "gsub_reverse" -> DumpReverse(t)
    [] k = "chaining" -> DumpChaining(t)
    [] k = "gpos_single" -> DumpGposSingle(t)
    [] k = "gpos_cursive" -> DumpCursive(t)
    [] k = "gpos_pair" -> DumpPair(t)
    [] k = "gpos_mark_to_base" -> DumpMarkToSingle(t)
    [] k = "gpos_mark_to_ligature" -> DumpMarkToLigature(t)
    [] k = "GDEF" -> DumpGDEF(t)
    [] k = "BASE" -> DumpBASE(t)

-----------------------------------------------------------------------------
\* Every table.
ParseAny(k, js) ==
  CASE k = "glyf" -> ParseGlyf(js)
    [] k = "metrics" -> ParseMetrics(js)
    [] k = "lists" -> ParseLists(js)
    [] k = "hints" -> ParseHints(js)
    [] k = "SVG" -> ParseSVG(js)
    [] k = "meta" -> ParseMeta(js)
    [] k = "VDMX" -> ParseVDMX(js)
    [] k = "sfnt" -> ParseTables(js)
    [] k = "CFF" -> ParseCff(js)
    [] k = "cmap" -> ParseCmap(js)
    [] k = "COLR" -> ParseCOLR(js)
    [] k = "CPAL" -> ParseCPAL(js)
    [] k = "name" -> ParseName(js)
    [] k = "gasp" -> ParseGasp(js)
    [] k \in {"TSI_01", "TSI_23"} -> ParseTSI(js)
    [] OTHER -> ParseTable(k, js)

ConsolidateAny(k, t) ==
  CASE k = "glyf" -> ConsolidateGlyf(t)
    [] k = "lists" -> ConsolidateLists(t)
    [] k = "hints" -> ConsolidateHints(t)
    [] k = "CFF" -> ConsolidateCff(t)
    [] k = "cmap" -> ConsolidateCmap(t)
    [] k = "COLR" -> ConsolidateCOLR(t)
    [] k \in {"CPAL", "name", "gasp", "metrics", "SVG", "meta", "VDMX", "sfnt"} -> t
    [] k \in {"TSI_01", "TSI_23"} -> ConsolidateTSI(t)
    [] OTHER -> ConsolidateTable(k, t)

BuildAny(k, t) ==
  CASE k = "glyf" -> BuildGlyf(t)
    [] k = "metrics" -> BuildMetrics(t)
    [] k = "lists" -> BuildLists(t)
    [] k = "hints" -> BuildHints(t)
    [] k = "SVG" -> BuildSVG(t)
    [] k = "meta" -> BuildMeta(t)
    [] k = "VDMX" -> BuildVDMX(t)
    [] k = "sfnt" -> BuildFile(t)
    [] k = "CFF" -> BuildCff(t)
    [] k = "cmap" -> BuildCmap(t)
    [] k = "COLR" -> BuildCOLR(t)
    [] k = "CPAL" -> BuildCPAL(t)
    [] k = "name" -> BuildName(t)
    [] k = "gasp" -> BuildGasp(t)
    [] k \in {"TSI_01", "TSI_23"} -> BuildTSI(t)
    [] OTHER -> BuildTable(k, t)

ReadAny(k, f) ==
  CASE k = "glyf" -> ReadGlyf(f)
    [] k = "metrics" -> ReadMetrics(f)
    [] k = "lists" -> ReadLists(f)
    [] k = "hints" -> ReadHints(f)
    [] k = "SVG" -> ReadSVG(f)
    [] k = "meta" -> ReadMeta(f)
    [] k = "VDMX" -> ReadVDMX(f)
    [] k = "sfnt" -> ReadFileTables(f)
    [] k = "CFF" -> ReadCff(f)
    [] k = "cmap" -> ReadCmap(f)
    [] k = "COLR" -> ReadCOLR(f)
    [] k = "CPAL" -> ReadCPAL(f)
    [] k = "name" -> ReadName(f)
    [] k = "gasp" -> ReadGasp(f)
    [] k = "TSI_01" -> ReadTSI(f, FALSE)
    [] k = "TSI_23" -> ReadTSI(f, TRUE)
    [] OTHER -> ReadTable(k, f)

DumpAny(k, t) ==
  CASE k = "glyf" -> DumpGlyf(t)
    [] k = "metrics" -> DumpMetrics(t)
    [] k = "lists" -> DumpLists(t)
    [] k = "hints" -> DumpHints(t)
    [] k = "SVG" -> DumpSVG(t)
    [] k = "meta" -> DumpMeta(t)
    [] k = "CFF" -> DumpCff(t)
    [] k = "cmap" -> DumpCmap(t)
    [] k = "COLR" -> DumpCOLR(t)
    [] k = "CPAL" -> DumpCPAL(t)
    [] k \in {"name", "gasp", "VDMX", "sfnt"} -> t
    [] k \in {"TSI_01", "TSI_23"} -> DumpTSI(t)
    [] OTHER -> DumpTable(k, t)

-----------------------------------------------------------------------------
FactsOf(k, t) ==
  CASE k = "glyf" -> OutlinesOf(t)
    [] k = "metrics" -> MetricsOf(t)
    [] k = "lists" -> ListsOf(t)
    [] k = "hints" -> HintsOf(t)
    [] k = "SVG" -> DocumentsOf(t)
    [] k = "meta" -> DataOf(t)
    [] k = "VDMX" -> HeightsOf(t)
    [] k = "sfnt" -> TablesOf(t)
    [] k = "CFF" -> OutlinedBy(t)
    [] k = "cmap" -> MeaningOfCmap(t)
    [] k = "COLR" -> LayersOf(t)
    [] k = "CPAL" -> ColorsOf(t)
    [] k = "name" -> NamesOf(t)
    [] k = "gasp" -> BehaviorsOf(t)
    [] k \in {"TSI_01", "TSI_23"} -> TextsOf(t)
    [] OTHER -> MeaningOf(k, t)

FactsMeant(k, js) ==
  CASE k = "glyf" -> IntendedOutlines(js)
    [] k = "metrics" -> IntendedMetrics(js)
    [] k = "lists" -> IntendedLists(js)
    [] k = "hints" -> IntendedHints(js)
    [] k = "SVG" -> IntendedDocuments(js)
    [] k = "meta" -> IntendedData(js)
    [] k = "VDMX" -> IntendedHeights(js)
    [] k = "sfnt" -> TablesOf(ParseTables(js))
    [] k = "CFF" -> IntendedCff(js)
    [] k = "cmap" -> IntendedCmap(js)
    [] k = "COLR" -> IntendedLayers(js)
    [] k = "CPAL" -> IntendedColors(js)
    [] k = "name" -> IntendedNames(js)
    [] k = "gasp" -> IntendedBehaviors(js)
    [] k \in {"TSI_01", "TSI_23"} -> IntendedTexts(js)
    [] OTHER -> IntendedBy(k, js)

\* An anchored reference read from a font is put where its two points meet.
AnchorsMeet == kind = "glyf" /\ form = "dumping" => PointsMeet(content)
=============================================================================
