SPECIFICATION Spec
CONSTANTS
  n0 = n0
  n1 = n1
  n2 = n2
  n3 = n3
  n4 = n4
  n5 = n5
  n6 = n6
  n7 = n7
  x = x
  l0 = l0
  l1 = l1
  lx = lx
  LookupOrder <- MCLookupOrder
  StubCmap4 = FALSE
  Format4Limit = 64
  RangeLimit = 2
  White = 255
  LongText = 3
  RepeatLimit = 2
  ShortDelta = 255
  LocaLimit = 48
  MaxStatMetric = 6
  LargeSubtables = 40
  ListLimit = 100
  Dflt = 4
  dflt = 60
  NotdefName <- MCNotdef
  ByteBase = 16
  HeadTag = 50
  Magic = 45295
  Junk = Junk
  Null = Null
  Order <- MCOrder
  JsonOf <- ShortIntegers
  Parse <- ParseAny
  Consolidate <- ConsolidateAny
  Build <- BuildAny
  Read <- ReadAny
  Dump <- DumpAny
  Meaning <- FactsOf
  Intended <- FactsMeant
  Kinds = {"CFF"}
INVARIANT MeaningKept
CHECK_DEADLOCK FALSE
