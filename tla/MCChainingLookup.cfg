SPECIFICATION LookupSpec
CONSTANTS
  ga = ga
  gb = gb
  gc = gc
  gd = gd
  l0 = l0
  l1 = l1
  l2 = l2
  l3 = l3
  l4 = l4
  Junk = Junk
  Null = Null
  Order <- MCOrder
  LookupOrder <- MCLookupOrder
  Glyphs = {0, 1, 2}
  Reach = 2
  Lookups <- MCLookups
INVARIANTS TypeOK ClassesExact RulesInOrder MatchPreserved SameEffect
