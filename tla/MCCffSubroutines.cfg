SPECIFICATION Spec
CONSTANTS
  a = a
  b = b
  final = final
  Operators <- MCOperators
  Endings <- MCEndings
  Size <- MCSize
  SubrNesting = 2
  MaxSubrs = 1
  MaxNodes = 11
INVARIANTS GrammarYieldsInput CallsCounted IndexIsLive SubroutinesKeepText NestingBounded
CHECK_DEADLOCK FALSE
