SPECIFICATION Spec
CONSTANTS
  Glyphs <- MCGlyphs
  ArgumentStack = 12
  WidthOperand = 50
INVARIANTS OutlineReadBack OperandsFit MasksInForce StemsAndWidthReadBack
CHECK_DEADLOCK FALSE
