SPECIFICATION FairSpec
CONSTANTS
  N = 3
  MaxDepth = 4
  Far = 1000
  Unset = Unset
  Fonts <- MCFonts
INVARIANTS TypeOK DoingIsOpen BoxExact CountsExact TablesCover
PROPERTIES Terminates
