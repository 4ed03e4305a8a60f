SPECIFICATION FairSpec
CONSTANTS
  NoName = NoName
  Length = 3
  Fonts <- MCFonts
  Aglfn <- MCAglfn
INVARIANTS OneGlyphPerName OrderAgrees SettledInTurn OwnNamesKept Renumbered
PROPERTIES Terminates
