------------------------------ MODULE JsonValues ------------------------------
(***************************************************************************)
(* What every table's code may meet instead of what it looks for.          *)
(***************************************************************************)
CONSTANTS
  Junk,  \* a JSON value that is absent or of another type
  Null   \* no table: the parser, consolidation or the reader gave up
=============================================================================
