\* Two writers of one story, whose discussion changes once; its comments may
\* be a note that points elsewhere.  A row nobody writes stays as it is: no
\* deadlock check.
CONSTANTS
  w1 = w1
  w2 = w2
  Writers = {w1, w2}
  MaxVersions = 2
  MaxLength = 2
  MaxText = 1
  Pointers = TRUE
SPECIFICATION Spec
SYMMETRY WriterSymmetry
INVARIANTS RowAgrees
PROPERTIES NothingLost RoutineNeverOlder OverwrittenIsVisible
CHECK_DEADLOCK FALSE
