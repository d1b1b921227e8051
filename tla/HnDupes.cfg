\* Two posts of the pool and a discussion outside it: two regenerations, one
\* change of the site, one expiry, one failure or restart.  Bounded inputs
\* run out, so it may stop: no deadlock check.
CONSTANTS
  a = a
  b = b
  c = c
  Stories = {a, b, c}
  NoStory = NoStory
  NotKnown = NotKnown
  Candidates = {a, b}
  Sites <- Moving
  Quiet = 1
  MaxSubmits = 2
  MaxMoves = 1
  MaxExpiries = 1
  MaxFaults = 1
SPECIFICATION Spec
INVARIANTS NoSnapshotStranded CanonicalStored
CHECK_DEADLOCK FALSE
