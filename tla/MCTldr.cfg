\* Two taps and one prefetch on one story.  Every thread runs once, so the
\* system stops: no deadlock check.
CONSTANTS
  Stories = {s1}
  Taps = {t1, t2}
  Prefetches = {p1}
  NoFlight = NoFlight
  Slots = 1
  MaxLive = 2
  MaxFailures = 1
SPECIFICATION Spec
SYMMETRY Symmetric
INVARIANTS OneGenerationPerStory SlotsBalanced ForcedReplyIsFresh WaiterWillWake
PROPERTIES PrefetchNeverOlder
CHECK_DEADLOCK FALSE
