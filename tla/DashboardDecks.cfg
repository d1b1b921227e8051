\* A voter, two warm workers, the regen loop and the Reddit worker, each
\* publishing or one of them twice.  Bounded inputs run out, so the system
\* may stop: no deadlock check.
CONSTANTS
  Users = {u1}
  Stories = {s1}
  Requests = {r1}
  Workers = {w1, w2}
  Publishers = {regen, reddit}
  NoUser = NoUser
  NoThread = NoThread
  MaxCached = 1
  MaxStartup = 1
  BootTimes = {1}
  MaxWrites = 1
  MaxEpoch = 3
  MaxFailures = 0
  MaxRepeats = 0
  MaxRestarts = 0
SPECIFICATION Spec
SYMMETRY Symmetric
INVARIANTS FreshDeckIsFresh
PROPERTIES ReadyViewIsFresh DeckNeverOlder
CHECK_DEADLOCK FALSE
