\* Two requests of one or two voters, one cached deck, one warm worker; the
\* process may restart.  Bounded inputs run out, so the system may stop: no
\* deadlock check.
CONSTANTS
  Users = {u1, u2}
  Stories = {s1}
  Requests = {r1, r2}
  Workers = {w1}
  Publishers = {regen}
  NoUser = NoUser
  NoThread = NoThread
  MaxCached = 1
  MaxStartup = 1
  BootTimes = {1, 4}
  MaxWrites = 2
  MaxEpoch = 1
  MaxFailures = 0
  MaxRepeats = 0
  MaxRestarts = 1
SPECIFICATION Spec
SYMMETRY Symmetric
INVARIANTS AckedVoteReachesDeck TargetsReachable
CHECK_DEADLOCK FALSE
