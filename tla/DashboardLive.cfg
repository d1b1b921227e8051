\* A polling voter; a warm or a publication raises, one regen lands.
\* Bounded inputs run out, so the system may stop: no deadlock check.
CONSTANTS
  Users = {u1}
  Stories = {s1}
  Requests = {r1}
  Workers = {w1}
  Publishers = {regen}
  NoUser = NoUser
  NoThread = NoThread
  MaxCached = 1
  MaxStartup = 1
  BootTimes = {1}
  MaxWrites = 1
  MaxEpoch = 2
  MaxFailures = 1
  MaxRepeats = 1
  MaxRestarts = 0
SPECIFICATION FairSpec
INVARIANTS NoForgottenDeck
PROPERTIES VoterGetsFreshDeck
CHECK_DEADLOCK FALSE
