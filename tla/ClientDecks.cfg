\* Two windows and their prefetches, a vote, a failure, a regeneration or a
\* restart to a lower or a higher version, and a change of profile.  Users,
\* faults and changes are bounded, so it may stop: no deadlock check.
CONSTANTS
  Stories = {a}
  Votable = {a}
  Windows = {w1, w2}
  NoWindow = NoWindow
  FirstBoot = 10
  Boots = {1, 20}
  MaxRevisions = 1
  MaxSwitches = 1
  MaxFaults = 1
  MaxRegens = 1
  MaxProfiles = 2
  MayQuit = FALSE
SPECIFICATION FairSpec
INVARIANTS AckNotForgotten CachesMatch
PROPERTIES StaleDeckReplaced
CHECK_DEADLOCK FALSE
