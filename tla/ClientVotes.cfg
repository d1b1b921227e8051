\* Three votes and undos of one story, another voted before or not, one
\* window, two failures, a sign-in and a quit at any moment.  The user may
\* exit or stop: no deadlock check.
CONSTANTS
  Stories = {a, b}
  Votable = {a}
  Windows = {w1}
  NoWindow = NoWindow
  FirstBoot = 10
  Boots = {20}
  MaxRevisions = 3
  MaxSwitches = 1
  MaxFaults = 2
  MaxRegens = 0
  MaxProfiles = 2
  MayQuit = TRUE
SPECIFICATION Spec
INVARIANTS ScreenAgrees NoStrandedFollowUp ReportExact
CHECK_DEADLOCK FALSE
