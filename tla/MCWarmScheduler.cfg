\* Two keys share two workers; two callers race each other.  Calls are bounded,
\* so the system may stop: no deadlock check.
CONSTANTS
  Keys = {k1, k2}
  NoKey = NoKey
  Workers = {w1, w2}
  Callers = {c1, c2}
  MaxVersion = 2
  Delays <- MCDelays
  MaxTime = 2
  MaxRequests = 3
  MaxFailures = 1
SPECIFICATION FairSpec
INVARIANTS NoLostWakeup
PROPERTIES DebounceKept ImplementsQueue OwedIsSettled
CHECK_DEADLOCK FALSE
