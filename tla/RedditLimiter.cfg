\* The fetch queue's thread and one tap; a restart.
CONSTANTS
  QueueThreads = {q}
  Taps = {t1}
  Delay = 2
  Jitter = 1
  Backoff <- Backoff23
  MaxConsecutive = 2
  Cooldown = 6
  MaxReset = 3
  MaxRetryAfter = 2
  NoRetryAfter = 1
  Timeout = 1
  Attempts = 2
  Seconds = {0, 4}
  MaxRestarts = 1
SPECIFICATION FairSpec
INVARIANTS BackoffKept ProbeAlone CooldownSurvives
PROPERTIES SlotsSpaced CircuitCloses
CHECK_DEADLOCK FALSE
