--------------------------- MODULE RedditLimiter ---------------------------
(* reddit_limiter.RedditRateLimiter and its callers: the fetch queue's one  *)
(* thread, which runs subreddit feeds and comment prewarms, and taps, which *)
(* fetch a post's comments on their own threads.                            *)
(*                                                                          *)
(* Instants are kept as differences to now, so that nothing grows: `nextIn` *)
(* is _next_allowed_at, `sinceOpen` is _circuit_opened_at (no older than    *)
(* Cooldown: the code asks for no more, and the host has been up for one).  *)
(* A thread is woken at its slot and a request ends by its timeout before   *)
(* time goes on.                                                            *)
EXTENDS Naturals, Sequences, FiniteSets

CONSTANTS
  QueueThreads,    \* reddit-fetch-queue: runs feeds and prewarms
  Taps,            \* request threads of /api/tldr-detail
  Delay,           \* INTER_REQUEST_DELAY
  Jitter,          \* JITTER_SECONDS
  Backoff,         \* BACKOFF
  MaxConsecutive,  \* MAX_CONSECUTIVE_429
  Cooldown,        \* CIRCUIT_COOLDOWN
  MaxReset,        \* 120 s, the cap on x-ratelimit-reset
  MaxRetryAfter,   \* 10 s, the cap _parse_retry_after puts on Retry-After
  NoRetryAfter,    \* 1 s, what it returns when the header is missing
  Timeout,         \* how long a request may take
  Attempts,        \* REDDIT_RSS_ON_DEMAND_MAX_ATTEMPTS
  Seconds,         \* values Reddit may put in a header
  MaxRestarts      \* BOUND: process restarts

Callers == QueueThreads \union Taps
Smaller(a, b) == IF a <= b THEN a ELSE b
Larger(a, b) == IF a >= b THEN a ELSE b
Less(a, b) == IF a > b THEN a - b ELSE 0
MinDelay == Less(Delay, Jitter)

ASSUME ThreadsAssumption == QueueThreads \intersect Taps = {}
ASSUME DelaysAssumption == Delay \in Nat /\ Jitter \in Nat
ASSUME BackoffAssumption ==
  Backoff \in Seq(Nat \ {0}) /\ Len(Backoff) > 0 /\ MaxConsecutive \in Nat \ {0}
ASSUME TimesAssumption ==
  /\ Cooldown \in Nat \ {0} /\ Timeout \in Nat \ {0} /\ Attempts \in Nat \ {0}
  /\ MaxReset \in Nat \ {0} /\ MaxRetryAfter \in Nat \ {0} /\ NoRetryAfter \in Nat \ {0}
ASSUME HeadersAssumption == Seconds \subseteq Nat /\ MaxRestarts \in Nat

VARIABLES
  count,      \* _consecutive_429, up to where it makes no difference
  sinceOpen,  \* now - _circuit_opened_at, at most Cooldown
  probing,    \* _probing
  nextIn,     \* _next_allowed_at - now, or 0
  saved,      \* reddit_circuit_state: count, and retry_at - now
  pc,         \* caller -> "idle", "ask", "sleep" or "fly"
  kind,       \* caller -> what it fetches
  left,       \* caller -> attempts left
  timer,      \* caller -> time to its slot, or to its timeout
  early,      \* history: callers asleep since before the last 429
  hold,       \* history: what is left of the longest backoff asked for
  sinceSlot,  \* history: time since a slot was used, at most MinDelay
  resume,     \* history: what was left of the saved cooldown at a restart
  restarts    \* restarts so far (bounded)

circuit == <<count, sinceOpen, probing>>
callers == <<pc, kind, left, timer>>
history == <<early, hold, sinceSlot, resume>>
vars == <<circuit, nextIn, saved, callers, history, restarts>>

(* A caller fetches a subreddit's feed, prewarms a post's comments, or      *)
(* fetches them for a tap.                                                  *)
Kinds(c) == IF c \in Taps THEN {"tap"} ELSE {"feed", "prewarm"}

MaxCount == Larger(MaxConsecutive, Len(Backoff))
Open == count >= MaxConsecutive
Outstanding == {c \in Callers : pc[c] \in {"sleep", "fly"}}

Init ==
  /\ count = 0
  /\ sinceOpen = Cooldown
  /\ probing = FALSE
  /\ nextIn = 0
  /\ saved = [count |-> 0, retryIn |-> 0]
  /\ pc = [c \in Callers |-> "idle"]
  /\ kind = [c \in Callers |-> "tap"]
  /\ left = [c \in Callers |-> 0]
  /\ timer = [c \in Callers |-> 0]
  /\ early = {}
  /\ hold = 0
  /\ sinceSlot = MinDelay
  /\ resume = 0
  /\ restarts = 0

-----------------------------------------------------------------------------
End(c) ==
  /\ pc' = [pc EXCEPT ![c] = "idle"]
  /\ kind' = [kind EXCEPT ![c] = "tap"]
  /\ left' = [left EXCEPT ![c] = 0]
  /\ timer' = [timer EXCEPT ![c] = 0]

(* A feed is asked for once, a post's comments Attempts times.  A prewarm   *)
(* looks at circuit_open first and leaves without asking.                   *)
Start(c) ==
  /\ pc[c] = "idle"
  /\ pc' = [pc EXCEPT ![c] = "ask"]
  /\ \E k \in Kinds(c) :
       /\ k = "prewarm" => ~Open
       /\ kind' = [kind EXCEPT ![c] = k]
       /\ left' = [left EXCEPT ![c] = IF k = "feed" THEN 1 ELSE Attempts]
  /\ UNCHANGED <<circuit, nextIn, saved, timer, history, restarts>>

(* acquire, on an open circuit that has not cooled down: no.                *)
Refused(c) ==
  /\ pc[c] = "ask"
  /\ Open
  /\ sinceOpen < Cooldown
  /\ End(c)
  /\ UNCHANGED <<circuit, nextIn, saved, history, restarts>>

(* MUTANT of Reserve: the slot after is put off only once Reddit answers.   *)
ReserveNothing(c) ==
  /\ pc' = [pc EXCEPT ![c] = "sleep"]
  /\ timer' = [timer EXCEPT ![c] = nextIn]
  /\ UNCHANGED nextIn
  /\ early' = early \ {c}

(* The caller takes the next slot and puts off the one after.               *)
Reserve(c) ==
  /\ pc' = [pc EXCEPT ![c] = "sleep"]
  /\ timer' = [timer EXCEPT ![c] = nextIn]
  /\ \E d \in MinDelay..(Delay + Jitter) : nextIn' = nextIn + d
  /\ early' = early \ {c}

Acquire(c) ==
  /\ pc[c] = "ask"
  /\ ~Open
  /\ Reserve(c)
  /\ UNCHANGED <<circuit, saved, kind, left, hold, sinceSlot, resume, restarts>>

(* MUTANT of Probe: the cooldown does not start again with the probe.       *)
ProbeEveryTime(c) ==
  /\ pc[c] = "ask"
  /\ Open
  /\ sinceOpen >= Cooldown
  /\ probing' = TRUE
  /\ Reserve(c)
  /\ UNCHANGED <<count, sinceOpen, saved, kind, left, hold, sinceSlot, resume, restarts>>

(* MUTANT of Probe: none is admitted while one has not been answered.       *)
ProbeOnce(c) ==
  /\ pc[c] = "ask"
  /\ Open
  /\ sinceOpen >= Cooldown
  /\ ~probing
  /\ probing' = TRUE
  /\ sinceOpen' = 0
  /\ Reserve(c)
  /\ UNCHANGED <<count, saved, kind, left, hold, sinceSlot, resume, restarts>>

(* acquire, half-open: this caller probes, and the cooldown starts again,   *)
(* whatever became of the probe before.                                     *)
Probe(c) ==
  /\ pc[c] = "ask"
  /\ Open
  /\ sinceOpen >= Cooldown
  /\ probing' = TRUE
  /\ sinceOpen' = 0
  /\ Reserve(c)
  /\ UNCHANGED <<count, saved, kind, left, hold, sinceSlot, resume, restarts>>

Wake(c) ==
  /\ pc[c] = "sleep"
  /\ timer[c] = 0
  /\ pc' = [pc EXCEPT ![c] = "fly"]
  /\ timer' = [timer EXCEPT ![c] = Timeout]
  /\ sinceSlot' = 0
  /\ UNCHANGED <<circuit, nextIn, saved, kind, left, early, hold, resume, restarts>>

-----------------------------------------------------------------------------
(* MUTANT of OnSuccess: the next slot is set as well, from now.             *)
OnSuccessSetsSlot(c) ==
  /\ pc[c] = "fly"
  /\ count' = 0
  /\ sinceOpen' = Cooldown
  /\ probing' = FALSE
  /\ resume' = 0
  /\ nextIn' = MinDelay
  /\ End(c)
  /\ UNCHANGED <<saved, early, hold, sinceSlot, restarts>>

(* 200: on_success.                                                         *)
OnSuccess(c) ==
  /\ pc[c] = "fly"
  /\ count' = 0
  /\ sinceOpen' = Cooldown
  /\ probing' = FALSE
  /\ resume' = 0
  /\ End(c)
  /\ UNCHANGED <<nextIn, saved, early, hold, sinceSlot, restarts>>

(* Another status, an exception or a timeout: nothing is reported.          *)
Unreported(c) ==
  /\ pc[c] = "fly"
  /\ End(c)
  /\ UNCHANGED <<circuit, nextIn, saved, history, restarts>>

(* A feed that is refused with 403 or 503, or whose connection breaks, is   *)
(* asked for again at once with urllib, under the same slot.                *)
FallBack(c) ==
  /\ pc[c] = "fly"
  /\ kind[c] = "feed"
  /\ kind' = [kind EXCEPT ![c] = "urllib"]
  /\ timer' = [timer EXCEPT ![c] = Timeout]
  /\ UNCHANGED <<circuit, nextIn, saved, pc, left, history, restarts>>

(* Headers of a 429.  urllib_fetch drops them.                              *)
None == [name |-> "none", secs |-> 0]
Headers == {None} \union [name : {"x-ratelimit-reset", "Retry-After"}, secs : Seconds]

FromTable(n) == Backoff[Smaller(n, Len(Backoff))]

(* What each path passes as retry_after; 0 stands for none.  Feeds do not   *)
(* look at Retry-After.                                                     *)
RetryAfter(k, h) ==
  IF k \in {"feed", "urllib"} THEN 0
  ELSE IF h.name = "Retry-After" THEN Smaller(h.secs, MaxRetryAfter)
  ELSE NoRetryAfter

(* The delay on_429 chooses, with n consecutive ones behind it.             *)
DelayAfter(k, h, n) ==
  IF h.name = "x-ratelimit-reset" /\ h.secs > 0 THEN Smaller(h.secs, MaxReset)
  ELSE IF RetryAfter(k, h) > 0 THEN RetryAfter(k, h)
  ELSE FromTable(n)

(* on_429, which opens the circuit, ends a probe, or neither; the comments  *)
(* paths ask again while attempts are left.                                 *)
On429(c, h) ==
  LET n == Smaller(count + 1, MaxCount)
      delay == DelayAfter(kind[c], h, n)
      opens == ~Open /\ n >= MaxConsecutive
  IN  /\ pc[c] = "fly"
      /\ kind[c] = "urllib" => h = None
      /\ count' = n
      /\ nextIn' = Larger(nextIn, delay)
      /\ \/ (opens \/ probing) /\ sinceOpen' = 0 /\ probing' = FALSE
         \/ ~(opens \/ probing) /\ UNCHANGED <<sinceOpen, probing>>
      /\ hold' = Larger(hold, delay)
      /\ early' = {d \in Callers : pc[d] = "sleep"}
      /\ \/ left[c] = 1 /\ End(c)
         \/ /\ left[c] > 1
            /\ pc' = [pc EXCEPT ![c] = "ask"]
            /\ left' = [left EXCEPT ![c] = @ - 1]
            /\ timer' = [timer EXCEPT ![c] = 0]
            /\ UNCHANGED kind
      /\ UNCHANGED <<saved, sinceSlot, resume, restarts>>

-----------------------------------------------------------------------------
(* snapshot, saved when a Reddit refresh ends.                              *)
Save ==
  /\ saved' = [count |-> count,
               retryIn |-> IF Open THEN Less(Cooldown, sinceOpen) ELSE 0]
  /\ UNCHANGED <<circuit, nextIn, callers, history, restarts>>

(* MUTANT of Restore: "server restart re-initializes the singleton".        *)
RestoreNothing == count' = 0 /\ sinceOpen' = Cooldown

(* restore: what is left of the saved cooldown still has to pass.           *)
Restore == count' = saved.count /\ sinceOpen' = Less(Cooldown, saved.retryIn)

(* The process dies and starts again.                                       *)
Restart ==
  /\ restarts < MaxRestarts
  /\ restarts' = restarts + 1
  /\ Restore
  /\ probing' = FALSE
  /\ nextIn' = 0
  /\ pc' = [c \in Callers |-> "idle"]
  /\ kind' = [c \in Callers |-> "tap"]
  /\ left' = [c \in Callers |-> 0]
  /\ timer' = [c \in Callers |-> 0]
  /\ early' = {}
  /\ hold' = 0
  /\ sinceSlot' = MinDelay
  /\ resume' = saved.retryIn
  /\ UNCHANGED saved

(* A unit of time passes; nobody is due.                                    *)
Tick ==
  /\ \A c \in Outstanding : timer[c] > 0
  /\ sinceOpen' = Smaller(sinceOpen + 1, Cooldown)
  /\ nextIn' = Less(nextIn, 1)
  /\ saved' = [saved EXCEPT !.retryIn = Less(@, 1)]
  /\ timer' = [c \in Callers |-> Less(timer[c], 1)]
  /\ hold' = Less(hold, 1)
  /\ sinceSlot' = Smaller(sinceSlot + 1, MinDelay)
  /\ resume' = Less(resume, 1)
  /\ UNCHANGED <<count, probing, pc, kind, left, early, restarts>>

CallerStep(c) ==
  \/ Refused(c) \/ Acquire(c) \/ Probe(c) \/ Wake(c)
  \/ OnSuccess(c) \/ FallBack(c) \/ Unreported(c)
  \/ \E h \in Headers : On429(c, h)

Next ==
  \/ \E c \in Callers : Start(c) \/ CallerStep(c)
  \/ Save
  \/ Restart
  \/ Tick

Spec == Init /\ [][Next]_vars

(* Threads go on, time passes, the queue is given feeds again and again (by *)
(* each refresh), and Reddit lets a request through now and then.           *)
Fairness ==
  /\ \A c \in Callers : WF_vars(CallerStep(c))
  /\ WF_vars(Tick)
  /\ \A c \in QueueThreads : WF_vars(Start(c))
  /\ SF_vars(\E c \in Callers : OnSuccess(c))

FairSpec == Spec /\ Fairness

-----------------------------------------------------------------------------
(* Types of every variable.                                                 *)
TypeOK ==
  /\ count \in 0..MaxCount
  /\ sinceOpen \in 0..Cooldown
  /\ probing \in BOOLEAN
  /\ nextIn \in Nat
  /\ saved \in [count : 0..MaxCount, retryIn : 0..Cooldown]
  /\ pc \in [Callers -> {"idle", "ask", "sleep", "fly"}]
  /\ kind \in [Callers -> {"feed", "urllib", "prewarm", "tap"}]
  /\ left \in [Callers -> 0..Attempts]
  /\ timer \in [Callers -> Nat]
  /\ early \in SUBSET Callers
  /\ hold \in Nat
  /\ sinceSlot \in 0..MinDelay
  /\ resume \in 0..Cooldown
  /\ restarts \in 0..MaxRestarts

(* Slots are used at least the shortest jittered delay apart, by whichever  *)
(* threads (acquire: "concurrent callers across threads stagger correctly   *)
(* even before any HTTP response is known").                                *)
SlotsSpaced == [][\A c \in Callers : Wake(c) => sinceSlot >= MinDelay]_vars

(* Who asked after a 429 sleeps through the backoff it caused, although     *)
(* others succeed, fail or reserve in between; only callers that were       *)
(* asleep already keep their slots.                                         *)
BackoffKept ==
  \A c \in Callers : pc[c] = "sleep" /\ c \notin early => timer[c] >= hold

(* A probe is alone: the cooldown outlasts every slot and request of before *)
(* the circuit opened, so an answer while probing is the probe's answer.    *)
ProbeAlone ==
  probing => \A c, d \in Outstanding : c = d

(* What the constants must satisfy for it: the cooldown is longer than the  *)
(* longest backoff, a slot for every caller but the one that opened the     *)
(* circuit and the one that waits, and two requests, a feed and its urllib. *)
CooldownOutlasts ==
  /\ IsFiniteSet(Callers)
  /\ MinDelay > 0
  /\ \E longest \in 0..Cooldown :
       /\ {Delay + Jitter, MaxReset, MaxRetryAfter, NoRetryAfter} \subseteq 0..longest
       /\ \A n \in DOMAIN Backoff : Backoff[n] <= longest
       /\ longest + Less(Cardinality(Callers), 2) * (Delay + Jitter) + 2 * Timeout < Cooldown

(* A circuit that was saved open admits nobody before its saved retry time, *)
(* the process having restarted or not.                                     *)
CooldownSurvives == resume > 0 => Outstanding = {}

(* The circuit does not stay open when Reddit answers again: a probe that   *)
(* is lost without an answer is followed by another.                        *)
CircuitCloses == Open ~> ~Open
=============================================================================
