---------------------------- MODULE RedditProofs ----------------------------
(* What holds of the three parts that fetch from Reddit, for any constants. *)
(*                                                                          *)
(* RedditLimiter, for any callers, delays, tables and headers: its types,   *)
(* that requests are spaced, that a backoff is slept through, that a saved  *)
(* cooldown survives a restart, and, when the cooldown outlasts what may be *)
(* outstanding, that a probe is alone.                                      *)
(*                                                                          *)
(* RedditFetchQueue, for any feeds and strides, whoever enqueues: its       *)
(* types, that tasks leave in the order they are due, that the idle event   *)
(* means drained, and that tasks are spaced.  And that RedditRefresh uses   *)
(* the queue as it may be used, for any deadlines, and keeps its types.     *)
EXTENDS RedditLimiter, RedditFetchQueue, FiniteSetTheorems, WellFoundedInduction, TLAPS

-----------------------------------------------------------------------------
(* The inductive invariant.                                                 *)

Asleep == {c \in Callers : pc[c] = "sleep"}

(* Slots are MinDelay apart from each other, from the last slot used and *)
(* from the slot to be given out next.                                      *)
SlotsApart ==
  /\ nextIn + sinceSlot >= MinDelay
  /\ \A c \in Asleep :
       /\ timer[c] + MinDelay <= nextIn
       /\ timer[c] + sinceSlot >= MinDelay
  /\ \A c, d \in Asleep :
       c # d => timer[c] + MinDelay <= timer[d] \/ timer[d] + MinDelay <= timer[c]

(* The next slot is past every backoff asked for.                           *)
BackoffAhead == nextIn >= hold /\ BackoffKept

(* What is left of a saved cooldown is left of the circuit's too.           *)
StillCooling ==
  /\ saved.retryIn > 0 => saved.count >= MaxConsecutive
  /\ resume > 0 => /\ Open
                   /\ sinceOpen + resume <= Cooldown
                   /\ Outstanding = {}

IInv == TypeOK /\ SlotsApart /\ BackoffAhead /\ StillCooling

-----------------------------------------------------------------------------
(* What the constants' assumptions give the steps below.                    *)
LEMMA Numbers ==
  /\ MinDelay \in Nat
  /\ MaxCount \in Nat \ {0} /\ MaxConsecutive \in Nat \ {0} /\ MaxConsecutive <= MaxCount
  /\ Cooldown \in Nat \ {0} /\ Timeout \in Nat /\ Attempts \in Nat \ {0}
  /\ MaxRestarts \in Nat
  <1>1. Len(Backoff) \in Nat
    BY BackoffAssumption
  <1>2. MaxConsecutive \in Nat \ {0} /\ Len(Backoff) > 0
    BY BackoffAssumption
  <1>3. MaxCount \in Nat \ {0} /\ MaxConsecutive <= MaxCount
    BY <1>1, <1>2 DEF MaxCount, Larger
  <1>4. MinDelay \in Nat
    BY DelaysAssumption DEF MinDelay, Less
  <1> QED
    BY <1>2, <1>3, <1>4, TimesAssumption, HeadersAssumption

(* The delay chosen after a 429 is a number of seconds.                     *)
LEMMA DelayType ==
  ASSUME NEW k, NEW h \in Headers, NEW n \in Nat \ {0}
  PROVE  DelayAfter(k, h, n) \in Nat
  <1>1. FromTable(n) \in Nat
    <2>1. Len(Backoff) \in Nat /\ Len(Backoff) > 0
      BY BackoffAssumption
    <2>2. Smaller(n, Len(Backoff)) \in 1..Len(Backoff)
      BY <2>1 DEF Smaller
    <2> QED
      BY <2>2, BackoffAssumption DEF FromTable
  <1>2. h.secs \in Nat
    <2>1. CASE h = None
      BY <2>1 DEF None
    <2>2. CASE h \in [name : {"x-ratelimit-reset", "Retry-After"}, secs : Seconds]
      BY <2>2, HeadersAssumption
    <2> QED
      BY <2>1, <2>2 DEF Headers
  <1>3. RetryAfter(k, h) \in Nat
    BY <1>2, TimesAssumption DEF RetryAfter, Smaller
  <1> QED
    BY <1>1, <1>2, <1>3, TimesAssumption DEF DelayAfter, Smaller

(* The limiter starts with free slots and a closed circuit.                 *)
LEMMA InitIInv == ASSUME Init PROVE IInv
  <1> USE Numbers DEF Init
  <1>1. TypeOK
    <2>1. probing \in BOOLEAN
      OBVIOUS
    <2>2. saved \in [count : 0..MaxCount, retryIn : 0..Cooldown]
      OBVIOUS
    <2>3. /\ count \in 0..MaxCount /\ sinceOpen \in 0..Cooldown /\ nextIn \in Nat
          /\ early \in SUBSET Callers /\ hold \in Nat /\ sinceSlot \in 0..MinDelay
          /\ resume \in 0..Cooldown /\ restarts \in 0..MaxRestarts
      OBVIOUS
    <2>4. /\ pc \in [Callers -> {"idle", "ask", "sleep", "fly"}]
          /\ kind \in [Callers -> {"feed", "urllib", "prewarm", "tap"}]
          /\ left \in [Callers -> 0..Attempts] /\ timer \in [Callers -> Nat]
      OBVIOUS
    <2> QED
      BY <2>1, <2>2, <2>3, <2>4 DEF TypeOK
  <1>2. Asleep = {}
    BY DEF Asleep
  <1>3. SlotsApart
    BY <1>2 DEF SlotsApart
  <1>4. BackoffAhead
    BY DEF BackoffAhead, BackoffKept
  <1>5. StillCooling
    BY DEF StillCooling
  <1> QED
    BY <1>1, <1>3, <1>4, <1>5 DEF IInv

(* A caller that gets a slot gets one after everybody else's.               *)
LEMMA ReserveKeepsIInv ==
  ASSUME IInv, NEW c \in Callers, Acquire(c) \/ Probe(c)
  PROVE  IInv'
  <1> USE Numbers DEF IInv, Acquire, Probe, Reserve, circuit
  <1>1. PICK d \in MinDelay..(Delay + Jitter) : nextIn' = nextIn + d
    OBVIOUS
  <1>2. MinDelay \in Nat /\ d \in Nat /\ d >= MinDelay
    BY <1>1 DEF MinDelay, Less
  <1>3. TypeOK'
    <2>1. /\ count' = count /\ saved' = saved /\ kind' = kind /\ left' = left
          /\ UNCHANGED <<hold, sinceSlot, resume, restarts>>
      OBVIOUS
    <2>2. probing' \in BOOLEAN
      BY DEF TypeOK
    <2>3. sinceOpen' \in 0..Cooldown /\ nextIn' \in Nat /\ early' \in SUBSET Callers
      BY <1>1, <1>2 DEF TypeOK
    <2>4. /\ pc' \in [Callers -> {"idle", "ask", "sleep", "fly"}]
          /\ timer' \in [Callers -> Nat]
      BY DEF TypeOK
    <2> QED
      BY <2>1, <2>2, <2>3, <2>4 DEF TypeOK
  <1>4. SlotsApart'
    BY <1>1, <1>2 DEF TypeOK, SlotsApart, Asleep
  <1>5. BackoffAhead'
    BY <1>1, <1>2 DEF TypeOK, BackoffAhead, BackoffKept
  <1>6. resume = 0
    BY DEF StillCooling, Open, TypeOK
  <1>7. StillCooling'
    BY <1>6 DEF StillCooling
  <1> QED
    BY <1>3, <1>4, <1>5, <1>7

(* A 429 moves only the slot to be given out next.                          *)
LEMMA On429KeepsIInv ==
  ASSUME IInv, NEW c \in Callers, NEW h \in Headers, On429(c, h)
  PROVE  IInv'
  <1> USE Numbers DEF IInv, On429
  <1> DEFINE n == Smaller(count + 1, MaxCount)
             delay == DelayAfter(kind[c], h, n)
  <1>1. n \in 0..MaxCount /\ n \in Nat \ {0}
    BY DEF TypeOK, Smaller, MaxCount, Larger
  <1>2. delay \in Nat
    BY <1>1, DelayType
  <1>3. nextIn' = Larger(nextIn, delay) /\ hold' = Larger(hold, delay) /\ count' = n
    OBVIOUS
  <1> HIDE DEF n, delay
  <1>4. pc[c] = "fly" /\ resume = 0
    BY DEF TypeOK, StillCooling, Outstanding
  <1>5. \A d \in Callers : pc'[d] = "sleep" <=> pc[d] = "sleep"
    BY <1>4 DEF TypeOK, End
  <1>6. \A d \in Asleep : timer'[d] = timer[d]
    BY <1>4 DEF TypeOK, End, Asleep
  <1>7. TypeOK'
    <2>1. probing' \in BOOLEAN
      BY DEF TypeOK
    <2>2. /\ sinceOpen' \in 0..Cooldown /\ count' \in 0..MaxCount
          /\ nextIn' \in Nat /\ hold' \in Nat /\ early' \in SUBSET Callers
      BY <1>1, <1>2, <1>3 DEF TypeOK, Larger
    <2>3. /\ pc' \in [Callers -> {"idle", "ask", "sleep", "fly"}]
          /\ kind' \in [Callers -> {"feed", "urllib", "prewarm", "tap"}]
          /\ left' \in [Callers -> 0..Attempts] /\ timer' \in [Callers -> Nat]
      BY DEF TypeOK, End
    <2> QED
      BY <2>1, <2>2, <2>3 DEF TypeOK
  <1>8. SlotsApart'
    BY <1>2, <1>3, <1>5, <1>6 DEF TypeOK, SlotsApart, Asleep, Larger
  <1>9. BackoffAhead'
    BY <1>2, <1>3, <1>5 DEF TypeOK, BackoffAhead, BackoffKept, Larger
  <1>10. StillCooling'
    BY <1>4 DEF StillCooling
  <1> QED
    BY <1>7, <1>8, <1>9, <1>10

(* Everything moves closer by one unit.                                     *)
LEMMA TickKeepsIInv == ASSUME IInv, Tick PROVE IInv'
  <1> USE Numbers DEF IInv, Tick
  <1>1. MinDelay \in Nat
    BY DEF MinDelay, Less
  <1>2. TypeOK'
    BY <1>1 DEF TypeOK, Less, Smaller
  <1>3. \A c \in Asleep : timer[c] > 0 /\ timer'[c] = timer[c] - 1
    BY DEF Asleep, Outstanding, TypeOK, Less
  <1>4. Asleep' = Asleep
    BY DEF Asleep
  <1>5. SlotsApart'
    BY <1>1, <1>3, <1>4 DEF SlotsApart, TypeOK, Asleep, Less, Smaller
  <1>6. BackoffAhead'
    BY <1>3 DEF BackoffAhead, BackoffKept, TypeOK, Asleep, Less
  <1>7. StillCooling'
    BY DEF StillCooling, TypeOK, Open, Outstanding, Less, Smaller
  <1> QED
    BY <1>2, <1>5, <1>6, <1>7

(* The other steps of a caller.                                             *)
LEMMA CallerKeepsIInv ==
  ASSUME IInv, NEW c \in Callers,
         Start(c) \/ Refused(c) \/ Wake(c) \/ OnSuccess(c) \/ FallBack(c) \/ Unreported(c)
  PROVE  IInv'
  <1> USE Numbers DEF IInv, TypeOK, circuit, history, End
  <1>0. MinDelay \in Nat
    BY DEF MinDelay, Less
  <1>1. CASE Start(c) \/ Refused(c) \/ FallBack(c) \/ Unreported(c)
    <2>1. TypeOK'
      BY <1>1 DEF Start, Refused, FallBack, Unreported, Kinds
    <2>2. \A d \in Callers : (pc'[d] = "sleep" => pc[d] = "sleep" /\ timer'[d] = timer[d])
                             /\ (d \in Outstanding' => d \in Outstanding)
      BY <1>1 DEF Start, Refused, FallBack, Unreported, Outstanding
    <2>3. UNCHANGED <<nextIn, sinceSlot, hold, early, count, sinceOpen, saved, resume>>
      BY <1>1 DEF Start, Refused, FallBack, Unreported
    <2>4. SlotsApart'
      BY <1>0, <2>2, <2>3 DEF SlotsApart, Asleep
    <2>5. BackoffAhead' /\ StillCooling'
      BY <2>2, <2>3 DEF BackoffAhead, BackoffKept, StillCooling, Open, Outstanding
    <2> QED
      BY <2>1, <2>4, <2>5
  <1>2. CASE OnSuccess(c)
    <2>0. probing' \in BOOLEAN
      BY <1>2 DEF OnSuccess
    <2>1. TypeOK'
      <3>1. /\ sinceOpen' \in 0..Cooldown /\ count' \in 0..MaxCount /\ resume' \in 0..Cooldown
            /\ UNCHANGED <<nextIn, saved, early, hold, sinceSlot, restarts>>
        BY <1>2 DEF OnSuccess
      <3>2. /\ pc' \in [Callers -> {"idle", "ask", "sleep", "fly"}]
            /\ kind' \in [Callers -> {"feed", "urllib", "prewarm", "tap"}]
            /\ left' \in [Callers -> 0..Attempts] /\ timer' \in [Callers -> Nat]
        BY <1>2 DEF OnSuccess
      <3> QED
        BY <2>0, <3>1, <3>2
    <2>2. \A d \in Callers : pc'[d] = "sleep" => pc[d] = "sleep" /\ timer'[d] = timer[d]
      BY <1>2 DEF OnSuccess
    <2>3. UNCHANGED <<nextIn, sinceSlot, hold, early, saved>> /\ resume' = 0
      BY <1>2 DEF OnSuccess
    <2>4. SlotsApart'
      BY <1>0, <2>2, <2>3 DEF SlotsApart, Asleep
    <2>5. BackoffAhead' /\ StillCooling'
      BY <2>2, <2>3 DEF BackoffAhead, BackoffKept, StillCooling
    <2> QED
      BY <2>1, <2>4, <2>5
  <1>3. CASE Wake(c)
    <2>1. TypeOK'
      BY <1>0, <1>3 DEF Wake
    <2>2. c \in Asleep /\ timer[c] = 0 /\ c \notin Asleep' /\ Asleep' \subseteq Asleep
      BY <1>3 DEF Wake, Asleep
    <2>3. \A d \in Asleep' : timer'[d] = timer[d] /\ d # c
      BY <1>3 DEF Wake, Asleep
    <2>4. \A d \in Asleep' : timer[d] >= MinDelay
      BY <1>0, <2>2, <2>3 DEF SlotsApart, Asleep
    <2>5. UNCHANGED <<nextIn, hold, early, saved, count, sinceOpen, resume>> /\ sinceSlot' = 0
      BY <1>3 DEF Wake
    <2>6. SlotsApart'
      BY <1>0, <2>2, <2>3, <2>4, <2>5 DEF SlotsApart, Asleep
    <2>7. BackoffAhead'
      BY <2>2, <2>3, <2>5 DEF BackoffAhead, BackoffKept, Asleep
    <2>8. resume = 0
      BY <1>3 DEF Wake, StillCooling, Outstanding
    <2>9. StillCooling'
      BY <2>5, <2>8 DEF StillCooling
    <2> QED
      BY <2>1, <2>6, <2>7, <2>9
  <1> QED
    BY <1>1, <1>2, <1>3

(* A snapshot is saved, or the process starts from it.                      *)
LEMMA RestartKeepsIInv == ASSUME IInv, Save \/ Restart PROVE IInv'
  <1> USE Numbers DEF IInv, TypeOK
  <1>0. MinDelay \in Nat
    BY DEF MinDelay, Less
  <1>1. CASE Save
    BY <1>0, <1>1 DEF Save, circuit, callers, history, SlotsApart, Asleep, BackoffAhead,
                BackoffKept, StillCooling, Open, Outstanding, Less
  <1>2. CASE Restart
    <2>0. probing' \in BOOLEAN
      BY <1>2 DEF Restart
    <2>1. TypeOK'
      <3>1. /\ sinceOpen' \in 0..Cooldown /\ count' \in 0..MaxCount /\ resume' \in 0..Cooldown
            /\ nextIn' \in Nat /\ saved' = saved /\ early' = {} /\ hold' \in Nat
            /\ sinceSlot' \in 0..MinDelay /\ restarts' \in 0..MaxRestarts
        BY <1>0, <1>2 DEF Restart, Restore, Less
      <3>2. /\ pc' \in [Callers -> {"idle", "ask", "sleep", "fly"}]
            /\ kind' \in [Callers -> {"feed", "urllib", "prewarm", "tap"}]
            /\ left' \in [Callers -> 0..Attempts] /\ timer' \in [Callers -> Nat]
        BY <1>2 DEF Restart
      <3> QED
        BY <2>0, <3>1, <3>2
    <2>2. SlotsApart' /\ BackoffAhead'
      BY <1>0, <1>2 DEF Restart, SlotsApart, Asleep, BackoffAhead, BackoffKept
    <2>3. StillCooling'
      BY <1>2 DEF Restart, Restore, StillCooling, Open, Outstanding, Less
    <2> QED
      BY <2>1, <2>2, <2>3
  <1> QED
    BY <1>1, <1>2

LEMMA StepKeepsIInv == ASSUME IInv, [Next]_vars PROVE IInv'
  <1>1. CASE UNCHANGED vars
    BY <1>1 DEF vars, circuit, callers, history, IInv, TypeOK, SlotsApart, Asleep,
                BackoffAhead, BackoffKept, StillCooling, Open, Outstanding
  <1>2. CASE \E c \in Callers : Start(c) \/ CallerStep(c)
    BY <1>2, ReserveKeepsIInv, On429KeepsIInv, CallerKeepsIInv DEF CallerStep
  <1>3. CASE Save \/ Restart
    BY <1>3, RestartKeepsIInv
  <1>4. CASE Tick
    BY <1>4, TickKeepsIInv
  <1> QED
    BY <1>1, <1>2, <1>3, <1>4 DEF Next

(* The inductive invariant holds in every reachable state.                  *)
THEOREM Invariant == Spec => []IInv
  <1>1. Init => IInv
    BY InitIInv
  <1>2. IInv /\ [Next]_vars => IInv'
    BY StepKeepsIInv
  <1> QED
    BY <1>1, <1>2, PTL DEF Spec

-----------------------------------------------------------------------------
(* Every variable keeps its type, for any callers and any headers.          *)
THEOREM TypeCorrect == Spec => []TypeOK
  <1>1. IInv => TypeOK
    BY DEF IInv
  <1> QED
    BY <1>1, Invariant, PTL

(* However many threads share the limiter and however their acquires and    *)
(* answers interleave, two slots are never used closer than the shortest    *)
(* jittered delay.                                                          *)
THEOREM Spacing == Spec => SlotsSpaced
  <1>1. IInv => \A c \in Callers : Wake(c) => sinceSlot >= MinDelay
    BY DEF IInv, SlotsApart, Asleep, Wake, TypeOK
  <1>2. IInv /\ [Next]_vars => [\A c \in Callers : Wake(c) => sinceSlot >= MinDelay]_vars
    BY <1>1
  <1> QED
    BY <1>2, Invariant, PTL DEF SlotsSpaced, Spec

(* No success, reservation or other 429 shortens a backoff for a caller     *)
(* that asked after it began.                                               *)
THEOREM BackoffSleptThrough == Spec => []BackoffKept
  <1>1. IInv => BackoffKept
    BY DEF IInv, BackoffAhead
  <1> QED
    BY <1>1, Invariant, PTL

(* After a restart nobody reaches Reddit before the saved retry time.       *)
THEOREM CooldownKept == Spec => []CooldownSurvives
  <1>1. IInv => CooldownSurvives
    BY DEF IInv, StillCooling, CooldownSurvives
  <1> QED
    BY <1>1, Invariant, PTL

-----------------------------------------------------------------------------
(* A probe is alone.  The slots of callers asleep, at[c] for c in asleep,   *)
(* and the next to give are a chain: each is at most one delay behind the   *)
(* one before, or was put off to the longest backoff.  So a slot is never   *)
(* further away than that backoff and a delay for each caller before it.    *)
Beyond(base, n) == base + n * (Delay + Jitter)
Between(asleep, at, t, u) == {c \in asleep : t < at[c] /\ at[c] < u}
Linked(longest, asleep, at, t, u) ==
  u <= Beyond(Larger(t + Delay + Jitter, longest), Cardinality(Between(asleep, at, t, u)))

Chain(longest, asleep, at, next) ==
  /\ \A c \in asleep : at[c] \in Nat /\ at[c] < next
  /\ \A c, d \in asleep : at[c] = at[d] => c = d
  /\ next <= Beyond(longest, Cardinality(asleep))
  /\ \A c \in asleep :
       at[c] <= Beyond(longest, Cardinality({d \in asleep : at[d] < at[c]}))
  /\ \A c \in asleep : Linked(longest, asleep, at, at[c], next)
  /\ \A c, d \in asleep : at[c] < at[d] => Linked(longest, asleep, at, at[c], at[d])

LEMMA BeyondFacts ==
  ASSUME NEW base \in Nat, NEW n \in Nat
  PROVE  /\ Beyond(base, n) \in Nat
         /\ Beyond(base, n) >= base
         /\ Beyond(base, 0) = base
         /\ Beyond(base, n + 1) = Beyond(base, n) + Delay + Jitter
         /\ \A m \in Nat : m <= n => Beyond(base, m) <= Beyond(base, n)
         /\ \A more \in Nat : base <= more => Beyond(base, n) <= Beyond(more, n)
  <1>1. PICK d \in Nat : d = Delay + Jitter
    BY DelaysAssumption
  <1>2. n * d \in Nat /\ 0 * d = 0 /\ (n + 1) * d = n * d + d
    BY <1>1
  <1>3. ASSUME NEW m \in Nat, m <= n PROVE m * d <= n * d
    <2>1. PICK k \in Nat : k = n - m
      BY <1>3
    <2>2. n = m + k
      BY <2>1
    <2>3. n * d = m * d + k * d /\ k * d \in Nat /\ m * d \in Nat
      BY <2>2
    <2> QED
      BY <2>3
  <1> HIDE <1>1
  <1>4. DelaysAssumption
    BY DelaysAssumption
  <1>5. \A m \in Nat : m * d \in Nat
    BY <1>1
  <1>6. n * (Delay + Jitter) = n * d /\ 0 * (Delay + Jitter) = 0 * d
        /\ (n + 1) * (Delay + Jitter) = (n + 1) * d
        /\ \A m \in Nat : m * (Delay + Jitter) = m * d
    BY <1>1
  <1> QED
    BY <1>1, <1>2, <1>3, <1>5, <1>6, DelaysAssumption DEF Beyond

LEMMA Counts ==
  ASSUME NEW asleep, IsFiniteSet(asleep), NEW part \in SUBSET asleep
  PROVE  IsFiniteSet(part) /\ Cardinality(part) \in Nat /\ Cardinality(asleep) \in Nat
         /\ Cardinality(part) <= Cardinality(asleep)
  BY FS_Subset, FS_CardinalityType

(* A caller takes the next slot.                                            *)
LEMMA ChainGrows ==
  ASSUME NEW longest \in Nat, NEW asleep, IsFiniteSet(asleep), NEW at, NEW next \in Nat,
         Chain(longest, asleep, at, next), MinDelay > 0,
         NEW c, c \notin asleep, NEW now, now[c] = next, \A d \in asleep : now[d] = at[d],
         NEW delay \in MinDelay..(Delay + Jitter)
  PROVE  Chain(longest, asleep \union {c}, now, next + delay)
  <1> DEFINE all == asleep \union {c}
  <1>d. delay \in Nat /\ delay > 0 /\ delay <= Delay + Jitter /\ Delay + Jitter \in Nat
    BY DelaysAssumption DEF MinDelay, Less
  <1>a. \A d \in asleep : now[d] = at[d] /\ now[d] \in Nat /\ now[d] < next
    BY DEF Chain
  <1>n. IsFiniteSet(all) /\ Cardinality(all) = Cardinality(asleep) + 1 /\ Cardinality(asleep) \in Nat
    BY FS_AddElement, FS_CardinalityType
  <1>1. \A d \in all : now[d] \in Nat /\ now[d] < next + delay
    BY <1>a, <1>d
  <1>2. \A d, e \in all : now[d] = now[e] => d = e
    BY <1>a DEF Chain
  <1>3. next + delay <= Beyond(longest, Cardinality(all))
    <2>1. PICK n \in Nat : n = Cardinality(asleep)
      BY <1>n
    <2>2. next <= Beyond(longest, n)
      BY <2>1 DEF Chain
    <2>3. Beyond(longest, n + 1) = Beyond(longest, n) + Delay + Jitter /\ Beyond(longest, n) \in Nat
      BY BeyondFacts
    <2>4. next + delay <= Beyond(longest, n + 1)
      BY <1>d, <2>2, <2>3, DelaysAssumption
    <2> QED
      BY <1>n, <2>1, <2>4
  <1>4. ASSUME NEW d \in all
        PROVE  now[d] <= Beyond(longest, Cardinality({e \in all : now[e] < now[d]}))
    <2>1. CASE d = c
      <3>1. {e \in all : now[e] < now[d]} = asleep
        BY <1>a, <2>1
      <3> QED
        BY <2>1, <3>1 DEF Chain
    <2>2. CASE d \in asleep
      <3>1. {e \in all : now[e] < now[d]} = {e \in asleep : at[e] < at[d]}
        BY <1>a, <2>2
      <3> QED
        BY <1>a, <2>2, <3>1 DEF Chain
    <2> QED
      BY <2>1, <2>2
  <1>5. ASSUME NEW d \in asleep PROVE Linked(longest, all, now, now[d], next + delay)
    <2>1. PICK part : part = Between(asleep, at, at[d], next)
      OBVIOUS
    <2>2. part \in SUBSET asleep
      BY <2>1 DEF Between
    <2>3. Between(all, now, now[d], next + delay) = part \union {c}
      BY <1>a, <1>d, <2>1 DEF Between
    <2>4. IsFiniteSet(part) /\ Cardinality(part) \in Nat
      BY <2>2, Counts
    <2>5. Cardinality(part \union {c}) = Cardinality(part) + 1
      BY <2>2, <2>4, FS_AddElement
    <2>6. PICK base \in Nat : base = Larger(at[d] + Delay + Jitter, longest)
      BY <1>a, <1>d, DelaysAssumption DEF Larger
    <2>7. next <= Beyond(base, Cardinality(part))
      BY <2>1, <2>6 DEF Chain, Linked
    <2>8. next + delay <= Beyond(base, Cardinality(part) + 1)
      <3>1. PICK n \in Nat : n = Cardinality(part)
        BY <2>4
      <3>2. Beyond(base, n + 1) = Beyond(base, n) + Delay + Jitter /\ Beyond(base, n) \in Nat
        BY BeyondFacts
      <3>3. next <= Beyond(base, n)
        BY <2>7, <3>1
      <3>4. next + delay <= Beyond(base, n + 1)
        BY <1>d, <3>2, <3>3, DelaysAssumption
      <3> QED
        BY <3>1, <3>4
    <2> QED
      BY <1>a, <2>3, <2>5, <2>6, <2>8 DEF Linked
  <1>6. Linked(longest, all, now, now[c], next + delay)
    <2>1. PICK part : part = Between(all, now, now[c], next + delay)
      OBVIOUS
    <2>2. IsFiniteSet(part) /\ Cardinality(part) \in Nat
      BY <1>n, <2>1, Counts DEF Between
    <2>3. PICK base \in Nat : base = Larger(next + Delay + Jitter, longest) /\ base >= next + delay
      BY <1>d, DelaysAssumption DEF Larger
    <2>4. base <= Beyond(base, Cardinality(part))
      BY <2>2, BeyondFacts
    <2>5. Beyond(base, Cardinality(part)) \in Nat
      BY <2>2, BeyondFacts
    <2> QED
      BY <1>d, <2>1, <2>3, <2>4, <2>5 DEF Linked
  <1>7. ASSUME NEW d \in all, NEW e \in all, now[d] < now[e]
        PROVE  Linked(longest, all, now, now[d], now[e])
    <2>1. d \in asleep
      BY <1>a, <1>7
    <2>2. Between(all, now, now[d], now[e]) = Between(asleep, at, now[d], now[e])
      BY <1>a DEF Between
    <2>3. CASE e = c
      BY <1>a, <2>1, <2>2, <2>3 DEF Chain, Linked
    <2>4. CASE e \in asleep
      BY <1>a, <1>7, <2>1, <2>2, <2>4 DEF Chain, Linked
    <2> QED
      BY <2>3, <2>4
  <1> QED
    BY <1>1, <1>2, <1>3, <1>4, <1>5, <1>6, <1>7 DEF Chain

(* The next slot is put off, by no more than the longest backoff.           *)
LEMMA ChainPutOff ==
  ASSUME NEW longest \in Nat, NEW asleep, IsFiniteSet(asleep), NEW at, NEW next \in Nat,
         Chain(longest, asleep, at, next), NEW delay \in 0..longest
  PROVE  Chain(longest, asleep, at, Larger(next, delay))
  <1>1. CASE next >= delay
    BY <1>1 DEF Larger
  <1>2. CASE next < delay
    <2>1. Larger(next, delay) = delay /\ delay \in Nat /\ delay <= longest
      BY <1>2 DEF Larger
    <2>2. delay <= Beyond(longest, Cardinality(asleep))
      <3>1. PICK n \in Nat : n = Cardinality(asleep)
        BY FS_CardinalityType
      <3>2. longest <= Beyond(longest, n) /\ Beyond(longest, n) \in Nat
        BY BeyondFacts
      <3>3. delay <= Beyond(longest, n)
        BY <2>1, <3>2
      <3> QED
        BY <3>1, <3>3
    <2>3. \A c \in asleep : at[c] \in Nat /\ at[c] < delay
      BY <1>2, <2>1 DEF Chain
    <2>4. ASSUME NEW c \in asleep PROVE Linked(longest, asleep, at, at[c], delay)
      <3>1. PICK n \in Nat : n = Cardinality(Between(asleep, at, at[c], delay))
        BY Counts DEF Between
      <3>2. PICK base \in Nat : base = Larger(at[c] + Delay + Jitter, longest) /\ base >= longest
        BY <2>3, DelaysAssumption DEF Larger
      <3>3. base <= Beyond(base, n) /\ Beyond(base, n) \in Nat
        BY BeyondFacts
      <3> QED
        BY <2>1, <3>1, <3>2, <3>3 DEF Linked
    <2> QED
      BY <2>1, <2>2, <2>3, <2>4 DEF Chain
  <1> QED
    BY <1>1, <1>2

(* The caller at its slot wakes.                                            *)
LEMMA ChainShrinks ==
  ASSUME NEW longest \in Nat, Delay + Jitter <= longest,
         NEW asleep, IsFiniteSet(asleep), NEW at, NEW next \in Nat,
         Chain(longest, asleep, at, next), NEW c \in asleep, at[c] = 0,
         NEW now, \A d \in asleep \ {c} : now[d] = at[d]
  PROVE  Chain(longest, asleep \ {c}, now, next)
  <1> DEFINE rest == asleep \ {c}
  <1>a. \A d \in rest : now[d] = at[d] /\ now[d] \in Nat /\ 0 < now[d] /\ now[d] < next
    BY DEF Chain
  <1>b. Larger(0 + Delay + Jitter, longest) = longest
    BY DelaysAssumption DEF Larger
  <1>f. IsFiniteSet(rest)
    BY Counts
  <1>s. \A t, u \in Nat : Between(rest, now, t, u) = Between(asleep, at, t, u)
    BY <1>a DEF Between
  <1>1. next <= Beyond(longest, Cardinality(rest))
    <2>1. PICK part : part = Between(asleep, at, 0, next)
      OBVIOUS
    <2>2. part \in SUBSET rest
      BY <2>1 DEF Between
    <2>3. next <= Beyond(longest, Cardinality(part))
      BY <1>b, <2>1 DEF Chain, Linked
    <2> QED
      <3>1. /\ Cardinality(part) \in Nat /\ Cardinality(rest) \in Nat
            /\ Cardinality(part) <= Cardinality(rest)
        BY <1>f, <2>2, Counts
      <3>2. PICK m \in Nat, n \in Nat : m = Cardinality(part) /\ n = Cardinality(rest) /\ m <= n
        BY <3>1
      <3>3. Beyond(longest, m) <= Beyond(longest, n)
        BY BeyondFacts, <3>2
      <3>4. Beyond(longest, m) \in Nat /\ Beyond(longest, n) \in Nat
        BY BeyondFacts
      <3> QED
        BY <2>3, <3>2, <3>3, <3>4
  <1>2. ASSUME NEW d \in rest
        PROVE  now[d] <= Beyond(longest, Cardinality({e \in rest : now[e] < now[d]}))
    <2>1. PICK part : part = Between(asleep, at, 0, at[d])
      OBVIOUS
    <2>2. PICK before : before = {e \in rest : now[e] < now[d]}
      OBVIOUS
    <2>3. part \in SUBSET before /\ before \in SUBSET rest
      BY <1>a, <2>1, <2>2 DEF Between
    <2>4. at[d] <= Beyond(longest, Cardinality(part))
      BY <1>a, <1>b, <2>1 DEF Chain, Linked
    <2>5. IsFiniteSet(before) /\ Cardinality(before) \in Nat
      BY <1>f, <2>3, Counts
    <2>6. Cardinality(part) \in Nat /\ Cardinality(part) <= Cardinality(before)
      BY <2>3, <2>5, Counts
    <2> QED
      <3>2. PICK m \in Nat, n \in Nat : m = Cardinality(part) /\ n = Cardinality(before) /\ m <= n
        BY <2>5, <2>6
      <3>3. Beyond(longest, m) <= Beyond(longest, n)
        BY BeyondFacts, <3>2
      <3>4. Beyond(longest, m) \in Nat /\ Beyond(longest, n) \in Nat
        BY BeyondFacts
      <3>5. now[d] <= Beyond(longest, m) /\ now[d] \in Nat
        BY <1>a, <2>4, <3>2
      <3>6. now[d] <= Beyond(longest, n)
        BY <3>3, <3>4, <3>5
      <3> QED
        BY <2>2, <3>2, <3>6
  <1>3. \A d \in rest : Linked(longest, rest, now, now[d], next)
    BY <1>a, <1>s DEF Chain, Linked
  <1>4. ASSUME NEW d \in rest, NEW e \in rest, now[d] < now[e]
        PROVE  Linked(longest, rest, now, now[d], now[e])
    <2>1. Linked(longest, asleep, at, now[d], now[e])
      BY <1>a, <1>4 DEF Chain
    <2>2. Between(rest, now, now[d], now[e]) = Between(asleep, at, now[d], now[e])
      BY <1>a, <1>s
    <2> QED
      BY <2>1, <2>2 DEF Linked
  <1>5. \A d, e \in rest : now[d] = now[e] => d = e
    BY <1>a DEF Chain
  <1> QED
    BY <1>a, <1>1, <1>2, <1>3, <1>4, <1>5 DEF Chain

(* Time passes and every slot comes closer.                                 *)
LEMMA ChainMoves ==
  ASSUME NEW longest \in Nat, NEW asleep, IsFiniteSet(asleep), NEW at, NEW next \in Nat,
         Chain(longest, asleep, at, next), \A c \in asleep : at[c] > 0,
         NEW now, \A c \in asleep : now[c] = at[c] - 1
  PROVE  Chain(longest, asleep, now, Less(next, 1))
  <1>a. \A c \in asleep : now[c] \in Nat /\ at[c] \in Nat /\ at[c] = now[c] + 1 /\ at[c] < next
    BY DEF Chain
  <1>n. Less(next, 1) \in Nat /\ Less(next, 1) <= next /\ (next > 0 => next = Less(next, 1) + 1)
    BY DEF Less
  <1>p. asleep # {} => next > 0
    BY <1>a
  <1>1. Less(next, 1) <= Beyond(longest, Cardinality(asleep))
    <2>1. Beyond(longest, Cardinality(asleep)) \in Nat
      BY BeyondFacts, FS_CardinalityType
    <2> QED
      BY <1>n, <2>1 DEF Chain
  <1>2. ASSUME NEW c \in asleep
        PROVE  now[c] <= Beyond(longest, Cardinality({d \in asleep : now[d] < now[c]}))
    <2>1. {d \in asleep : now[d] < now[c]} = {d \in asleep : at[d] < at[c]}
      BY <1>a
    <2>2. PICK n \in Nat : n = Cardinality({d \in asleep : at[d] < at[c]})
      BY Counts
    <2>3. at[c] <= Beyond(longest, n) /\ Beyond(longest, n) \in Nat
      BY <2>2, BeyondFacts DEF Chain
    <2> QED
      BY <1>a, <2>1, <2>2, <2>3
  <1>3. ASSUME NEW c \in asleep, NEW u \in Nat, Linked(longest, asleep, at, at[c], u + 1)
        PROVE  Linked(longest, asleep, now, now[c], u)
    <2>1. Between(asleep, now, now[c], u) = Between(asleep, at, at[c], u + 1)
      BY <1>a DEF Between
    <2>2. PICK n \in Nat : n = Cardinality(Between(asleep, at, at[c], u + 1))
      BY Counts DEF Between
    <2>3. PICK before \in Nat : before = Larger(at[c] + Delay + Jitter, longest)
      BY <1>a, DelaysAssumption DEF Larger
    <2>4. PICK base \in Nat : base = Larger(now[c] + Delay + Jitter, longest)
      BY <1>a, DelaysAssumption DEF Larger
    <2>5. before <= base + 1
      BY <1>a, <2>3, <2>4, DelaysAssumption DEF Larger
    <2>6. u + 1 <= Beyond(before, n)
      BY <1>3, <2>2, <2>3 DEF Linked
    <2>7. Beyond(before, n) <= Beyond(base + 1, n)
      BY <2>5, BeyondFacts
    <2>8. Beyond(base + 1, n) = Beyond(base, n) + 1
      <3>1. PICK k \in Nat : k = n * (Delay + Jitter)
        BY DelaysAssumption
      <3> QED
        BY <3>1 DEF Beyond
    <2>9. Beyond(before, n) \in Nat /\ Beyond(base, n) \in Nat
      BY BeyondFacts
    <2> QED
      BY <2>1, <2>2, <2>4, <2>6, <2>7, <2>8, <2>9 DEF Linked
  <1>4. \A c \in asleep : Linked(longest, asleep, now, now[c], Less(next, 1))
    BY <1>3, <1>n, <1>p DEF Chain
  <1>5. ASSUME NEW c \in asleep, NEW d \in asleep, now[c] < now[d]
        PROVE  Linked(longest, asleep, now, now[c], now[d])
    <2>1. at[c] < at[d] /\ at[d] = now[d] + 1 /\ now[d] \in Nat
      BY <1>a, <1>5
    <2>2. Linked(longest, asleep, at, at[c], now[d] + 1)
      BY <2>1 DEF Chain
    <2> QED
      BY <1>3, <2>1, <2>2
  <1>6. \A c \in asleep : now[c] < Less(next, 1)
    BY <1>a, <1>n, <1>p
  <1>7. \A c, d \in asleep : now[c] = now[d] => c = d
    BY <1>a DEF Chain
  <1> QED
    BY <1>a, <1>1, <1>2, <1>4, <1>5, <1>6, <1>7 DEF Chain

LEMMA ChainSame ==
  ASSUME NEW longest, NEW asleep, NEW at, NEW next, Chain(longest, asleep, at, next),
         NEW now, \A c \in asleep : now[c] = at[c]
  PROVE  Chain(longest, asleep, now, next)
  <1>1. \A t, u : Between(asleep, now, t, u) = Between(asleep, at, t, u)
    BY DEF Between
  <1>2. \A t, u : Linked(longest, asleep, at, t, u) => Linked(longest, asleep, now, t, u)
    BY <1>1 DEF Linked
  <1>3. \A c \in asleep : {d \in asleep : now[d] < now[c]} = {d \in asleep : at[d] < at[c]}
    OBVIOUS
  <1> QED
    BY <1>2, <1>3 DEF Chain

(* What the assumption about the constants gives the steps.                 *)
Enough(longest) ==
  /\ longest \in Nat
  /\ IsFiniteSet(Callers)
  /\ MinDelay > 0
  /\ Delay + Jitter <= longest
  /\ \A k : \A h \in Headers, n \in Nat \ {0} : DelayAfter(k, h, n) <= longest
  /\ Beyond(longest, Less(Cardinality(Callers), 2)) + 2 * Timeout < Cooldown

Worst(longest) == Beyond(longest, Less(Cardinality(Callers), 2)) + 2 * Timeout

(* What is left of a caller's slot and requests.                            *)
Rest(c) ==
  timer[c] + (IF pc[c] = "sleep" THEN Timeout ELSE 0)
           + (IF kind[c] = "feed" THEN Timeout ELSE 0)

(* While the circuit is open, who is outstanding ends before it cools down; *)
(* then only a probe is.                                                    *)
Ending(longest) ==
  /\ \A c \in Callers : pc[c] = "fly" => timer[c] <= Timeout
  /\ Open => \A c \in Outstanding : Rest(c) + sinceOpen <= Worst(longest)
  /\ probing => Open
  /\ ProbeAlone

PInv(longest) == IInv /\ Chain(longest, Asleep, timer, nextIn) /\ Ending(longest)

LEMMA WorstFacts ==
  ASSUME NEW longest, Enough(longest)
  PROVE  /\ Worst(longest) \in Nat /\ Worst(longest) < Cooldown
         /\ longest + 2 * Timeout <= Worst(longest)
         /\ \A n \in Nat : n + 2 <= Cardinality(Callers) =>
              Beyond(longest, n) \in Nat /\ Beyond(longest, n) + 2 * Timeout <= Worst(longest)
  <1>1. Cardinality(Callers) \in Nat /\ longest \in Nat /\ Timeout \in Nat
    BY FS_CardinalityType, Numbers DEF Enough
  <1>2. PICK k \in Nat : k = Less(Cardinality(Callers), 2)
    BY <1>1 DEF Less
  <1>3. Beyond(longest, k) \in Nat /\ longest <= Beyond(longest, k)
    BY <1>1, BeyondFacts
  <1>4. ASSUME NEW n \in Nat, n + 2 <= Cardinality(Callers)
        PROVE  Beyond(longest, n) \in Nat /\ Beyond(longest, n) <= Beyond(longest, k)
    <2>1. n <= k
      BY <1>1, <1>2, <1>4 DEF Less
    <2> QED
      BY <1>1, <2>1, BeyondFacts
  <1> QED
    BY <1>1, <1>2, <1>3, <1>4 DEF Worst, Enough

LEMMA OutlastsIsEnough ==
  ASSUME CooldownOutlasts PROVE \E longest \in Nat : Enough(longest)
  <1>1. PICK longest \in 0..Cooldown :
          /\ {Delay + Jitter, MaxReset, MaxRetryAfter, NoRetryAfter} \subseteq 0..longest
          /\ \A n \in DOMAIN Backoff : Backoff[n] <= longest
          /\ longest + Less(Cardinality(Callers), 2) * (Delay + Jitter) + 2 * Timeout < Cooldown
    BY DEF CooldownOutlasts
  <1>2. ASSUME NEW k, NEW h \in Headers, NEW n \in Nat \ {0}
        PROVE  DelayAfter(k, h, n) <= longest
    <2>1. FromTable(n) <= longest
      <3>1. Len(Backoff) \in Nat /\ Len(Backoff) > 0 /\ DOMAIN Backoff = 1..Len(Backoff)
        BY BackoffAssumption
      <3>2. Smaller(n, Len(Backoff)) \in DOMAIN Backoff
        BY <3>1 DEF Smaller
      <3> QED
        BY <1>1, <3>2 DEF FromTable
    <2>2. h.secs \in Nat
      <3>1. CASE h = None
        BY <3>1 DEF None
      <3>2. CASE h \in [name : {"x-ratelimit-reset", "Retry-After"}, secs : Seconds]
        BY <3>2, HeadersAssumption
      <3> QED
        BY <3>1, <3>2 DEF Headers
    <2>3. RetryAfter(k, h) \in Nat /\ RetryAfter(k, h) <= longest
      BY <1>1, <2>2, TimesAssumption DEF RetryAfter, Smaller
    <2>4. Smaller(h.secs, MaxReset) <= longest
      BY <1>1, <2>2, TimesAssumption DEF Smaller
    <2> QED
      BY <2>1, <2>3, <2>4 DEF DelayAfter
  <1>3. longest \in Nat /\ Delay + Jitter <= longest
    BY <1>1, Numbers, DelaysAssumption
  <1> QED
    BY <1>1, <1>2, <1>3 DEF Enough, Beyond, CooldownOutlasts

LEMMA InitPInv == ASSUME NEW longest, Enough(longest), Init PROVE PInv(longest)
  <1>1. IInv
    BY InitIInv
  <1>2. Asleep = {} /\ Outstanding = {} /\ nextIn = 0
    BY DEF Init, Asleep, Outstanding
  <1>3. Cardinality({}) = 0 /\ Beyond(longest, 0) = longest
    BY FS_EmptySet, BeyondFacts DEF Enough
  <1>4. Chain(longest, Asleep, timer, nextIn)
    BY <1>2, <1>3 DEF Chain, Enough
  <1>5. Ending(longest)
    BY <1>2 DEF Init, Ending, ProbeAlone
  <1> QED
    BY <1>1, <1>4, <1>5 DEF PInv

(* The chain of slots through every step.                                   *)
LEMMA StepKeepsChain ==
  ASSUME NEW longest, Enough(longest), PInv(longest), [Next]_vars
  PROVE  Chain(longest, Asleep, timer, nextIn)'
  <1> USE DEF circuit, callers, history
  <1>a. PICK asleep, at, next, asleepNow, now, nextNow :
          /\ asleep = Asleep /\ at = timer /\ next = nextIn
          /\ asleepNow = Asleep' /\ now = timer' /\ nextNow = nextIn'
    OBVIOUS
  <1>b. /\ Chain(longest, asleep, at, next) /\ next \in Nat /\ longest \in Nat
        /\ IsFiniteSet(asleep)
    BY <1>a, Counts DEF PInv, IInv, TypeOK, Enough, Asleep
  <1>c. /\ pc \in [Callers -> {"idle", "ask", "sleep", "fly"}] /\ timer \in [Callers -> Nat]
        /\ Asleep = {c \in Callers : pc[c] = "sleep"}
        /\ Asleep' = {c \in Callers : pc'[c] = "sleep"}
    BY DEF PInv, IInv, TypeOK, Asleep
  <1> SUFFICES Chain(longest, asleepNow, now, nextNow)
    BY <1>a
  <1>1. ASSUME Asleep' = Asleep, \A c \in Asleep : timer'[c] = timer[c], UNCHANGED nextIn
        PROVE  Chain(longest, asleepNow, now, nextNow)
    BY <1>1, <1>a, <1>b, ChainSame
  <1>2. CASE UNCHANGED vars \/ Save
    BY <1>1, <1>2 DEF vars, Save, Asleep
  <1>3. CASE Restart
    <2>1. asleepNow = {} /\ nextNow = 0
      BY <1>3, <1>a, <1>c DEF Restart
    <2>2. Cardinality({}) = 0 /\ Beyond(longest, 0) = longest
      BY <1>b, FS_EmptySet, BeyondFacts
    <2> QED
      BY <1>b, <2>1, <2>2 DEF Chain
  <1>4. CASE Tick
    <2>1. asleepNow = asleep /\ nextNow = Less(next, 1)
      BY <1>4, <1>a DEF Tick, Asleep
    <2>2. \A c \in asleep : at[c] > 0 /\ now[c] = at[c] - 1
      BY <1>4, <1>a, <1>c DEF Tick, Outstanding, Less
    <2> QED
      BY <1>b, <2>1, <2>2, ChainMoves
  <1>5. ASSUME NEW c \in Callers, Start(c) \/ CallerStep(c)
        PROVE  Chain(longest, asleepNow, now, nextNow)
    <2>1. CASE Start(c) \/ Refused(c) \/ OnSuccess(c) \/ FallBack(c) \/ Unreported(c)
      <3>1. pc[c] # "sleep" /\ pc'[c] # "sleep" /\ UNCHANGED nextIn
        BY <1>c, <2>1 DEF Start, Refused, OnSuccess, FallBack, Unreported, End
      <3>2. \A d \in Callers : d # c => pc'[d] = pc[d] /\ timer'[d] = timer[d]
        BY <1>c, <2>1 DEF Start, Refused, OnSuccess, FallBack, Unreported, End
      <3> QED
        BY <1>1, <1>c, <3>1, <3>2
    <2>2. CASE Acquire(c) \/ Probe(c)
      <3>1. PICK delay \in MinDelay..(Delay + Jitter) : nextIn' = nextIn + delay
        BY <2>2 DEF Acquire, Probe, Reserve
      <3>2. /\ pc[c] = "ask" /\ pc' = [pc EXCEPT ![c] = "sleep"]
            /\ timer' = [timer EXCEPT ![c] = nextIn]
        BY <2>2 DEF Acquire, Probe, Reserve
      <3>3. /\ asleepNow = asleep \union {c} /\ c \notin asleep
            /\ now[c] = next /\ \A d \in asleep : now[d] = at[d]
        BY <1>a, <1>c, <3>2
      <3>4. MinDelay > 0 /\ nextNow = next + delay
        BY <1>a, <3>1 DEF Enough
      <3>5. Chain(longest, asleep \union {c}, now, next + delay)
        BY <1>b, <3>3, <3>4, ChainGrows
      <3> QED
        BY <3>3, <3>4, <3>5
    <2>3. CASE Wake(c)
      <3>1. /\ pc[c] = "sleep" /\ timer[c] = 0 /\ UNCHANGED nextIn
            /\ pc' = [pc EXCEPT ![c] = "fly"] /\ timer' = [timer EXCEPT ![c] = Timeout]
        BY <2>3 DEF Wake
      <3>2. /\ asleepNow = asleep \ {c} /\ c \in asleep /\ at[c] = 0 /\ nextNow = next
            /\ \A d \in asleep \ {c} : now[d] = at[d]
        BY <1>a, <1>c, <3>1
      <3>3. Delay + Jitter <= longest
        BY DEF Enough
      <3>4. Chain(longest, asleep \ {c}, now, next)
        BY <1>b, <3>2, <3>3, ChainShrinks
      <3> QED
        BY <3>2, <3>4
    <2>4. ASSUME NEW h \in Headers, On429(c, h)
          PROVE  Chain(longest, asleepNow, now, nextNow)
      <3>1. PICK n : n = Smaller(count + 1, MaxCount)
        OBVIOUS
      <3>2. n \in Nat \ {0}
        BY <3>1, Numbers DEF PInv, IInv, TypeOK, Smaller
      <3>3. PICK delay : delay = DelayAfter(kind[c], h, n)
        OBVIOUS
      <3>4. delay \in 0..longest
        BY <1>b, <3>2, <3>3, DelayType DEF Enough
      <3>5. nextNow = Larger(next, delay)
        BY <1>a, <2>4, <3>1, <3>3 DEF On429
      <3>6. pc[c] = "fly" /\ pc'[c] # "sleep"
        BY <1>c, <2>4 DEF On429, End
      <3>7. \A d \in Callers : d # c => pc'[d] = pc[d] /\ timer'[d] = timer[d]
        BY <1>c, <2>4 DEF On429, End
      <3>8. asleepNow = asleep /\ \A d \in asleep : now[d] = at[d]
        BY <1>a, <1>c, <3>6, <3>7
      <3>9. Chain(longest, asleep, at, nextNow)
        BY <1>b, <3>4, <3>5, ChainPutOff
      <3> QED
        BY <3>8, <3>9, ChainSame
    <2> QED
      BY <1>5, <2>1, <2>2, <2>3, <2>4 DEF CallerStep
  <1> QED
    BY <1>2, <1>3, <1>4, <1>5 DEF Next

(* An open circuit and what is outstanding, through every step.             *)
LEMMA StepKeepsEnding ==
  ASSUME NEW longest, Enough(longest), PInv(longest), [Next]_vars
  PROVE  Ending(longest)'
  <1> USE DEF circuit, callers, history
  <1>w. /\ Worst(longest) \in Nat /\ Worst(longest) < Cooldown
        /\ longest \in Nat /\ longest + 2 * Timeout <= Worst(longest)
        /\ Timeout \in Nat /\ MaxConsecutive \in Nat \ {0} /\ Cooldown \in Nat \ {0}
        /\ IsFiniteSet(Callers)
    BY WorstFacts, Numbers DEF Enough
  <1>t. /\ pc \in [Callers -> {"idle", "ask", "sleep", "fly"}] /\ timer \in [Callers -> Nat]
        /\ kind \in [Callers -> {"feed", "urllib", "prewarm", "tap"}]
        /\ count \in Nat /\ count <= MaxCount /\ MaxCount \in Nat
        /\ sinceOpen \in 0..Cooldown /\ probing \in BOOLEAN /\ nextIn \in Nat
    BY Numbers DEF PInv, IInv, TypeOK
  <1>o. /\ Outstanding = {c \in Callers : pc[c] \in {"sleep", "fly"}}
        /\ Outstanding' = {c \in Callers : pc'[c] \in {"sleep", "fly"}}
    BY DEF Outstanding
  <1>e. /\ \A c \in Callers : pc[c] = "fly" => timer[c] <= Timeout
        /\ Open => \A c \in Outstanding : Rest(c) + sinceOpen <= Worst(longest)
        /\ probing => Open
        /\ probing => \A c, d \in Outstanding : c = d
    BY DEF PInv, Ending, ProbeAlone
  <1>r. \A c \in Callers : Rest(c) \in Nat
    BY <1>t, <1>w DEF Rest
  <1>1. ASSUME UNCHANGED <<count, sinceOpen, probing>>, Outstanding' \subseteq Outstanding,
               \A c \in Outstanding' : Rest(c)' <= Rest(c) /\ Rest(c)' \in Nat,
               \A c \in Callers : pc'[c] = "fly" => timer'[c] <= Timeout
        PROVE  Ending(longest)'
    <2>1. Open' => \A c \in Outstanding' : Rest(c)' + sinceOpen' <= Worst(longest)
      <3> SUFFICES ASSUME Open', NEW c \in Outstanding' PROVE Rest(c)' + sinceOpen' <= Worst(longest)
        OBVIOUS
      <3>1. c \in Outstanding /\ c \in Callers /\ Open
        BY <1>1, <1>o DEF Open
      <3>2. Rest(c) + sinceOpen <= Worst(longest) /\ Rest(c) \in Nat
        BY <1>e, <1>r, <3>1
      <3> QED
        BY <1>1, <1>t, <1>w, <3>2
    <2> QED
      BY <1>1, <1>e, <2>1 DEF Ending, ProbeAlone, Open, Worst
  <1>2. CASE UNCHANGED vars \/ Save
    BY <1>1, <1>2, <1>e, <1>o, <1>r DEF vars, Save, Rest
  <1>3. CASE Restart
    <2>1. Outstanding' = {} /\ probing' = FALSE /\ \A c \in Callers : pc'[c] = "idle"
      BY <1>3, <1>o DEF Restart
    <2> QED
      BY <2>1 DEF Ending, ProbeAlone
  <1>4. CASE Tick
    <2>1. /\ UNCHANGED <<count, probing, pc, kind>> /\ Outstanding' = Outstanding
          /\ sinceOpen' <= sinceOpen + 1 /\ sinceOpen' \in Nat
          /\ \A c \in Outstanding : timer[c] > 0 /\ timer'[c] = timer[c] - 1
      BY <1>4, <1>t, <1>o, <1>w DEF Tick, Less, Smaller
    <2>2. \A c \in Outstanding : Rest(c)' = Rest(c) - 1 /\ Rest(c) \in Nat
      BY <1>t, <1>o, <1>r, <1>w, <2>1 DEF Rest
    <2>3. Open' => \A c \in Outstanding' : Rest(c)' + sinceOpen' <= Worst(longest)
      <3> SUFFICES ASSUME Open', NEW c \in Outstanding' PROVE Rest(c)' + sinceOpen' <= Worst(longest)
        OBVIOUS
      <3>1. Open /\ c \in Outstanding
        BY <2>1 DEF Open
      <3> QED
        BY <1>e, <1>t, <1>w, <2>1, <2>2, <3>1
    <2>4. \A c \in Callers : pc'[c] = "fly" => timer'[c] <= Timeout
      BY <1>e, <1>t, <1>o, <1>w, <2>1
    <2> QED
      BY <1>e, <2>1, <2>3, <2>4 DEF Ending, ProbeAlone, Open, Worst
  <1>5. ASSUME NEW c \in Callers, Start(c) \/ CallerStep(c)
        PROVE  Ending(longest)'
    <2>f. ASSUME pc' = [pc EXCEPT ![c] = "idle"] \/ pc' = [pc EXCEPT ![c] = "ask"],
                 \A d \in Callers : d # c => timer'[d] = timer[d] /\ kind'[d] = kind[d]
          PROVE  /\ Outstanding' = Outstanding \ {c}
                 /\ \A d \in Outstanding' : Rest(d)' = Rest(d) /\ Rest(d) \in Nat
                 /\ \A d \in Callers : pc'[d] = "fly" => timer'[d] <= Timeout
      BY <1>e, <1>o, <1>r, <1>t, <2>f DEF Rest
    <2>1. CASE Start(c) \/ Refused(c) \/ Unreported(c)
      <3>1. /\ pc' = [pc EXCEPT ![c] = "idle"] \/ pc' = [pc EXCEPT ![c] = "ask"]
            /\ \A d \in Callers : d # c => timer'[d] = timer[d] /\ kind'[d] = kind[d]
            /\ UNCHANGED <<count, sinceOpen, probing>>
        BY <1>t, <2>1 DEF Start, Refused, Unreported, End
      <3>2. /\ Outstanding' = Outstanding \ {c}
            /\ \A d \in Outstanding' : Rest(d)' = Rest(d) /\ Rest(d) \in Nat
            /\ \A d \in Callers : pc'[d] = "fly" => timer'[d] <= Timeout
        BY <2>f, <3>1
      <3> QED
        BY <1>1, <3>1, <3>2
    <2>2. CASE OnSuccess(c)
      <3>1. /\ pc' = [pc EXCEPT ![c] = "idle"]
            /\ \A d \in Callers : d # c => timer'[d] = timer[d] /\ kind'[d] = kind[d]
            /\ count' = 0 /\ probing' = FALSE
        BY <1>t, <2>2 DEF OnSuccess, End
      <3>2. \A d \in Callers : pc'[d] = "fly" => timer'[d] <= Timeout
        BY <2>f, <3>1
      <3> QED
        BY <1>w, <3>1, <3>2 DEF Ending, ProbeAlone, Open
    <2>3. CASE FallBack(c)
      <3>1. /\ pc[c] = "fly" /\ kind[c] = "feed" /\ UNCHANGED <<count, sinceOpen, probing, pc>>
            /\ kind' = [kind EXCEPT ![c] = "urllib"] /\ timer' = [timer EXCEPT ![c] = Timeout]
        BY <2>3 DEF FallBack
      <3>2. Outstanding' = Outstanding
        BY <1>o, <3>1
      <3>3. Rest(c)' = Timeout /\ Rest(c) = timer[c] + Timeout
        BY <1>t, <1>w, <3>1 DEF Rest
      <3>4. \A d \in Callers : d # c => Rest(d)' = Rest(d)
        BY <1>t, <3>1 DEF Rest
      <3>5. \A d \in Outstanding' : Rest(d)' <= Rest(d) /\ Rest(d)' \in Nat
        BY <1>o, <1>r, <1>t, <1>w, <3>3, <3>4
      <3>6. \A d \in Callers : pc'[d] = "fly" => timer'[d] <= Timeout
        BY <1>e, <1>t, <1>w, <3>1
      <3> QED
        BY <1>1, <3>1, <3>2, <3>5, <3>6
    <2>4. CASE Wake(c)
      <3>1. /\ pc[c] = "sleep" /\ timer[c] = 0 /\ UNCHANGED <<count, sinceOpen, probing, kind>>
            /\ pc' = [pc EXCEPT ![c] = "fly"] /\ timer' = [timer EXCEPT ![c] = Timeout]
        BY <2>4 DEF Wake
      <3>2. Outstanding' = Outstanding
        BY <1>o, <1>t, <3>1
      <3>3. Rest(c)' = Rest(c)
        BY <1>t, <1>w, <3>1 DEF Rest
      <3>4. \A d \in Callers : d # c => Rest(d)' = Rest(d)
        BY <1>t, <3>1 DEF Rest
      <3>5. \A d \in Outstanding' : Rest(d)' <= Rest(d) /\ Rest(d)' \in Nat
        BY <1>o, <1>r, <3>3, <3>4
      <3>6. \A d \in Callers : pc'[d] = "fly" => timer'[d] <= Timeout
        BY <1>e, <1>t, <1>w, <3>1
      <3> QED
        BY <1>1, <3>1, <3>2, <3>5, <3>6
    <2>5. CASE Acquire(c)
      <3>1. /\ ~Open /\ UNCHANGED <<count, sinceOpen, probing>>
            /\ pc' = [pc EXCEPT ![c] = "sleep"] /\ timer' = [timer EXCEPT ![c] = nextIn]
        BY <2>5 DEF Acquire, Reserve
      <3>2. ~Open' /\ ~probing'
        BY <1>e, <3>1 DEF Open
      <3>3. \A d \in Callers : pc'[d] = "fly" => timer'[d] <= Timeout
        BY <1>e, <1>t, <3>1
      <3> QED
        BY <3>2, <3>3 DEF Ending, ProbeAlone
    <2>6. CASE Probe(c)
      <3>1. /\ Open /\ sinceOpen >= Cooldown /\ probing' /\ sinceOpen' = 0
            /\ UNCHANGED <<count, kind>>
            /\ pc' = [pc EXCEPT ![c] = "sleep"] /\ timer' = [timer EXCEPT ![c] = nextIn]
        BY <2>6 DEF Probe, Reserve
      <3>2. Outstanding = {}
        <4> SUFFICES ASSUME NEW d \in Outstanding PROVE FALSE
          OBVIOUS
        <4>1. Rest(d) + sinceOpen <= Worst(longest) /\ Rest(d) \in Nat
          BY <1>e, <1>o, <1>r, <3>1
        <4> QED
          BY <1>t, <1>w, <3>1, <4>1
      <3>3. Outstanding' = {c} /\ \A d \in Callers : d # c => pc'[d] \notin {"sleep", "fly"}
        BY <1>o, <1>t, <3>1, <3>2
      <3>4. nextIn <= longest
        <4>1. Asleep = {}
          BY <1>o, <3>2 DEF Asleep
        <4>2. Cardinality({}) = 0 /\ Beyond(longest, 0) = longest
          BY <1>w, FS_EmptySet, BeyondFacts
        <4>3. nextIn <= Beyond(longest, Cardinality(Asleep))
          BY DEF PInv, Chain
        <4> QED
          BY <4>1, <4>2, <4>3
      <3>5. Rest(c)' <= longest + 2 * Timeout /\ Rest(c)' \in Nat
        BY <1>t, <1>w, <3>1, <3>4 DEF Rest
      <3>6. \A d \in Outstanding' : Rest(d)' + sinceOpen' <= Worst(longest)
        BY <1>w, <3>1, <3>3, <3>5
      <3>7. Open' /\ \A d \in Callers : pc'[d] = "fly" => timer'[d] <= Timeout
        BY <1>t, <3>1, <3>3 DEF Open
      <3> QED
        BY <3>3, <3>6, <3>7 DEF Ending, ProbeAlone, Worst
    <2>7. ASSUME NEW h \in Headers, On429(c, h) PROVE Ending(longest)'
      <3>n. PICK n : n = Smaller(count + 1, MaxCount)
        OBVIOUS
      <3>1. /\ pc[c] = "fly" /\ count' = n
            /\ \/ ((~Open /\ n >= MaxConsecutive) \/ probing) /\ sinceOpen' = 0 /\ probing' = FALSE
               \/ ~((~Open /\ n >= MaxConsecutive) \/ probing) /\ UNCHANGED <<sinceOpen, probing>>
            /\ pc' = [pc EXCEPT ![c] = "idle"] \/ pc' = [pc EXCEPT ![c] = "ask"]
            /\ \A d \in Callers : d # c => timer'[d] = timer[d] /\ kind'[d] = kind[d]
        BY <1>t, <2>7, <3>n DEF On429, End
      <3>2. n \in Nat /\ count <= n
        BY <1>t, <3>n DEF Smaller
      <3>3. /\ Outstanding' = Outstanding \ {c} /\ c \in Outstanding
            /\ \A d \in Outstanding' : Rest(d)' = Rest(d) /\ Rest(d) \in Nat
            /\ \A d \in Callers : pc'[d] = "fly" => timer'[d] <= Timeout
        BY <2>f, <3>1, <1>o
      <3>4. ~probing'
        BY <3>1, <1>t
      <3>5. Open' <=> n >= MaxConsecutive
        BY <3>1 DEF Open
      <3>6. ASSUME Open', NEW d \in Outstanding' PROVE Rest(d)' + sinceOpen' <= Worst(longest)
        <4>1. CASE probing
          BY <1>e, <3>3, <3>6, <4>1
        <4>2. CASE ~probing /\ Open
          <5>1. sinceOpen' = sinceOpen /\ d \in Outstanding
            BY <3>1, <3>3, <3>6, <4>2
          <5> QED
            BY <1>e, <3>3, <3>6, <4>2, <5>1
        <4>3. CASE ~Open
          <5>1. sinceOpen' = 0 /\ d \in Callers /\ d # c
            BY <1>o, <3>1, <3>3, <3>5, <3>6, <4>3
          <5>2. CASE pc[d] = "fly"
            <6>1. Rest(d) <= 2 * Timeout
              BY <1>e, <1>t, <1>w, <5>1, <5>2 DEF Rest
            <6> QED
              BY <1>r, <1>w, <3>3, <3>6, <5>1, <6>1
          <5>3. CASE pc[d] = "sleep"
            <6>1. PICK before : before = {e \in Asleep : timer[e] < timer[d]}
              OBVIOUS
            <6>2. timer[d] <= Beyond(longest, Cardinality(before))
              BY <5>1, <5>3, <6>1 DEF PInv, Chain, Asleep
            <6>3. before \in SUBSET ((Callers \ {c}) \ {d})
              BY <1>t, <3>1, <5>1, <6>1 DEF Asleep
            <6>4. /\ IsFiniteSet(Callers \ {c})
                  /\ Cardinality(Callers \ {c}) = Cardinality(Callers) - 1
              BY <1>w, FS_RemoveElement
            <6>5. /\ IsFiniteSet((Callers \ {c}) \ {d})
                  /\ Cardinality((Callers \ {c}) \ {d}) = Cardinality(Callers) - 2
              <7>1. Cardinality((Callers \ {c}) \ {d}) = Cardinality(Callers \ {c}) - 1
                BY <5>1, <6>4, FS_RemoveElement
              <7>2. Cardinality(Callers) \in Nat
                BY <1>w, FS_CardinalityType
              <7> QED
                BY <6>4, <7>1, <7>2, FS_RemoveElement
            <6>6. PICK m \in Nat : m = Cardinality(before) /\ m + 2 <= Cardinality(Callers)
              <7>1. /\ Cardinality(before) \in Nat
                    /\ Cardinality(before) <= Cardinality((Callers \ {c}) \ {d})
                BY <6>3, <6>5, Counts
              <7>2. Cardinality(Callers) \in Nat
                BY <1>w, FS_CardinalityType
              <7> QED
                BY <6>5, <7>1, <7>2
            <6>7. Beyond(longest, m) \in Nat /\ Beyond(longest, m) + 2 * Timeout <= Worst(longest)
              BY <6>6, WorstFacts
            <6>8. Rest(d) <= timer[d] + 2 * Timeout /\ timer[d] \in Nat
              BY <1>t, <1>w, <5>1 DEF Rest
            <6>9. Rest(d) <= Worst(longest)
              BY <1>r, <1>w, <5>1, <6>2, <6>6, <6>7, <6>8
            <6> QED
              BY <1>r, <1>w, <3>3, <3>6, <5>1, <6>9
          <5> QED
            BY <1>o, <1>t, <3>3, <3>6, <5>1, <5>2, <5>3
        <4> QED
          BY <4>1, <4>2, <4>3
      <3> QED
        BY <3>3, <3>4, <3>6 DEF Ending, ProbeAlone, Worst
    <2> QED
      BY <1>5, <2>1, <2>2, <2>3, <2>4, <2>5, <2>6, <2>7 DEF CallerStep
  <1> QED
    BY <1>2, <1>3, <1>4, <1>5 DEF Next

(* When the cooldown outlasts what may be outstanding, an answer while the  *)
(* circuit probes is the probe's own (on_success and on_429 take it so).    *)
THEOREM ProbeIsAlone == ASSUME CooldownOutlasts PROVE Spec => []ProbeAlone
  <1>1. PICK longest \in Nat : Enough(longest)
    BY OutlastsIsEnough
  <1>2. Init => PInv(longest)
    BY <1>1, InitPInv
  <1>3. PInv(longest) /\ [Next]_vars => PInv(longest)'
    BY <1>1, StepKeepsIInv, StepKeepsChain, StepKeepsEnding DEF PInv
  <1>4. PInv(longest) => ProbeAlone
    BY DEF PInv, Ending
  <1> QED
    BY <1>2, <1>3, <1>4, PTL DEF Spec

-----------------------------------------------------------------------------
(* When the fetch queue is idle, and when its tasks leave.                  *)

\* The timers of the queue keep their types.
TimersType ==
  /\ gap \in {FeedStride, PrewarmStride}
  /\ sinceFinish \in 0 .. MaxGap
  /\ sinceFetch \in 0 .. MaxGap

\* Between two tasks the queue's timer, which starts at the end of the last
\* one, never runs ahead of what has really passed since the last fetch.
FinishIsLastFetch == running = NoTask => sinceFinish <= sinceFetch

QueueInv == TimersType /\ FinishIsLastFetch /\ DrainedIsDone

\* Max and Min of two numbers.
LEMMA OfTwo ==
  ASSUME NEW a \in Int, NEW b \in Int
  PROVE  /\ Max({a, b}) = IF a >= b THEN a ELSE b
         /\ Min({a, b}) = IF a <= b THEN a ELSE b
<1> DEFINE larger == IF a >= b THEN a ELSE b
           smaller == IF a <= b THEN a ELSE b
<1>1. larger \in {a, b} /\ \A y \in {a, b} : larger >= y
  OBVIOUS
<1>2. \A n \in {a, b} : (\A y \in {a, b} : n >= y) => n = larger
  BY <1>1
<1>3. smaller \in {a, b} /\ \A y \in {a, b} : smaller =< y
  OBVIOUS
<1>4. \A n \in {a, b} : (\A y \in {a, b} : n =< y) => n = smaller
  BY <1>3
<1> HIDE DEF larger, smaller
<1>5. Max({a, b}) = larger
  BY <1>1, <1>2 DEF Max
<1>6. Min({a, b}) = smaller
  BY <1>3, <1>4 DEF Min
<1> QED
  BY <1>5, <1>6 DEF larger, smaller

LEMMA Strides ==
  /\ FeedStride \in Nat /\ PrewarmStride \in Nat /\ MaxGap \in Nat
  /\ FeedStride <= MaxGap /\ PrewarmStride <= MaxGap
<1>1. FeedStride \in Nat /\ PrewarmStride \in Nat
  BY QueueAssumption
<1> QED
  BY <1>1, OfTwo DEF MaxGap

\* A timer that has ticked has not passed its cap, nor another timer that was
\* ahead of it.
LEMMA TickOrder ==
  ASSUME NEW a \in 0 .. MaxGap, NEW b \in 0 .. MaxGap, a <= b
  PROVE  /\ Min({a + 1, MaxGap}) \in 0 .. MaxGap
         /\ Min({a + 1, MaxGap}) <= Min({b + 1, MaxGap})
<1>1. /\ Min({a + 1, MaxGap}) = IF a + 1 <= MaxGap THEN a + 1 ELSE MaxGap
      /\ Min({b + 1, MaxGap}) = IF b + 1 <= MaxGap THEN b + 1 ELSE MaxGap
  BY Strides, OfTwo
<1> QED
  BY <1>1, Strides

LEMMA QueueStarts == QueueInit => QueueInv
BY Strides DEF QueueInit, QueueInv, TimersType, FinishIsLastFetch, DrainedIsDone

\* Every step keeps the invariant, and a task leaves the queue only when the
\* gap has passed since the last fetch.
LEMMA QueueKeeps == QueueInv /\ [QueueNext]_queue =>
                     QueueInv' /\ (running = NoTask /\ running' # NoTask => sinceFetch >= gap)
<1> SUFFICES ASSUME QueueInv, [QueueNext]_queue
             PROVE  QueueInv' /\ (running = NoTask /\ running' # NoTask => sinceFetch >= gap)
  OBVIOUS
<1>1. CASE UNCHANGED queue
  BY <1>1 DEF queue, QueueInv, TimersType, FinishIsLastFetch, DrainedIsDone
\* Tasks enter the queue together with the fall of the idle event.
<1>2. CASE Enqueued
  BY <1>2 DEF Enqueued, Enqueue, QueueInv, TimersType, FinishIsLastFetch, DrainedIsDone
<1>3. CASE PopReady
  <2>1. sinceFinish >= gap /\ sinceFinish <= sinceFetch /\ ~idle
    BY <1>3 DEF PopReady, QueueInv, FinishIsLastFetch, DrainedIsDone
  <2>2. sinceFetch >= gap
    BY <2>1, Strides DEF QueueInv, TimersType
  <2>3. QueueInv'
    BY <1>3, <2>1 DEF PopReady, QueueInv, TimersType, FinishIsLastFetch, DrainedIsDone
  <2> QED
    BY <2>2, <2>3
<1>4. CASE SeesEmpty
  BY <1>4 DEF SeesEmpty, QueueInv, TimersType, FinishIsLastFetch, DrainedIsDone
<1>5. CASE TaskReturns
  BY <1>5, Strides DEF TaskReturns, QueueInv, TimersType, FinishIsLastFetch, DrainedIsDone
<1>6. CASE QueueTick
  <2>1. heap = <<>> => heap' = <<>>
    BY <1>6 DEF QueueTick
  <2>2. TimersType' /\ FinishIsLastFetch'
    <3>1. /\ sinceFinish \in 0 .. MaxGap /\ sinceFetch \in 0 .. MaxGap
          /\ running = NoTask => sinceFinish <= sinceFetch
      BY DEF QueueInv, TimersType, FinishIsLastFetch
    <3>2. /\ sinceFinish' = Min({sinceFinish + 1, MaxGap}) /\ UNCHANGED <<running, gap>>
          /\ sinceFetch' = IF running # NoTask THEN 0 ELSE Min({sinceFetch + 1, MaxGap})
      BY <1>6 DEF QueueTick
    <3>3. TimersType'
      BY <3>1, <3>2, Strides, TickOrder DEF QueueInv, TimersType
    <3>4. FinishIsLastFetch'
      BY <3>1, <3>2, TickOrder DEF FinishIsLastFetch
    <3> QED
      BY <3>3, <3>4
  <2> QED
    BY <1>6, <2>1, <2>2 DEF QueueTick, QueueInv, DrainedIsDone
<1> QED
  BY <1>1, <1>2, <1>3, <1>4, <1>5, <1>6 DEF QueueNext

LEMMA QueueInvariant == QueueSpec => []QueueInv
BY QueueStarts, QueueKeeps, PTL DEF QueueSpec

\* The idle event is never up while a task waits or runs, whoever enqueues and
\* however long tasks run (_pop_ready, enqueue_spread).
THEOREM IdleOnlyWhenDrained == QueueSpec => []DrainedIsDone
<1>1. QueueInv => DrainedIsDone
  BY DEF QueueInv
<1> QED
  BY <1>1, QueueInvariant, PTL

\* The spacing is kept from the end of the last fetch, however long it ran and
\* whatever has been queued meanwhile (_last_dispatch_at, _current_min_gap).
THEOREM SpacingIsKept == QueueSpec => SpacingKept
<1>1. QueueInv /\ [QueueNext]_queue =>
        [running = NoTask /\ running' # NoTask => sinceFetch >= gap]_queue
  BY QueueKeeps
<1> QED
  BY <1>1, QueueInvariant, PTL DEF QueueSpec, SpacingKept

-----------------------------------------------------------------------------
(* Induction up to a bound, and that a recursion over a list has a function, *)
(* both from the least members of sets of numbers.                           *)

LEMMA Least ==
  ASSUME NEW T \in SUBSET Nat, T # {}
  PROVE  \E x \in T : \A y \in T : x <= y
<1>1. PICK x \in T : \A y \in T : ~ (<<y, x>> \in OpToRel(<, Nat))
  BY NatLessThanWellFounded, WFMin, Zenon
<1>2. \A y \in T : ~ (y < x)
  BY <1>1 DEF OpToRel
<1> QED
  BY <1>2

LEMMA InductiveTo ==
  ASSUME NEW N \in Nat, NEW T, 0 \in T, \A n \in 0 .. N - 1 : n \in T => n + 1 \in T
  PROVE  \A n \in 0 .. N : n \in T
<1> DEFINE missing == {n \in 0 .. N : n \notin T}
<1> SUFFICES ASSUME missing # {} PROVE FALSE
  OBVIOUS
<1>1. missing \in SUBSET Nat
  OBVIOUS
<1>2. PICK x \in missing : \A y \in missing : x <= y
  <2> HIDE DEF missing
  <2> QED
    BY <1>1, Least
<1>3. x \in 1 .. N /\ x \notin T
  BY <1>2
<1>4. x - 1 \in 0 .. N - 1 /\ x - 1 \notin missing /\ x - 1 + 1 = x
  BY <1>2, <1>3
<1>5. x - 1 \in T
  BY <1>4
<1> QED
  BY <1>3, <1>4, <1>5

\* f starts with b and goes on by the steps G.
Recurses(f, S, b, N, G) ==
  /\ f \in [0 .. N -> S] /\ f[0] = b
  /\ \A i \in 1 .. N : f[i] = G[<<f[i - 1], i>>]

LEMMA Recursion ==
  ASSUME NEW S, NEW b \in S, NEW N \in Nat, NEW G \in [S \X (1 .. N) -> S]
  PROVE  \E f : Recurses(f, S, b, N, G)
<1> DEFINE Good(n) == \E f : Recurses(f, S, b, n, G)
           T == {n \in 0 .. N : Good(n)}
<1>1. Good(0)
  <2> DEFINE f == [i \in 0 .. 0 |-> b]
  <2>1. f \in [0 .. 0 -> S] /\ f[0] = b /\ \A i \in 1 .. 0 : FALSE
    OBVIOUS
  <2> HIDE DEF f
  <2> QED
    BY <2>1 DEF Recurses
<1>2. ASSUME NEW n \in 0 .. N - 1, Good(n) PROVE Good(n + 1)
  <2>1. PICK f \in [0 .. n -> S] : f[0] = b /\ \A i \in 1 .. n : f[i] = G[<<f[i - 1], i>>]
    BY <1>2 DEF Recurses
  <2> DEFINE last == G[<<f[n], n + 1>>]
             g == [i \in 0 .. n + 1 |-> IF i <= n THEN f[i] ELSE last]
  <2>2. last \in S
    <3>1. f[n] \in S /\ n + 1 \in 1 .. N
      OBVIOUS
    <3> QED
      BY <3>1
  <2> HIDE DEF last
  <2>3. /\ g \in [0 .. n + 1 -> S] /\ g[n + 1] = last
        /\ \A i \in 0 .. n : g[i] = f[i]
    BY <2>2
  <2> HIDE DEF g
  <2>4. g[0] = b
    BY <2>1, <2>3
  <2>5. ASSUME NEW i \in 1 .. n + 1 PROVE g[i] = G[<<g[i - 1], i>>]
    <3>1. i - 1 \in 0 .. n /\ g[i - 1] = f[i - 1]
      BY <2>3
    <3>2. CASE i \in 1 .. n
      BY <2>1, <2>3, <3>1, <3>2
    <3>3. CASE i = n + 1
      BY <2>3, <3>1, <3>3 DEF last
    <3> QED
      BY <3>2, <3>3
  <2> QED
    BY <2>3, <2>4, <2>5 DEF Recurses
<1> HIDE DEF Good
<1>3. 0 \in T /\ \A n \in 0 .. N - 1 : n \in T => n + 1 \in T
  BY <1>1, <1>2
<1>4. N \in T
  <2> HIDE DEF T
  <2> QED
    BY <1>3, InductiveTo
<1> QED
  BY <1>4 DEF Good

-----------------------------------------------------------------------------
(* What the heap holds.                                                     *)

InOrder(tasks) == \A i, j \in DOMAIN tasks : i < j => tasks[i].due <= tasks[j].due

\* A set of the first n numbers that has with each number all smaller ones is
\* as long as its largest.
LEMMA Prefix ==
  ASSUME NEW n \in Nat, NEW P \in SUBSET (1 .. n),
         \A j \in P, i \in 1 .. n : i < j => i \in P
  PROVE  Cardinality(P) \in 0 .. n /\ P = 1 .. Cardinality(P)
<1>1. CASE P = 1 .. n
  <2>1. Cardinality(1 .. n) = n
    BY FS_Interval
  <2>2. Cardinality(P) = n
    BY <1>1, <2>1
  <2> QED
    BY <1>1, <2>2
<1>2. CASE P # 1 .. n
  <2> DEFINE others == (1 .. n) \ P
  <2>1. others \in SUBSET Nat /\ others # {}
    <3>1. \A i \in 1 .. n : i \in Nat
      OBVIOUS
    <3>2. \E i \in 1 .. n : i \notin P
      BY <1>2
    <3> QED
      BY <3>1, <3>2
  <2> HIDE DEF others
  <2>2. PICK k \in others : \A i \in others : k <= i
    BY <2>1, Least
  <2>3. k \in 1 .. n /\ k \notin P /\ \A i \in 1 .. n : i < k => i \in P
    BY <2>1, <2>2 DEF others
  <2>4. \A j \in P : j < k
    BY <2>3
  <2>5. P = 1 .. k - 1
    <3>1. \A j \in P : j \in 1 .. n /\ j < k
      BY <2>4
    <3>2. \A j \in P : j \in 1 .. k - 1
      BY <2>3, <3>1
    <3>3. \A j \in 1 .. k - 1 : j \in 1 .. n /\ j < k
      BY <2>3
    <3>4. \A j \in 1 .. k - 1 : j \in P
      BY <2>3, <3>3
    <3> QED
      BY <3>2, <3>4
  <2>6. Cardinality(1 .. k - 1) = k - 1
    BY <2>3, FS_Interval
  <2> QED
    BY <2>3, <2>5, <2>6
<1> QED
  BY <1>1, <1>2

\* What a list has from a place on.
LEMMA RestIs ==
  ASSUME NEW S, NEW list \in Seq(S), NEW m \in 1 .. Len(list) + 1
  PROVE  LET rest == SubSeq(list, m, Len(list))
         IN  /\ rest \in Seq(S) /\ Len(rest) = Len(list) - m + 1
             /\ \A i \in 1 .. Len(list) - m + 1 : rest[i] = list[i + m - 1]
<1> DEFINE rest == SubSeq(list, m, Len(list))
<1>1. Len(list) \in Nat /\ \A i \in 1 .. Len(list) : list[i] \in S
  OBVIOUS
<1>2. rest = [i \in 1 .. Len(list) - m + 1 |-> list[i + m - 1]]
  BY <1>1
<1>3. Len(list) - m + 1 \in Nat
  BY <1>1
<1>4. \A i \in 1 .. Len(list) - m + 1 : i + m - 1 \in 1 .. Len(list)
  BY <1>1
<1> HIDE DEF rest
<1>5. rest \in [1 .. Len(list) - m + 1 -> S]
  BY <1>1, <1>2, <1>4
<1>6. rest \in Seq(S) /\ Len(rest) = Len(list) - m + 1
  BY <1>3, <1>5
<1> QED
  BY <1>2, <1>6 DEF rest

\* A task joins the heap at one place, behind those that are due before it.
LEMMA InsertIs ==
  ASSUME NEW tasks \in Seq(Tasks), NEW t \in Tasks
  PROVE  /\ Insert(tasks, t) \in Seq(Tasks)
         /\ InOrder(tasks) => InOrder(Insert(tasks, t))
<1> DEFINE n == Len(tasks)
           before == {i \in DOMAIN tasks : tasks[i].due <= t.due}
           k == Cardinality(before)
           a == SubSeq(tasks, 1, k)
           b == SubSeq(tasks, k + 1, Len(tasks))
           new == Insert(tasks, t)
<1>1. n \in Nat /\ DOMAIN tasks = 1 .. n /\ \A i \in 1 .. n : tasks[i] \in Tasks
  OBVIOUS
<1>2. before \in SUBSET (1 .. n)
  BY <1>1
<1>3. k \in 0 .. n
  <2> HIDE DEF before, n
  <2>1. IsFiniteSet(1 .. n) /\ Cardinality(1 .. n) = n
    BY <1>1, FS_Interval
  <2>2. IsFiniteSet(before) /\ k <= n
    BY <1>2, <2>1, FS_Subset
  <2> QED
    BY <1>1, <2>2, FS_CardinalityType
<1>4. new = a \o <<t>> \o b
  BY DEF Insert
<1> HIDE DEF k, new
<1>5. /\ a \in Seq(Tasks) /\ Len(a) = k /\ \A i \in 1 .. k : a[i] = tasks[i]
      /\ b \in Seq(Tasks) /\ Len(b) = n - k /\ \A i \in 1 .. n - k : b[i] = tasks[i + k]
  <2>1. \A i \in 1 .. k : i \in 1 .. n
    BY <1>1, <1>3
  <2>2. \A i \in 1 .. n - k : i + k \in 1 .. n /\ i + k = k + 1 + i - 1
    BY <1>1, <1>3
  <2>3. a \in Seq(Tasks) /\ Len(a) = k /\ \A i \in 1 .. k : a[i] = tasks[i]
    BY <1>1, <1>3, <2>1
  <2>4. b \in Seq(Tasks) /\ Len(b) = n - k
    <3>1. k + 1 \in 1 .. n + 1 /\ n - (k + 1) + 1 = n - k
      BY <1>1, <1>3
    <3>2. b \in Seq(Tasks) /\ Len(b) = n - (k + 1) + 1
      <4> DEFINE m == k + 1
      <4>1. m \in 1 .. Len(tasks) + 1
        BY <3>1
      <4> HIDE DEF m
      <4>2. LET rest == SubSeq(tasks, m, Len(tasks))
            IN  rest \in Seq(Tasks) /\ Len(rest) = Len(tasks) - m + 1
        BY <4>1, RestIs
      <4> QED
        BY <4>2 DEF m
    <3> QED
      BY <3>1, <3>2
  <2>5. \A i \in 1 .. n - k : b[i] = tasks[i + k]
    <3>1. k + 1 \in 1 .. n + 1
      BY <1>1, <1>3
    <3> QED
      BY <1>1, <1>3, <2>2, <3>1, RestIs
  <2> QED
    BY <2>3, <2>4, <2>5
<1> HIDE DEF a, b
<1>6. /\ a \o <<t>> \in Seq(Tasks) /\ Len(a \o <<t>>) = k + 1
      /\ (a \o <<t>>)[k + 1] = t /\ \A i \in 1 .. k : (a \o <<t>>)[i] = a[i]
  BY <1>3, <1>5
<1>7. /\ new \in Seq(Tasks) /\ Len(new) = n + 1 /\ DOMAIN new = 1 .. n + 1
      /\ \A i \in 1 .. k + 1 : new[i] = (a \o <<t>>)[i]
      /\ \A i \in k + 2 .. n + 1 : new[i] = b[i - k - 1]
  BY <1>1, <1>3, <1>4, <1>5, <1>6
<1>8. /\ \A i \in 1 .. k : new[i] = tasks[i]
      /\ new[k + 1] = t
      /\ \A i \in k + 2 .. n + 1 : new[i] = tasks[i - 1]
  <2>1. \A i \in 1 .. k : i \in 1 .. k + 1
    BY <1>3
  <2>2. k + 1 \in 1 .. k + 1
    BY <1>3
  <2>3. \A i \in k + 2 .. n + 1 : i - k - 1 \in 1 .. n - k /\ i - k - 1 + k = i - 1
    BY <1>1, <1>3
  <2>4. \A i \in 1 .. k : new[i] = tasks[i]
    BY <1>5, <1>6, <1>7, <2>1
  <2>5. new[k + 1] = t
    BY <1>6, <1>7, <2>2
  <2>6. \A i \in k + 2 .. n + 1 : new[i] = tasks[i - 1]
    <3>1. \A i \in 1 .. n - k : b[i] = tasks[i + k]
      BY <1>5
    <3>2. \A i \in k + 2 .. n + 1 : new[i] = b[i - k - 1]
      BY <1>7
    <3> QED
      BY <2>3, <3>1, <3>2
  <2> QED
    BY <2>4, <2>5, <2>6
<1>9. ASSUME InOrder(tasks) PROVE InOrder(new)
  <2>1. /\ \A i \in 1 .. n : tasks[i].due \in Nat
        /\ t.due \in Nat
        /\ \A i, j \in 1 .. n : i < j => tasks[i].due <= tasks[j].due
    BY <1>1, <1>9 DEF Tasks, InOrder
  <2>2. \A j \in before, i \in 1 .. n : i < j => i \in before
    BY <1>1, <2>1
  <2>3. before = 1 .. k
    <3> HIDE DEF before, n
    <3> QED
      BY <1>1, <1>2, <2>2, Prefix DEF k
  <2>4. /\ \A i \in 1 .. k : tasks[i].due <= t.due
        /\ \A i \in k + 1 .. n : t.due <= tasks[i].due
    <3>1. \A i \in 1 .. n : i \in 1 .. k <=> tasks[i].due <= t.due
      BY <1>1, <2>3
    <3> QED
      BY <1>1, <1>3, <2>1, <3>1
  <2> HIDE DEF before, n
  <2>5. ASSUME NEW i \in 1 .. n + 1, NEW j \in 1 .. n + 1, i < j
        PROVE  new[i].due <= new[j].due
    <3>1. i \in 1 .. k \/ i = k + 1 \/ i \in k + 2 .. n + 1
      BY <1>1, <1>3
    <3>2. j \in 1 .. k \/ j = k + 1 \/ j \in k + 2 .. n + 1
      BY <1>1, <1>3
    <3>3. CASE i \in 1 .. k
      <4>1. i \in 1 .. n /\ new[i] = tasks[i]
        BY <1>1, <1>3, <1>8, <3>3
      <4>2. CASE j \in 1 .. k
        BY <1>1, <1>3, <1>8, <2>1, <2>5, <4>1, <4>2
      <4>3. CASE j = k + 1
        BY <1>8, <2>4, <3>3, <4>1, <4>3
      <4>4. CASE j \in k + 2 .. n + 1
        <5>1. new[j] = tasks[j - 1] /\ j - 1 \in 1 .. n /\ i < j - 1
          BY <1>1, <1>3, <1>8, <3>3, <4>4
        <5> QED
          BY <2>1, <4>1, <5>1
      <4> QED
        BY <3>2, <4>2, <4>3, <4>4
    <3>4. CASE i = k + 1
      <4>1. j \in k + 2 .. n + 1
        BY <1>1, <1>3, <2>5, <3>4
      <4>2. new[j] = tasks[j - 1] /\ j - 1 \in k + 1 .. n
        BY <1>1, <1>3, <1>8, <4>1
      <4> QED
        BY <1>8, <2>4, <3>4, <4>2
    <3>5. CASE i \in k + 2 .. n + 1
      <4>1. j \in k + 2 .. n + 1
        BY <1>1, <1>3, <2>5, <3>5
      <4>2. /\ new[j] = tasks[j - 1] /\ j - 1 \in 1 .. n
            /\ new[i] = tasks[i - 1] /\ i - 1 \in 1 .. n /\ i - 1 < j - 1
        BY <1>1, <1>3, <1>8, <2>5, <3>5, <4>1
      <4> QED
        BY <2>1, <4>2
    <3> QED
      BY <3>1, <3>3, <3>4, <3>5
  <2> QED
    BY <1>7, <2>5 DEF InOrder
<1> QED
  BY <1>7, <1>9 DEF new

\* The heap after enqueue_spread.
LEMMA EnqueueIs ==
  ASSUME heap \in Seq(Tasks), NEW what \in {"feed", "prewarm"}, NEW feeds \in Seq(Feeds),
         NEW stride \in Nat, Enqueue(what, feeds, stride)
  PROVE  heap' \in Seq(Tasks) /\ (InOrder(heap) => InOrder(heap'))
<1> DEFINE tasks == Spread(what, feeds, stride)
           N == Len(tasks)
           Sets == Seq(Tasks)
           G == [p \in Sets \X (1 .. N) |-> Insert(p[1], tasks[p[2]])]
           R(g) == [n \in 0 .. N |-> IF n = 0 THEN heap ELSE Insert(g[n - 1], tasks[n])]
           pushed == CHOOSE g : g = R(g)
<1>1. tasks \in Seq(Tasks) /\ N \in Nat /\ \A n \in 1 .. N : tasks[n] \in Tasks
  <2>1. Len(feeds) \in Nat /\ DOMAIN feeds = 1 .. Len(feeds)
        /\ \A i \in 1 .. Len(feeds) : feeds[i] \in Feeds /\ (i - 1) * stride \in Nat
    <3>1. Len(feeds) \in Nat /\ DOMAIN feeds = 1 .. Len(feeds)
          /\ \A i \in 1 .. Len(feeds) : feeds[i] \in Feeds /\ i - 1 \in Nat
      OBVIOUS
    <3>2. \A m \in Nat : m * stride \in Nat
      OBVIOUS
    <3> QED
      BY <3>1, <3>2
  <2>2. \A i \in 1 .. Len(feeds) :
          [kind |-> what, feed |-> feeds[i], due |-> (i - 1) * stride] \in Tasks
    BY <2>1 DEF Tasks
  <2>3. tasks \in [1 .. Len(feeds) -> Tasks]
    BY <2>1, <2>2 DEF Spread
  <2> HIDE DEF tasks
  <2>4. tasks \in Seq(Tasks)
    BY <2>1, <2>3
  <2> QED
    BY <2>4
<1>2. heap' = pushed[N]
  BY DEF Enqueue
<1> HIDE DEF tasks, N
<1>3. /\ G \in [Sets \X (1 .. N) -> Sets]
      /\ \A p \in Sets, n \in 1 .. N : G[<<p, n>>] = Insert(p, tasks[n])
  <2>1. \A p \in Sets, n \in 1 .. N : Insert(p, tasks[n]) \in Sets
    BY <1>1, InsertIs
  <2> HIDE DEF Sets
  <2> QED
    BY <2>1
<1> HIDE DEF G
<1>4. PICK f : Recurses(f, Sets, heap, N, G)
  <2> HIDE DEF Sets
  <2>1. heap \in Sets
    BY DEF Sets
  <2> QED
    BY <1>1, <1>3, <2>1, Recursion, Zenon
<1>5. \A i \in 1 .. N : i - 1 \in 0 .. N /\ f[i - 1] \in Sets /\ f[i] = Insert(f[i - 1], tasks[i])
  <2>1. \A i \in 1 .. N : i - 1 \in 0 .. N
    BY <1>1
  <2>2. \A i \in 1 .. N : f[i - 1] \in Sets
    BY <1>4, <2>1 DEF Recurses
  <2> QED
    BY <1>3, <1>4, <2>1, <2>2 DEF Recurses
<1>6. f = R(f)
  <2>1. \A n \in 0 .. N : n = 0 \/ n \in 1 .. N
    BY <1>1
  <2>2. f \in [0 .. N -> Sets] /\ f[0] = heap
    BY <1>4 DEF Recurses
  <2> QED
    BY <1>5, <2>1, <2>2
<1>7. pushed = R(pushed)
  BY <1>6
<1> HIDE DEF pushed
<1>8. pushed[0] = heap /\ \A n \in 1 .. N : pushed[n] = Insert(pushed[n - 1], tasks[n])
  <2>1. 0 \in 0 .. N /\ \A n \in 1 .. N : n \in 0 .. N /\ n # 0
    BY <1>1
  <2> QED
    BY <1>7, <2>1
<1> DEFINE Good(n) == pushed[n] \in Seq(Tasks) /\ (InOrder(heap) => InOrder(pushed[n]))
           T == {n \in 0 .. N : Good(n)}
<1>9. Good(0)
  BY <1>8
<1>10. ASSUME NEW n \in 0 .. N - 1, Good(n) PROVE Good(n + 1)
  <2>1. n + 1 \in 1 .. N /\ n + 1 - 1 = n
    BY <1>1
  <2>2. pushed[n + 1] = Insert(pushed[n], tasks[n + 1]) /\ tasks[n + 1] \in Tasks
    BY <1>1, <1>8, <2>1
  <2> QED
    BY <1>10, <2>2, InsertIs
<1> HIDE DEF Good
<1>11. 0 \in T /\ \A n \in 0 .. N - 1 : n \in T => n + 1 \in T
  BY <1>1, <1>9, <1>10
<1>12. N \in T
  <2> HIDE DEF T
  <2>1. \A n \in 0 .. N : n \in T
    BY <1>1, <1>11, InductiveTo
  <2> QED
    BY <1>1, <2>1
<1> QED
  BY <1>2, <1>12 DEF Good

HeapInv == QueueTypeOK /\ DueInOrder

LEMMA HeapStarts == QueueInit => HeapInv
BY Strides DEF QueueInit, HeapInv, QueueTypeOK, DueInOrder

\* A timer of a task that has ticked.
LEMMA DownIs ==
  ASSUME NEW n \in Nat
  PROVE  Down(n) = IF n = 0 THEN 0 ELSE n - 1
BY OfTwo DEF Down

LEMMA HeapTicks ==
  ASSUME HeapInv, QueueTick
  PROVE  HeapInv'
<1>1. /\ heap \in Seq(Tasks) /\ Len(heap) \in Nat /\ DOMAIN heap = 1 .. Len(heap)
      /\ \A i \in 1 .. Len(heap) : heap[i] \in Tasks /\ heap[i].due \in Nat
  <2>1. heap \in Seq(Tasks)
    BY DEF HeapInv, QueueTypeOK
  <2>2. /\ Len(heap) \in Nat /\ DOMAIN heap = 1 .. Len(heap)
        /\ \A i \in 1 .. Len(heap) : heap[i] \in Tasks
    BY <2>1
  <2>3. \A t \in Tasks : t.due \in Nat
    BY DEF Tasks
  <2> QED
    BY <2>1, <2>2, <2>3
<1>2. heap' = [i \in 1 .. Len(heap) |-> [heap[i] EXCEPT !.due = Down(@)]]
  BY <1>1 DEF QueueTick
<1>3. \A i \in 1 .. Len(heap) : Down(heap[i].due) \in Nat
  BY <1>1, DownIs
<1>4. \A i \in 1 .. Len(heap) :
        [heap[i] EXCEPT !.due = Down(@)] \in Tasks /\ heap'[i].due = Down(heap[i].due)
  BY <1>1, <1>2, <1>3 DEF Tasks
<1>5. heap' \in Seq(Tasks) /\ DOMAIN heap' = 1 .. Len(heap)
  <2>1. heap' \in [1 .. Len(heap) -> Tasks]
    BY <1>2, <1>4
  <2> QED
    BY <1>1, <2>1
<1>6. DueInOrder'
  <2>1. \A i, j \in 1 .. Len(heap) : i < j => Down(heap[i].due) <= Down(heap[j].due)
    <3> SUFFICES ASSUME NEW i \in 1 .. Len(heap), NEW j \in 1 .. Len(heap), i < j
                 PROVE  Down(heap[i].due) <= Down(heap[j].due)
      OBVIOUS
    <3>1. heap[i].due <= heap[j].due
      BY <1>1 DEF HeapInv, DueInOrder
    <3> QED
      BY <1>1, <3>1, DownIs
  <2> QED
    BY <1>4, <1>5, <2>1 DEF DueInOrder
<1>7. sinceFinish' \in 0 .. MaxGap /\ sinceFetch' \in 0 .. MaxGap
  <2>1. sinceFinish \in 0 .. MaxGap /\ sinceFetch \in 0 .. MaxGap
    BY DEF HeapInv, QueueTypeOK
  <2>2. /\ Min({sinceFinish + 1, MaxGap}) \in 0 .. MaxGap
        /\ Min({sinceFetch + 1, MaxGap}) \in 0 .. MaxGap
    BY <2>1, TickOrder
  <2> QED
    BY <2>2, Strides DEF QueueTick
<1> QED
  BY <1>5, <1>6, <1>7 DEF HeapInv, QueueTypeOK, QueueTick

LEMMA HeapKeeps == HeapInv /\ [QueueNext]_queue => HeapInv'
<1> SUFFICES ASSUME HeapInv, [QueueNext]_queue PROVE HeapInv'
  OBVIOUS
<1>1. CASE UNCHANGED queue
  BY <1>1 DEF queue, HeapInv, QueueTypeOK, DueInOrder
<1>2. CASE Enqueued
  <2>1. PICK feeds \in UNION {SetToSeqs(some) : some \in (SUBSET Feeds) \ {{}}} :
          Enqueue("feed", feeds, FeedStride) \/ Enqueue("prewarm", feeds, PrewarmStride)
    BY <1>2 DEF Enqueued
  <2>2. feeds \in Seq(Feeds)
    <3>1. PICK some \in SUBSET Feeds : feeds \in SetToSeqs(some)
      BY <2>1
    <3>2. feeds \in [1 .. Cardinality(some) -> some] /\ Cardinality(some) \in Nat
      BY <3>1, QueueAssumption, FS_Subset, FS_CardinalityType DEF SetToSeqs
    <3> QED
      BY <3>2
  <2>3. heap' \in Seq(Tasks) /\ (InOrder(heap) => InOrder(heap'))
    BY <2>1, <2>2, EnqueueIs, Strides DEF HeapInv, QueueTypeOK
  <2>4. /\ idle' \in BOOLEAN /\ gap' \in {FeedStride, PrewarmStride}
        /\ UNCHANGED <<running, sinceFinish, sinceFetch>>
    BY <2>1 DEF Enqueue
  <2> QED
    BY <2>3, <2>4 DEF HeapInv, QueueTypeOK, DueInOrder, InOrder
<1>3. CASE PopReady
  <2>1. heap \in Seq(Tasks) /\ heap # <<>> /\ heap' = Tail(heap) /\ running' = Head(heap)
    BY <1>3 DEF PopReady, HeapInv, QueueTypeOK
  <2>2. /\ heap' \in Seq(Tasks) /\ running' \in Tasks
        /\ DOMAIN heap' = 1 .. Len(heap) - 1 /\ DOMAIN heap = 1 .. Len(heap)
        /\ \A i \in 1 .. Len(heap) - 1 : heap'[i] = heap[i + 1]
    BY <2>1
  <2>3. DueInOrder'
    <3>1. Len(heap) \in Nat
      BY <2>1
    <3>2. \A i \in 1 .. Len(heap) - 1 : i + 1 \in 1 .. Len(heap)
      BY <3>1
    <3>3. \A i, j \in 1 .. Len(heap) - 1 : i < j => heap[i + 1].due <= heap[j + 1].due
      <4> SUFFICES ASSUME NEW i \in 1 .. Len(heap) - 1, NEW j \in 1 .. Len(heap) - 1, i < j
                   PROVE  heap[i + 1].due <= heap[j + 1].due
        OBVIOUS
      <4>1. i + 1 \in DOMAIN heap /\ j + 1 \in DOMAIN heap /\ i + 1 < j + 1
        BY <2>2, <3>1, <3>2
      <4> QED
        BY <4>1 DEF HeapInv, DueInOrder
    <3> QED
      BY <2>2, <3>3 DEF DueInOrder
  <2> QED
    BY <1>3, <2>2, <2>3 DEF PopReady, HeapInv, QueueTypeOK
<1>4. CASE SeesEmpty
  BY <1>4 DEF SeesEmpty, HeapInv, QueueTypeOK, DueInOrder
<1>5. CASE TaskReturns
  BY <1>5, Strides DEF TaskReturns, HeapInv, QueueTypeOK, DueInOrder
<1>6. CASE QueueTick
  BY <1>6, HeapTicks
<1> QED
  BY <1>1, <1>2, <1>3, <1>4, <1>5, <1>6 DEF QueueNext

\* Whatever is enqueued, the variables of the queue keep their types.
THEOREM QueueTypeCorrect == QueueSpec => []QueueTypeOK
<1>1. HeapInv => QueueTypeOK
  BY DEF HeapInv
<1> QED
  BY <1>1, HeapStarts, HeapKeeps, PTL DEF QueueSpec

\* Over several spreads of tasks, each with a stride and a start of its own, the
\* task at the head of the heap is one that is due first (_Task.__lt__, heapq).
THEOREM SoonestLeavesFirst == QueueSpec => []DueInOrder
<1>1. HeapInv => DueInOrder
  BY DEF HeapInv
<1> QED
  BY <1>1, HeapStarts, HeapKeeps, PTL DEF QueueSpec

-----------------------------------------------------------------------------
(* The refresh uses the queue as it may be used.                            *)

CONSTANTS Interval, WaitLimit, RetryDelay, MaxBackoff, MaxTasks
VARIABLES workerPc, pending, stopping, sinceStart, waitLeft, todo, cached, retryIn

Refresh == INSTANCE RedditRefresh WITH pc <- workerPc

LEMMA FeedsListed ==
  ASSUME NEW some \in SUBSET Feeds, some # {}
  PROVE  SetToSeq(some) \in UNION {SetToSeqs(fs) : fs \in (SUBSET Feeds) \ {{}}}
<1> DEFINE D == 1 .. Cardinality(some)
<1>1. IsFiniteSet(some)
  BY QueueAssumption, FS_Subset
<1>2. ExistsBijection(D, some)
  BY <1>1, FS_CardinalityType
<1>3. PICK f \in [D -> some] : IsInjective(f)
  BY <1>2 DEF ExistsBijection, Bijection, Injection
<1>4. SetToSeq(some) \in [D -> some] /\ IsInjective(SetToSeq(some))
  BY <1>3 DEF SetToSeq
<1>5. SetToSeq(some) \in SetToSeqs(some)
  BY <1>4 DEF SetToSeqs, IsInjective
<1> QED
  BY <1>5

\* The queue's operations mean the same in the refresh.
LEMMA SameOperators ==
  /\ \A S : Refresh!Max(S) = Max(S) /\ Refresh!Min(S) = Min(S)
  /\ \A S : Refresh!SetToSeq(S) = SetToSeq(S)
  /\ Refresh!NoTask = NoTask /\ Refresh!MaxGap = MaxGap
  /\ \A n : Refresh!Down(n) = Down(n)
<1>1. \A S : Refresh!Max(S) = Max(S) /\ Refresh!Min(S) = Min(S)
  BY DEF Refresh!Max, Max, Refresh!Min, Min
<1>2. \A S : Refresh!Cardinality(S) = Cardinality(S)
  BY DEF Refresh!Cardinality, Cardinality
<1>3. \A S : Refresh!SetToSeq(S) = SetToSeq(S)
  BY <1>2 DEF Refresh!SetToSeq, SetToSeq, Refresh!IsInjective, IsInjective
<1>4. \A n : Refresh!Down(n) = Down(n)
  BY <1>1 DEF Refresh!Down, Down
<1> QED
  BY <1>1, <1>3, <1>4 DEF Refresh!NoTask, NoTask, Refresh!MaxGap, MaxGap

LEMMA SameInsert == \A tasks, t : Refresh!Insert(tasks, t) = Insert(tasks, t)
<1>1. \A S : Refresh!Cardinality(S) = Cardinality(S)
  BY DEF Refresh!Cardinality, Cardinality
<1> QED
  BY <1>1 DEF Refresh!Insert, Insert

LEMMA SameEnqueue ==
  ASSUME NEW what, NEW feeds, NEW stride, Refresh!Enqueue(what, feeds, stride)
  PROVE  Enqueue(what, feeds, stride)
BY SameInsert DEF Refresh!Enqueue, Refresh!Spread, Enqueue, Spread

TodoIsFeeds == todo \subseteq Feeds

LEMMA TodoInit == Refresh!Init => TodoIsFeeds
BY DEF Refresh!Init, TodoIsFeeds

LEMMA TodoStep == TodoIsFeeds /\ [Refresh!Next]_(Refresh!vars) => TodoIsFeeds'
<1> SUFFICES ASSUME TodoIsFeeds, Refresh!Next PROVE TodoIsFeeds'
  BY DEF Refresh!vars, Refresh!worker, TodoIsFeeds
<1>1. CASE Refresh!Plan
  BY <1>1 DEF Refresh!Plan, TodoIsFeeds
<1>2. CASE Refresh!Save
  BY <1>2 DEF Refresh!Save, TodoIsFeeds
<1>3. CASE UNCHANGED todo
  BY <1>3 DEF TodoIsFeeds
<1> QED
  BY <1>1, <1>2, <1>3 DEF Refresh!Next, Refresh!WorkerStep, Refresh!QueueStep, Refresh!TaskEnds,
     Refresh!Tick, Refresh!Submit, Refresh!Shutdown, Refresh!CacheExpires, Refresh!Start,
     Refresh!Stops, Refresh!FeedsWaited, Refresh!RetryPass, Refresh!RetryWaited, Refresh!Record,
     Refresh!Hydrate, Refresh!PrewarmWaited, Refresh!RefreshRaises, Refresh!worker

LEMMA RefreshStep == TodoIsFeeds /\ [Refresh!Next]_(Refresh!vars) => [QueueNext]_queue
<1> SUFFICES ASSUME todo \subseteq Feeds, [Refresh!Next]_(Refresh!vars), ~ UNCHANGED queue
             PROVE  QueueNext
  BY DEF queue, TodoIsFeeds
<1>1. Refresh!Next
  BY DEF Refresh!vars, Refresh!queue, queue
<1>2. CASE Refresh!Plan
  <2>1. todo' # {} /\ Refresh!Enqueue("feed", SetToSeq(todo'), FeedStride)
    BY <1>2, SameOperators DEF Refresh!Plan, Refresh!queue, queue
  <2>2. todo' \in SUBSET Feeds
    BY <1>2 DEF Refresh!Plan
  <2> DEFINE feeds == SetToSeq(todo')
  <2>3. feeds \in UNION {SetToSeqs(fs) : fs \in (SUBSET Feeds) \ {{}}}
    BY <2>1, <2>2, FeedsListed
  <2>4. Refresh!Enqueue("feed", feeds, FeedStride)
    BY <2>1
  <2> HIDE DEF feeds
  <2>5. Enqueue("feed", feeds, FeedStride)
    BY <2>4, SameEnqueue
  <2> QED
    BY <2>3, <2>5 DEF QueueNext, Enqueued
<1>3. CASE Refresh!RetryPass
  <2> DEFINE feeds == SetToSeq(Refresh!Missing)
  <2>1. Refresh!Missing # {} /\ Refresh!Enqueue("feed", feeds, FeedStride)
    BY <1>3, SameOperators DEF Refresh!RetryPass, Refresh!queue, queue
  <2>2. Refresh!Missing \in SUBSET Feeds
    BY DEF Refresh!Missing
  <2>3. feeds \in UNION {SetToSeqs(fs) : fs \in (SUBSET Feeds) \ {{}}}
    BY <2>1, <2>2, FeedsListed
  <2> HIDE DEF feeds
  <2>5. Enqueue("feed", feeds, FeedStride)
    BY <2>1, SameEnqueue
  <2> QED
    BY <2>3, <2>5 DEF QueueNext, Enqueued
<1>4. CASE Refresh!Hydrate
  <2>1. PICK bare \in SUBSET (todo \cap cached) :
          bare # {} /\ Refresh!Enqueue("prewarm", SetToSeq(bare), PrewarmStride)
    BY <1>4, SameOperators DEF Refresh!Hydrate, Refresh!queue, queue
  <2> DEFINE feeds == SetToSeq(bare)
  <2>2. bare \in SUBSET Feeds
    OBVIOUS
  <2>3. feeds \in UNION {SetToSeqs(fs) : fs \in (SUBSET Feeds) \ {{}}}
    BY <2>1, <2>2, FeedsListed
  <2>4. Refresh!Enqueue("prewarm", feeds, PrewarmStride)
    BY <2>1
  <2> HIDE DEF feeds
  <2>5. Enqueue("prewarm", feeds, PrewarmStride)
    BY <2>4, SameEnqueue
  <2> QED
    BY <2>3, <2>5 DEF QueueNext, Enqueued
<1>5. CASE Refresh!QueueStep
  BY <1>5 DEF Refresh!QueueStep, Refresh!PopReady, Refresh!SeesEmpty, PopReady, SeesEmpty, QueueNext,
              Refresh!NoTask, NoTask
<1>6. CASE Refresh!TaskEnds
  BY <1>6 DEF Refresh!TaskEnds, Refresh!TaskReturns, TaskReturns, QueueNext, Refresh!NoTask, NoTask
<1>7. CASE Refresh!Tick
  <2>1. QueueTick
    BY <1>7, SameOperators DEF Refresh!Tick, Refresh!QueueTick, QueueTick
  <2> QED
    BY <2>1 DEF QueueNext
<1>8. CASE \/ Refresh!Submit \/ Refresh!Shutdown \/ Refresh!CacheExpires \/ Refresh!Start
           \/ Refresh!Stops \/ Refresh!FeedsWaited \/ Refresh!RetryWaited \/ Refresh!Record
           \/ Refresh!PrewarmWaited \/ Refresh!RefreshRaises \/ Refresh!Save
  BY <1>8 DEF Refresh!Submit, Refresh!Shutdown, Refresh!CacheExpires, Refresh!Start,
              Refresh!Stops, Refresh!FeedsWaited, Refresh!RetryWaited, Refresh!Record,
              Refresh!PrewarmWaited, Refresh!RefreshRaises, Refresh!Save, Refresh!queue, queue
<1> QED
  BY <1>1, <1>2, <1>3, <1>4, <1>5, <1>6, <1>7, <1>8 DEF Refresh!Next, Refresh!WorkerStep

LEMMA RefreshStarts == Refresh!Init => QueueInit
BY SameOperators DEF Refresh!Init, Refresh!QueueInit, QueueInit

LEMMA TodoAlways == Refresh!Spec => []TodoIsFeeds
BY TodoInit, TodoStep, PTL DEF Refresh!Spec

\* The refresh worker, with its retry pass, its deadlines, its errors and the
\* ends of its tasks, does to the queue only what a caller of it may
\* (refresh_reddit_candidates); so all that is true of the queue holds there.
THEOREM RefreshImplementsQueue == Refresh!Spec => QueueSpec
BY RefreshStarts, RefreshStep, TodoAlways, PTL DEF Refresh!Spec, QueueSpec

\* What a refresh waits for: the idle event is up only when nothing of the
\* queue waits or runs, over retries, timeouts and overlapping refreshes.
THEOREM RefreshDrains == Refresh!Spec => []DrainedIsDone
BY RefreshImplementsQueue, IdleOnlyWhenDrained

\* And its fetches are spaced, whatever the feeds and deadlines.
THEOREM RefreshIsSpaced == Refresh!Spec => SpacingKept
BY RefreshImplementsQueue, SpacingIsKept

LEMMA SameTypes == Refresh!QueueTypeOK <=> QueueTypeOK
BY SameOperators DEF Refresh!QueueTypeOK, QueueTypeOK, Refresh!Tasks, Tasks

\* Types of the refresh worker's own variables.
WorkerTypes ==
  /\ workerPc \in Refresh!PCs /\ pending \in BOOLEAN /\ stopping \in BOOLEAN
  /\ sinceStart \in 0 .. Interval /\ waitLeft \in Nat /\ todo \subseteq Feeds
  /\ cached \subseteq Feeds /\ retryIn \in [Feeds -> 0 .. MaxBackoff]

\* What RedditRefresh assumes of its own constants.
RefreshConstants ==
  {Interval, WaitLimit, MaxBackoff, MaxTasks} \subseteq Nat \ {0} /\ RetryDelay \in Nat

LEMMA WorkerStarts == RefreshConstants /\ Refresh!Init => WorkerTypes
<1> SUFFICES ASSUME RefreshConstants, Refresh!Init PROVE WorkerTypes
  OBVIOUS
<1>1. Interval \in Nat /\ MaxBackoff \in Nat
  BY DEF RefreshConstants
<1>2. sinceStart \in 0 .. Interval /\ retryIn \in [Feeds -> 0 .. MaxBackoff]
  BY <1>1 DEF Refresh!Init
<1> QED
  BY <1>2 DEF Refresh!Init, WorkerTypes, Refresh!PCs

LEMMA WorkerKeeps ==
  RefreshConstants /\ WorkerTypes /\ QueueTypeOK /\ [Refresh!Next]_(Refresh!vars) => WorkerTypes'
<1> SUFFICES ASSUME RefreshConstants, WorkerTypes, QueueTypeOK, [Refresh!Next]_(Refresh!vars)
             PROVE  WorkerTypes'
  OBVIOUS
<1>0. {Interval, WaitLimit, MaxBackoff} \subseteq Nat /\ RetryDelay \in Nat
  BY DEF RefreshConstants
<1> USE DEF WorkerTypes, Refresh!PCs, Refresh!Waits, Refresh!Waiting
<1>1. CASE UNCHANGED Refresh!vars
  BY <1>1 DEF Refresh!vars, Refresh!worker, Refresh!stored
<1>2. CASE Refresh!Tick
  <2>1. sinceStart' \in 0 .. Interval
    <3>1. sinceStart' = IF sinceStart + 1 <= Interval THEN sinceStart + 1 ELSE Interval
      <4>1. sinceStart + 1 \in Int /\ Interval \in Int
        BY <1>0
      <4>2. sinceStart' = Min({sinceStart + 1, Interval})
        BY <1>2, SameOperators DEF Refresh!Tick
      <4> QED
        BY <4>1, <4>2, OfTwo
    <3> QED
      BY <1>0, <3>1
  <2>2. waitLeft' \in Nat
    BY <1>2, SameOperators, DownIs DEF Refresh!Tick
  <2>3. retryIn' \in [Feeds -> 0 .. MaxBackoff]
    <3>1. \A f \in Feeds : Down(retryIn[f]) \in 0 .. MaxBackoff
      BY <1>0, DownIs
    <3>2. retryIn' = [f \in Feeds |-> Down(retryIn[f])]
      BY <1>2, SameOperators DEF Refresh!Tick
    <3> QED
      BY <3>1, <3>2
  <2> QED
    BY <1>2, <2>1, <2>2, <2>3 DEF Refresh!Tick
<1>3. CASE Refresh!QueueStep
  BY <1>3 DEF Refresh!QueueStep, Refresh!worker, Refresh!stored
<1>4. CASE Refresh!TaskEnds
  <2>1. cached' \subseteq Feeds
    <3>1. CASE UNCHANGED cached
      BY <3>1
    <3>2. CASE running.kind = "feed" /\ cached' = cached \cup {running.feed}
      <4>1. running \in Tasks
        BY <3>2 DEF QueueTypeOK, NoTask
      <4> QED
        BY <3>2, <4>1 DEF Tasks
    <3> QED
      BY <1>4, <3>1, <3>2 DEF Refresh!TaskEnds
  <2> QED
    BY <1>4, <2>1 DEF Refresh!TaskEnds, Refresh!worker
<1>5. CASE Refresh!CacheExpires
  BY <1>5 DEF Refresh!CacheExpires, Refresh!worker
<1>6. CASE Refresh!Submit \/ Refresh!Shutdown
  BY <1>6 DEF Refresh!Submit, Refresh!Shutdown, Refresh!stored
<1>7. CASE Refresh!Start \/ Refresh!Stops \/ Refresh!Save
  <2>1. CASE Refresh!Start
    <3>1. /\ workerPc' = "plan" /\ pending' = FALSE /\ sinceStart' = 0
          /\ UNCHANGED <<stopping, waitLeft, todo>> /\ UNCHANGED <<cached, retryIn>>
      BY <2>1, Zenon DEF Refresh!Start, Refresh!stored
    <3>2. sinceStart' \in 0 .. Interval /\ workerPc' \in Refresh!PCs /\ waitLeft' \in Nat
      BY <1>0, <3>1
    <3>3. pending' \in BOOLEAN /\ stopping' \in BOOLEAN
      BY <3>1, Zenon
    <3>4. todo' \subseteq Feeds /\ cached' \subseteq Feeds /\ retryIn' \in [Feeds -> 0 .. MaxBackoff]
      BY <3>1
    <3> QED
      BY <3>2, <3>3, <3>4
  <2>2. CASE Refresh!Stops
    BY <1>0, <2>2 DEF Refresh!Stops, Refresh!stored
  <2>3. CASE Refresh!Save
    BY <1>0, <2>3 DEF Refresh!Save, Refresh!stored
  <2> QED
    BY <1>7, <2>1, <2>2, <2>3
<1>8. CASE Refresh!Plan
  BY <1>0, <1>8 DEF Refresh!Plan, Refresh!stored
<1>9. CASE Refresh!FeedsWaited \/ Refresh!RetryWaited \/ Refresh!PrewarmWaited \/ Refresh!RefreshRaises
  BY <1>0, <1>9 DEF Refresh!FeedsWaited, Refresh!RetryWaited, Refresh!PrewarmWaited,
              Refresh!RefreshRaises, Refresh!stored
<1>10. CASE Refresh!RetryPass \/ Refresh!Hydrate
  BY <1>0, <1>10 DEF Refresh!RetryPass, Refresh!Hydrate, Refresh!stored
<1>11. CASE Refresh!Record
  <2>1. PICK backoff \in [Refresh!Missing -> 1 .. MaxBackoff] :
          retryIn' = [f \in Feeds |-> IF f \notin todo THEN retryIn[f]
                                      ELSE IF f \in cached THEN 0 ELSE backoff[f]]
    BY <1>11 DEF Refresh!Record
  <2>2. ASSUME NEW f \in Feeds PROVE retryIn'[f] \in 0 .. MaxBackoff
    <3>1. f \in todo /\ f \notin cached => f \in Refresh!Missing
      BY DEF Refresh!Missing
    <3> QED
      BY <1>0, <2>1, <3>1
  <2>3. retryIn' \in [Feeds -> 0 .. MaxBackoff]
    BY <2>1, <2>2
  <2> QED
    BY <1>11, <2>3 DEF Refresh!Record
<1> QED
  BY <1>1, <1>2, <1>3, <1>4, <1>5, <1>6, <1>7, <1>8, <1>9, <1>10, <1>11
     DEF Refresh!Next, Refresh!WorkerStep

\* The refresh worker's variables keep their types, those of the queue it fills
\* among them, for any feeds, deadlines and backoffs that are numbers.
THEOREM RefreshTypeCorrect == ASSUME RefreshConstants PROVE Refresh!Spec => []Refresh!TypeOK
<1>1. Refresh!Init => WorkerTypes
  BY WorkerStarts
<1>2. WorkerTypes /\ QueueTypeOK /\ [Refresh!Next]_(Refresh!vars) => WorkerTypes'
  BY WorkerKeeps
<1>3. WorkerTypes /\ QueueTypeOK => Refresh!TypeOK
  BY SameTypes DEF WorkerTypes, Refresh!TypeOK
<1> QED
  BY <1>1, <1>2, <1>3, RefreshImplementsQueue, QueueTypeCorrect, PTL DEF Refresh!Spec
=============================================================================
