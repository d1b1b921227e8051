--------------------------- MODULE WarmScheduler ---------------------------
(* warm_scheduler.WarmScheduler: per-key coalescing job queue drained by a  *)
(* fixed set of worker threads around one condition variable.  A caller     *)
(* reads the clock before it takes the lock (request), so the two are       *)
(* separate steps; everything done under the lock is one step.              *)
EXTENDS Naturals, FiniteSets

CONSTANTS
  Keys,         \* user ids
  NoKey,        \* the key of a thread that has none
  Workers,      \* worker threads
  Callers,      \* threads that call request
  MaxVersion,   \* versions asked for are 1..MaxVersion
  Delays,       \* delay_s values callers use
  MaxTime,      \* BOUND: the clock stops here
  MaxRequests,  \* BOUND: calls of request
  MaxFailures   \* BOUND: jobs that raise

ASSUME KeysAssumption == NoKey \notin Keys
ASSUME WorkersAssumption == IsFiniteSet(Workers) /\ Workers # {}
ASSUME DelaysAssumption == Delays \subseteq Nat
ASSUME BoundsAssumption == {MaxVersion, MaxTime, MaxRequests, MaxFailures} \subseteq Nat

VARIABLES
  now,       \* the clock
  pending,   \* _pending: key -> [version, notBefore] or NoJob
  running,   \* _running: key -> version, or NoVersion
  worker,    \* worker thread -> [state, key, until]
  caller,    \* caller thread -> [state, key, version, delay, expedite, read]
  requests,  \* calls made so far (bounded)
  failures,  \* jobs that raised so far (bounded)
  owed       \* history: newest version asked for whose job has not ended yet

vars == <<now, pending, running, worker, caller, requests, failures, owed>>

NoVersion == 0
Versions == 1..MaxVersion
NoJob == [version |-> NoVersion, notBefore |-> 0]
Never == MaxTime + 1          \* cond.wait(None): only a notify ends the wait
Newest(a, b) == IF a >= b THEN a ELSE b
Earlier(a, b) == IF a <= b THEN a ELSE b

Pending(k) == pending[k] # NoJob
Running(k) == running[k] # NoVersion

Off == [state |-> "off", key |-> NoKey, until |-> 0]
Awake == [state |-> "awake", key |-> NoKey, until |-> 0]
Waiting(t) == [state |-> "waiting", key |-> NoKey, until |-> t]
Job(k) == [state |-> "running", key |-> k, until |-> 0]

Away == [state |-> "away", key |-> NoKey, version |-> NoVersion,
         delay |-> 0, expedite |-> TRUE, read |-> 0]

(* Types of every variable.                                                 *)
TypeOK ==
  /\ now \in 0..MaxTime
  /\ pending \in [Keys -> [version : Versions, notBefore : Nat] \union {NoJob}]
  /\ running \in [Keys -> Versions \union {NoVersion}]
  /\ worker \in [Workers -> {Off, Awake} \union {Job(k) : k \in Keys}
                              \union {Waiting(t) : t \in 0..Never}]
  /\ caller \in [Callers -> {Away} \union
        [state : {"read"}, key : Keys, version : Versions, delay : Delays,
         expedite : BOOLEAN, read : 0..MaxTime]]
  /\ requests \in 0..MaxRequests
  /\ failures \in 0..MaxFailures
  /\ owed \in [Keys -> Versions \union {NoVersion}]

Init ==
  /\ now = 0
  /\ pending = [k \in Keys |-> NoJob]
  /\ running = [k \in Keys |-> NoVersion]
  /\ worker = [w \in Workers |-> Off]
  /\ caller = [c \in Callers |-> Away]
  /\ requests = 0
  /\ failures = 0
  /\ owed = [k \in Keys |-> NoVersion]

-----------------------------------------------------------------------------
(* MUTANT of Woken: the notify_all is missing.                              *)
NobodyWoken(ws) == ws

(* notify_all: every thread inside cond.wait gets to look again.            *)
Woken(ws) == [w \in Workers |->
                IF ws[w].state = "waiting" THEN Awake ELSE ws[w]]

(* _ensure_workers_locked: the first request that queues anything starts    *)
(* the threads; they never die (a job's exception is caught).               *)
Started(ws) == [w \in Workers |-> IF ws[w].state = "off" THEN Awake ELSE ws[w]]

(* MUTANT of NewWait: a passive request brings the job forward too.         *)
NewWaitIgnoringExpedite(c) ==
  IF caller[c].delay > 0 THEN caller[c].read + caller[c].delay
  ELSE Earlier(pending[caller[c].key].notBefore, caller[c].read)

(* The wait of a job that was already pending when a request came in.       *)
NewWait(c) ==
  IF caller[c].delay > 0 THEN caller[c].read + caller[c].delay
  ELSE IF caller[c].expedite
       THEN Earlier(pending[caller[c].key].notBefore, caller[c].read)
       ELSE pending[caller[c].key].notBefore

(* request, up to the lock: the clock is read first.  _trigger_warm's       *)
(* callers ask for a delay or pass expedite=False, never both.              *)
ReadClock(c) ==
  /\ caller[c] = Away
  /\ requests < MaxRequests
  /\ requests' = requests + 1
  /\ \E k \in Keys, v \in Versions, d \in Delays, e \in BOOLEAN :
       /\ now + d <= MaxTime
       /\ d = 0 \/ e
       /\ caller' = [caller EXCEPT ![c] =
            [state |-> "read", key |-> k, version |-> v, delay |-> d,
             expedite |-> e, read |-> now]]
  /\ UNCHANGED <<now, pending, running, worker, failures, owed>>

RunningCovers(c) ==
  ~Pending(caller[c].key) /\ running[caller[c].key] >= caller[c].version

(* MUTANT of Request: the last request wins, even with an older version.    *)
RequestOverwrites(c) ==
  LET k == caller[c].key
  IN  /\ caller[c].state = "read"
      /\ caller' = [caller EXCEPT ![c] = Away]
      /\ owed' = [owed EXCEPT ![k] = Newest(@, caller[c].version)]
      /\ pending' = [pending EXCEPT ![k] =
           [version |-> caller[c].version, notBefore |-> caller[c].read + caller[c].delay]]
      /\ worker' = Woken(Started(worker))
      /\ UNCHANGED <<now, running, requests, failures>>

(* request, under the lock.                                                 *)
Request(c) ==
  LET k == caller[c].key
      v == caller[c].version
  IN  /\ caller[c].state = "read"
      /\ caller' = [caller EXCEPT ![c] = Away]
      /\ owed' = [owed EXCEPT ![k] = Newest(@, v)]
      /\ \/ /\ RunningCovers(c)
            /\ UNCHANGED <<pending, worker>>
         \/ /\ ~RunningCovers(c)
            /\ ~Pending(k)
            /\ pending' = [pending EXCEPT ![k] =
                 [version |-> v, notBefore |-> caller[c].read + caller[c].delay]]
            /\ worker' = Woken(Started(worker))
         \/ /\ Pending(k)
            /\ pending' = [pending EXCEPT ![k] =
                 [version |-> Newest(@.version, v), notBefore |-> NewWait(c)]]
            /\ worker' = Woken(Started(worker))
      /\ UNCHANGED <<now, running, requests, failures>>

(* Keys a worker could start, now or later: queued and not running.         *)
Startable == {k \in Keys : Pending(k) /\ ~Running(k)}
Ready == {k \in Startable : pending[k].notBefore <= now}

(* _take_ready_locked: of the due jobs, one that has waited longest.        *)
Take(w) ==
  /\ worker[w] = Awake
  /\ \E k \in Ready :
       /\ \A j \in Ready : pending[k].notBefore <= pending[j].notBefore
       /\ pending' = [pending EXCEPT ![k] = NoJob]
       /\ running' = [running EXCEPT ![k] = pending[k].version]
       /\ worker' = [worker EXCEPT ![w] = Job(k)]
  /\ UNCHANGED <<now, caller, requests, failures, owed>>

(* _next_wait_locked as an absolute time: the first startable job's.        *)
NextWait ==
  IF Startable = {} THEN Never
  ELSE CHOOSE t \in {pending[k].notBefore : k \in Startable} :
         \A k \in Startable : t <= pending[k].notBefore

(* cond.wait(_next_wait_locked()) when nothing is due.                      *)
Sleep(w) ==
  /\ worker[w] = Awake
  /\ Ready = {}
  /\ worker' = [worker EXCEPT ![w] = Waiting(NextWait)]
  /\ UNCHANGED <<now, pending, running, caller, requests, failures, owed>>

(* cond.wait timed out.                                                     *)
TimedOut(w) ==
  /\ worker[w].state = "waiting"
  /\ worker[w].until <= now
  /\ worker' = [worker EXCEPT ![w] = Awake]
  /\ UNCHANGED <<now, pending, running, caller, requests, failures, owed>>

(* MUTANT of EndJob: the other threads are not told the key is free again.  *)
EndJobQuietly(w) ==
  LET k == worker[w].key
  IN  /\ worker[w].state = "running"
      /\ running' = [running EXCEPT ![k] = NoVersion]
      /\ owed' = [owed EXCEPT ![k] = IF running[k] >= @ THEN NoVersion ELSE @]
      /\ worker' = [worker EXCEPT ![w] = Awake]
      /\ UNCHANGED <<now, pending, caller, requests>>

(* The finally block of _worker, after the job returned or raised.          *)
EndJob(w) ==
  LET k == worker[w].key
  IN  /\ worker[w].state = "running"
      /\ running' = [running EXCEPT ![k] = NoVersion]
      /\ owed' = [owed EXCEPT ![k] = IF running[k] >= @ THEN NoVersion ELSE @]
      /\ worker' = Woken([worker EXCEPT ![w] = Awake])
      /\ UNCHANGED <<now, pending, caller, requests>>

Complete(w) == EndJob(w) /\ UNCHANGED failures

(* The exception is logged; nobody queues the version again.                *)
Raise(w) ==
  /\ failures < MaxFailures
  /\ failures' = failures + 1
  /\ EndJob(w)

(* clear_pending: queued jobs go, running ones finish normally.             *)
ClearPending ==
  /\ \E k \in Keys : Pending(k)
  /\ pending' = [k \in Keys |-> NoJob]
  /\ worker' = Woken(worker)
  /\ owed' = [k \in Keys |-> Earlier(owed[k], running[k])]
  /\ UNCHANGED <<now, running, caller, requests, failures>>

Tick ==
  /\ now < MaxTime
  /\ now' = now + 1
  /\ UNCHANGED <<pending, running, worker, caller, requests, failures, owed>>

WorkerStep(w) == Take(w) \/ Sleep(w) \/ TimedOut(w) \/ Complete(w) \/ Raise(w)

Next ==
  \/ \E c \in Callers : ReadClock(c) \/ Request(c)
  \/ \E w \in Workers : WorkerStep(w)
  \/ ClearPending
  \/ Tick

(* Threads are scheduled, the clock moves, and a job returns or raises      *)
(* (ranking has no unbounded wait); nothing makes callers call.             *)
Fairness ==
  /\ \A c \in Callers : WF_vars(Request(c))
  /\ \A w \in Workers : WF_vars(WorkerStep(w))
  /\ WF_vars(Tick)

Spec == Init /\ [][Next]_vars
FairSpec == Spec /\ Fairness

-----------------------------------------------------------------------------
(* No lost wakeup: a thread asleep in cond.wait wakes by itself no later    *)
(* than the first job it could start falls due, so no job waits for a       *)
(* request that may never come.                                             *)
NoLostWakeup ==
  \A w \in Workers :
    worker[w].state = "waiting" =>
      \A k \in Startable : worker[w].until <= pending[k].notBefore

(* A queued job never leaves the queue before its time: only a request for  *)
(* the same key may move that time, and a passive request (delay 0,         *)
(* expedite False) may not ("must not cut short a vote debounce").          *)
DebounceKept ==
  [][\A k \in Keys :
       /\ Pending(k) /\ pending'[k] = NoJob /\ running'[k] # running[k]
            => pending[k].notBefore <= now
       /\ Pending(k) /\ pending'[k] # NoJob
          /\ pending'[k].notBefore < pending[k].notBefore
            => \E c \in Callers :
                 /\ caller[c].key = k
                 /\ caller'[c] = Away
                 /\ caller[c].expedite \/ caller[c].delay > 0]_vars

(* A version asked for is eventually built, or its job raised, or it was    *)
(* cleared: no job is starved by other keys or by a sleeping worker.        *)
OwedIsSettled ==
  \A k \in Keys : owed[k] # NoVersion ~> owed[k] = NoVersion

(* The code implements the queue of WarmQueue.tla.                          *)
Queue == INSTANCE WarmQueue WITH
  pending <- [k \in Keys |-> pending[k].version],
  Capacity <- Cardinality(Workers)

ImplementsQueue == Queue!QueueSpec
=============================================================================
