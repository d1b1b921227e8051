------------------------ MODULE WarmSchedulerProofs ------------------------
(***************************************************************************)
(* What holds of the scheduler for any number of users, workers, callers   *)
(* and requests, up to the queue it implements.                            *)
(***************************************************************************)
EXTENDS WarmScheduler, FiniteSetTheorems, WellFoundedInduction, TLAPS

\* Running jobs and the threads that run them correspond one to one: _running
\* has a key as long as exactly one worker is inside its job.
JobsHaveThreads ==
  /\ \A w \in Workers : worker[w].state = "running" => Running(worker[w].key)
  /\ \A k \in Keys : Running(k) => \E w \in Workers : worker[w] = Job(k)
  /\ \A w, u \in Workers : worker[w].state = "running" /\ worker[u] = worker[w] => w = u

\* Jobs fall due while the clock still runs (callers ask for no later time).
DueInTime ==
  /\ \A c \in Callers : caller[c].state = "read" => caller[c].read + caller[c].delay <= MaxTime
  /\ \A k \in Keys : pending[k].notBefore <= MaxTime

Inv == TypeOK /\ DueInTime /\ JobsHaveThreads /\ NoLostWakeup

-----------------------------------------------------------------------------
\* A set of times that is not empty has an earliest.
LEMMA Earliest ==
  ASSUME NEW T \in SUBSET Nat, T # {}
  PROVE  \E t \in T : \A s \in T : t <= s
<1> DEFINE below == {ss \in Nat \X Nat : ss[1] < ss[2]}
<1>1. IsWellFoundedOn(below, Nat)
  BY NatLessThanWellFounded DEF OpToRel
<1>2. PICK t \in T : \A s \in T : ~ (<<s, t>> \in below)
  BY <1>1, WFMin
<1>3. ASSUME NEW s \in T PROVE t <= s
  <2>1. s \in Nat /\ t \in Nat
    OBVIOUS
  <2>2. s < t => <<s, t>> \in below
    BY <2>1
  <2> QED
    BY <1>2, <2>1, <2>2
<1> QED
  BY <1>3

LEMMA Bounds ==
  /\ MaxVersion \in Nat /\ MaxTime \in Nat /\ MaxRequests \in Nat /\ MaxFailures \in Nat
  /\ Versions \subseteq Nat /\ 0 \notin Versions
BY BoundsAssumption DEF Versions

\* The states of a worker thread.
LEMMA WorkerStates ==
  /\ Off.state = "off" /\ Awake.state = "awake"
  /\ \A k : Job(k).state = "running" /\ Job(k).key = k
  /\ \A t : Waiting(t).state = "waiting" /\ Waiting(t).until = t
BY DEF Off, Awake, Job, Waiting

LEMMA WorkerType ==
  ASSUME TypeOK, NEW w \in Workers
  PROVE  /\ worker[w].state \in {"off", "awake", "running", "waiting"}
         /\ worker[w].state = "running" =>
              worker[w].key \in Keys /\ worker[w] = Job(worker[w].key)
<1>1. worker[w] \in {Off, Awake} \union {Job(k) : k \in Keys}
                              \union {Waiting(t) : t \in 0..Never}
  BY DEF TypeOK
<1> QED
  BY <1>1, WorkerStates

\* notify_all and the start of the threads leave running jobs alone and nobody
\* asleep.
LEMMA WokenType ==
  ASSUME NEW ws \in [Workers -> {Off, Awake} \union {Job(k) : k \in Keys}
                                  \union {Waiting(t) : t \in 0..Never}],
         NEW x \in {Woken(ws), Woken(Started(ws))}
  PROVE  /\ x \in [Workers -> {Off, Awake} \union {Job(k) : k \in Keys}
                                  \union {Waiting(t) : t \in 0..Never}]
         /\ \A w \in Workers : /\ x[w].state # "waiting"
                               /\ ws[w].state = "running" => x[w] = ws[w]
                               /\ x[w].state = "running" => x[w] = ws[w]
<1> DEFINE S == {Off, Awake} \union {Job(k) : k \in Keys}
                                  \union {Waiting(t) : t \in 0..Never}
<1>1. Awake \in S /\ Awake.state = "awake"
  BY WorkerStates
<1> HIDE DEF S
<1>2. /\ x \in [Workers -> S]
      /\ \A w \in Workers : x[w] = ws[w] \/ x[w] = Awake
      /\ \A w \in Workers : x[w].state # "waiting" /\ (ws[w].state = "running" => x[w] = ws[w])
  <2>1. CASE x = Woken(ws)
    BY <1>1, <2>1 DEF Woken, S
  <2>2. CASE x = Woken(Started(ws))
    <3>1. /\ Started(ws) \in [Workers -> S]
          /\ \A w \in Workers : Started(ws)[w] = ws[w] \/ Started(ws)[w] = Awake
          /\ \A w \in Workers : ws[w].state = "running" => Started(ws)[w] = ws[w]
      BY <1>1 DEF Started, S
    <3> QED
      BY <1>1, <2>2, <3>1 DEF Woken, S
  <2> QED
    BY <2>1, <2>2
<1> QED
  BY <1>1, <1>2 DEF S

\* A worker sleeps no longer than until the first job it could start.
LEMMA NextWaitIsFirst ==
  ASSUME TypeOK
  PROVE  \A k \in Startable : NextWait <= pending[k].notBefore
<1> SUFFICES ASSUME NEW k \in Startable PROVE NextWait <= pending[k].notBefore
  OBVIOUS
<1> DEFINE T == {pending[j].notBefore : j \in Startable}
<1>1. \A j \in Startable : pending[j].notBefore \in Nat
  BY DEF TypeOK, Startable, Pending, NoJob
<1>2. T \in SUBSET Nat /\ T # {}
  BY <1>1
<1>3. \E t \in T : \A s \in T : t <= s
  BY <1>2, Earliest
<1>4. \E t \in T : \A j \in Startable : t <= pending[j].notBefore
  BY <1>3
<1>5. NextWait = CHOOSE t \in T : \A j \in Startable : t <= pending[j].notBefore
  BY DEF NextWait
<1> QED
  BY <1>4, <1>5

\* When a worker will look again is a time of the clock.
LEMMA NextWaitType ==
  ASSUME TypeOK, DueInTime
  PROVE  NextWait \in 0 .. Never
<1>1. CASE Startable = {}
  BY <1>1, Bounds DEF NextWait, Never
<1>2. CASE Startable # {}
  <2> DEFINE T == {pending[j].notBefore : j \in Startable}
  <2>1. \A j \in Startable : pending[j].notBefore \in 0 .. MaxTime
    BY Bounds DEF TypeOK, DueInTime, Startable, Pending, NoJob
  <2>2. T \in SUBSET Nat /\ T # {} /\ T \subseteq 0 .. MaxTime
    BY <1>2, <2>1
  <2>3. \E t \in T : \A j \in Startable : t <= pending[j].notBefore
    <3>1. \E t \in T : \A s \in T : t <= s
      BY <2>2, Earliest
    <3> QED
      BY <3>1
  <2>4. NextWait = CHOOSE t \in T : \A j \in Startable : t <= pending[j].notBefore
    BY <1>2 DEF NextWait
  <2>5. NextWait \in T
    BY <2>3, <2>4
  <2> QED
    BY <2>2, <2>5, Bounds DEF Never
<1> QED
  BY <1>1, <1>2

\* The fields of a request that has read the clock, and of a job it queues.
LEMMA CallerType ==
  ASSUME TypeOK, DueInTime, NEW c \in Callers, caller[c].state = "read"
  PROVE  /\ caller[c].key \in Keys /\ caller[c].version \in Versions
         /\ caller[c].read \in Nat /\ caller[c].delay \in Nat
         /\ caller[c].read + caller[c].delay \in 0 .. MaxTime
         /\ caller[c].expedite \in BOOLEAN
<1>1. caller[c] \in {Away} \union
        [state : {"read"}, key : Keys, version : Versions, delay : Delays,
         expedite : BOOLEAN, read : 0..MaxTime]
  BY DEF TypeOK
<1>2. caller[c] # Away
  BY DEF Away
<1>3. /\ caller[c].key \in Keys /\ caller[c].version \in Versions
      /\ caller[c].read \in 0 .. MaxTime /\ caller[c].delay \in Delays
      /\ caller[c].expedite \in BOOLEAN
  BY <1>1, <1>2
<1>4. caller[c].read + caller[c].delay <= MaxTime
  BY DEF DueInTime
<1>5. caller[c].read \in Nat /\ caller[c].delay \in Nat /\ MaxTime \in Nat
  <2>1. Delays \subseteq Nat
    BY DelaysAssumption
  <2>2. MaxTime \in Nat
    BY Bounds
  <2>3. caller[c].delay \in Nat
    BY <1>3, <2>1, Zenon
  <2>4. \A t \in 0 .. MaxTime : t \in Nat
    BY <2>2
  <2> QED
    BY <1>3, <2>2, <2>3, <2>4, Zenon
<1>6. caller[c].read + caller[c].delay \in 0 .. MaxTime
  BY <1>4, <1>5
<1> QED
  BY <1>3, <1>5, <1>6

LEMMA PendingType ==
  ASSUME TypeOK, NEW k \in Keys
  PROVE  /\ pending[k].version \in Versions \union {0} /\ pending[k].notBefore \in Nat
         /\ Pending(k) => pending[k].version \in Versions
         /\ ~Pending(k) => pending[k].version = 0
BY Bounds DEF TypeOK, Pending, NoJob, NoVersion

LEMMA NewWaitType ==
  ASSUME TypeOK, DueInTime, NEW c \in Callers, caller[c].state = "read"
  PROVE  NewWait(c) \in 0 .. MaxTime
BY CallerType, PendingType, Bounds DEF DueInTime, NewWait, Earlier

-----------------------------------------------------------------------------
LEMMA InitInv == Init => Inv
<1> SUFFICES ASSUME Init PROVE Inv
  OBVIOUS
<1>1. TypeOK
  BY Bounds DEF Init, TypeOK, NoVersion
<1>2. DueInTime
  BY Bounds DEF Init, DueInTime, Away, NoJob
<1>3. JobsHaveThreads /\ NoLostWakeup
  BY WorkerStates DEF Init, JobsHaveThreads, NoLostWakeup, Running
<1> QED
  BY <1>1, <1>2, <1>3 DEF Inv

LEMMA ReadClockInv == ASSUME Inv, NEW c \in Callers, ReadClock(c) PROVE Inv'
<1>1. PICK k \in Keys, v \in Versions, d \in Delays, e \in BOOLEAN :
        /\ now + d <= MaxTime
        /\ caller' = [caller EXCEPT ![c] =
             [state |-> "read", key |-> k, version |-> v, delay |-> d,
              expedite |-> e, read |-> now]]
  BY DEF ReadClock
<1>2. TypeOK'
  BY <1>1, Bounds DEF ReadClock, Inv, TypeOK
<1>3. DueInTime'
  BY <1>1 DEF ReadClock, Inv, TypeOK, DueInTime
<1> QED
  BY <1>2, <1>3 DEF ReadClock, Inv, JobsHaveThreads, NoLostWakeup, Running, Startable, Pending

\* Threads that are woken keep the correspondence of jobs and threads.
LEMMA WokenJobs ==
  ASSUME TypeOK, JobsHaveThreads, UNCHANGED running,
         worker' \in {Woken(worker), Woken(Started(worker))}
  PROVE  JobsHaveThreads' /\ NoLostWakeup'
<1>1. \A w \in Workers : /\ worker'[w].state # "waiting"
                         /\ worker[w].state = "running" => worker'[w] = worker[w]
                         /\ worker'[w].state = "running" => worker'[w] = worker[w]
  BY WokenType DEF TypeOK
<1> QED
  BY <1>1, WorkerStates DEF JobsHaveThreads, NoLostWakeup, Running

LEMMA RequestInv == ASSUME Inv, NEW c \in Callers, Request(c) PROVE Inv'
<1> DEFINE k == caller[c].key
           v == caller[c].version
<1>1. /\ caller[c].state = "read" /\ k \in Keys /\ v \in Versions
      /\ caller[c].read + caller[c].delay \in 0 .. MaxTime
  BY CallerType DEF Request, Inv
<1>2. caller' \in [Callers -> {Away} \union
        [state : {"read"}, key : Keys, version : Versions, delay : Delays,
         expedite : BOOLEAN, read : 0..MaxTime]]
      /\ \A d \in Callers : caller'[d] = caller[d] \/ caller'[d].state = "away"
  BY DEF Request, Inv, TypeOK, Away
<1>3. owed' \in [Keys -> Versions \union {NoVersion}]
  BY <1>1 DEF Request, Inv, TypeOK, Newest
<1>4. CASE UNCHANGED <<pending, worker>>
  BY <1>1, <1>2, <1>3, <1>4
     DEF Request, Inv, TypeOK, DueInTime, JobsHaveThreads, NoLostWakeup, Running, Startable, Pending
<1>5. ASSUME NEW x \in Versions, NEW t \in 0 .. MaxTime,
             pending' = [pending EXCEPT ![k] = [version |-> x, notBefore |-> t]],
             worker' = Woken(Started(worker))
      PROVE  Inv'
  <2>1. pending' \in [Keys -> [version : Versions, notBefore : Nat] \union {NoJob}]
        /\ \A j \in Keys : pending'[j].notBefore <= MaxTime
    BY <1>1, <1>5, Bounds DEF Inv, TypeOK, DueInTime
  <2>2. JobsHaveThreads' /\ NoLostWakeup'
    BY <1>5, WokenJobs DEF Request, Inv
  <2>3. worker' \in [Workers -> {Off, Awake} \union {Job(j) : j \in Keys}
                              \union {Waiting(s) : s \in 0..Never}]
    BY <1>5, WokenType DEF Inv, TypeOK
  <2>4. TypeOK'
    BY <1>2, <1>3, <2>1, <2>3 DEF Request, Inv, TypeOK
  <2>5. DueInTime'
    BY <1>2, <2>1 DEF Inv, DueInTime
  <2> QED
    BY <2>2, <2>4, <2>5 DEF Inv
<1>6. CASE ~Pending(k) /\ pending' = [pending EXCEPT ![k] =
                 [version |-> v, notBefore |-> caller[c].read + caller[c].delay]]
           /\ worker' = Woken(Started(worker))
  BY <1>1, <1>5, <1>6
<1>7. CASE Pending(k) /\ pending' = [pending EXCEPT ![k] =
                 [version |-> Newest(@.version, v), notBefore |-> NewWait(c)]]
           /\ worker' = Woken(Started(worker))
  <2>1. Newest(pending[k].version, v) \in Versions
    BY <1>1, <1>7, PendingType DEF Inv, Newest
  <2>2. NewWait(c) \in 0 .. MaxTime
    BY <1>1, NewWaitType DEF Inv
  <2>3. pending' = [pending EXCEPT ![k] =
          [version |-> Newest(pending[k].version, v), notBefore |-> NewWait(c)]]
    BY <1>1, <1>7 DEF Inv, TypeOK
  <2> QED
    BY <1>5, <1>7, <2>1, <2>2, <2>3
<1> QED
  BY <1>4, <1>6, <1>7 DEF Request

\* A worker that takes a job takes a key no other worker has.
LEMMA TakeInv == ASSUME Inv, NEW w \in Workers, Take(w) PROVE Inv'
<1>1. PICK k \in Ready :
        /\ pending' = [pending EXCEPT ![k] = NoJob]
        /\ running' = [running EXCEPT ![k] = pending[k].version]
        /\ worker' = [worker EXCEPT ![w] = Job(k)]
  BY DEF Take
<1>2. k \in Keys /\ Pending(k) /\ ~Running(k) /\ pending[k].version \in Versions
  BY PendingType DEF Ready, Startable, Inv
<1>3. worker[w] = Awake /\ UNCHANGED <<now, caller, requests, failures, owed>>
  BY DEF Take
<1>4. TypeOK'
  BY <1>1, <1>2, <1>3 DEF Inv, TypeOK
<1>5. DueInTime'
  BY <1>1, <1>2, <1>3, Bounds DEF Inv, TypeOK, DueInTime, NoJob
<1>6. /\ \A u \in Workers : worker'[u] = IF u = w THEN Job(k) ELSE worker[u]
      /\ \A j \in Keys : running'[j] = IF j = k THEN pending[k].version ELSE running[j]
      /\ \A j \in Keys : pending'[j] = IF j = k THEN NoJob ELSE pending[j]
  BY <1>1, <1>2 DEF Inv, TypeOK
<1>7. \A u \in Workers : worker[u] # Job(k)
  BY <1>2, WorkerStates DEF Inv, JobsHaveThreads
<1>8. JobsHaveThreads'
  <2>1. \A u \in Workers : worker'[u].state = "running" => running'[worker'[u].key] # NoVersion
    <3> SUFFICES ASSUME NEW u \in Workers, worker'[u].state = "running"
                 PROVE  running'[worker'[u].key] # NoVersion
      OBVIOUS
    <3>1. CASE u = w
      BY <1>2, <1>6, <3>1, WorkerStates, Bounds DEF NoVersion
    <3>2. CASE u # w
      BY <1>2, <1>6, <3>2, WorkerType, Bounds DEF Inv, JobsHaveThreads, Running, NoVersion
    <3> QED
      BY <3>1, <3>2
  <2>2. \A j \in Keys : Running(j)' => \E u \in Workers : worker'[u] = Job(j)
    BY <1>3, <1>6, WorkerStates DEF Inv, JobsHaveThreads, Running
  <2>3. \A x, u \in Workers : worker'[x].state = "running" /\ worker'[u] = worker'[x] => x = u
    BY <1>6, <1>7, WorkerStates DEF Inv, JobsHaveThreads
  <2> QED
    BY <2>1, <2>2, <2>3 DEF JobsHaveThreads, Running
<1>9. NoLostWakeup'
  <2>1. \A j \in Startable' : j \in Startable /\ pending'[j] = pending[j]
    BY <1>2, <1>6, Bounds DEF Startable, Pending, Running, NoVersion
  <2> QED
    BY <1>6, <2>1, WorkerStates DEF Inv, NoLostWakeup
<1> QED
  BY <1>4, <1>5, <1>8, <1>9 DEF Inv

\* A step of one worker that neither starts nor ends a job.
LEMMA RestInv ==
  ASSUME Inv, NEW w \in Workers, worker[w].state # "running",
         UNCHANGED <<now, pending, running, caller, requests, failures, owed>>,
         NEW s, worker' = [worker EXCEPT ![w] = s],
         \/ s = Awake
         \/ \E t \in 0 .. Never : /\ s = Waiting(t)
                                 /\ \A k \in Startable : t <= pending[k].notBefore
  PROVE  Inv'
<1>1. \A u \in Workers : worker'[u] = IF u = w THEN s ELSE worker[u]
  BY DEF Inv, TypeOK
<1>2. s.state \in {"awake", "waiting"}
  BY WorkerStates
<1>3. TypeOK'
  BY DEF Inv, TypeOK
<1>4. JobsHaveThreads'
  <2>1. \A k \in Keys : Running(k) => \E u \in Workers : worker'[u] = Job(k)
    BY <1>1, WorkerStates DEF Inv, JobsHaveThreads
  <2>2. \A u \in Workers : worker'[u].state = "running" => worker'[u] = worker[u]
    BY <1>1, <1>2
  <2>3. \A x, u \in Workers : worker'[x].state = "running" /\ worker'[u] = worker'[x] => x = u
    BY <2>2 DEF Inv, JobsHaveThreads
  <2> QED
    BY <2>1, <2>2, <2>3 DEF Inv, JobsHaveThreads, Running
<1>5. NoLostWakeup'
  BY <1>1, WorkerStates DEF Inv, NoLostWakeup, Startable, Pending, Running
<1> QED
  BY <1>3, <1>4, <1>5 DEF Inv, DueInTime

LEMMA SleepInv == ASSUME Inv, NEW w \in Workers, Sleep(w) PROVE Inv'
<1>1. worker[w].state = "awake"
  BY WorkerStates DEF Sleep
<1>2. NextWait \in 0 .. Never /\ \A k \in Startable : NextWait <= pending[k].notBefore
  BY NextWaitType, NextWaitIsFirst DEF Inv
<1> QED
  BY <1>1, <1>2, RestInv DEF Sleep

LEMMA TimedOutInv == ASSUME Inv, NEW w \in Workers, TimedOut(w) PROVE Inv'
BY RestInv DEF TimedOut

\* The end of a job frees its key and wakes everybody.
LEMMA EndJobInv ==
  ASSUME Inv, NEW w \in Workers, EndJob(w), failures' \in 0 .. MaxFailures
  PROVE  Inv'
<1> DEFINE k == worker[w].key
           ws == [worker EXCEPT ![w] = Awake]
           S == {Off, Awake} \union {Job(j) : j \in Keys} \union {Waiting(t) : t \in 0..Never}
<1>1. k \in Keys /\ worker[w] = Job(k) /\ worker[w].state = "running"
  BY WorkerType DEF EndJob, Inv
<1>2. ws \in [Workers -> S] /\ \A u \in Workers : ws[u] = IF u = w THEN Awake ELSE worker[u]
  BY DEF Inv, TypeOK
<1>3. worker' = Woken(ws) /\ UNCHANGED <<now, pending, caller, requests>>
  BY DEF EndJob
<1>4. /\ worker' \in [Workers -> S]
      /\ \A u \in Workers : /\ worker'[u].state # "waiting"
                            /\ ws[u].state = "running" => worker'[u] = ws[u]
                            /\ worker'[u].state = "running" => worker'[u] = ws[u]
  BY <1>2, <1>3, WokenType
<1>5. \A u \in Workers : /\ u # w /\ worker[u].state = "running" => worker'[u] = worker[u]
                         /\ worker'[u].state = "running" => u # w /\ worker'[u] = worker[u]
  BY <1>2, <1>4, WorkerStates
<1>6. /\ running' \in [Keys -> Versions \union {NoVersion}]
      /\ \A j \in Keys : running'[j] = IF j = k THEN NoVersion ELSE running[j]
      /\ owed' \in [Keys -> Versions \union {NoVersion}]
  BY <1>1 DEF EndJob, Inv, TypeOK
<1>7. TypeOK'
  BY <1>3, <1>4, <1>6 DEF Inv, TypeOK
<1>8. JobsHaveThreads'
  <2>1. \A u \in Workers : worker'[u].state = "running" => running'[worker'[u].key] # NoVersion
    <3> SUFFICES ASSUME NEW u \in Workers, worker'[u].state = "running"
                 PROVE  running'[worker'[u].key] # NoVersion
      OBVIOUS
    <3>1. u # w /\ worker'[u] = worker[u] /\ worker[u] = Job(worker[u].key) /\ worker[u].key \in Keys
      BY <1>5, WorkerType DEF Inv
    <3>2. worker[u] # worker[w]
      BY <1>1, <3>1 DEF Inv, JobsHaveThreads
    <3>3. worker[u].key # k
      BY <1>1, <3>1, <3>2
    <3> QED
      BY <1>6, <3>1, <3>3 DEF Inv, JobsHaveThreads, Running
  <2>2. \A j \in Keys : running'[j] # NoVersion => \E u \in Workers : worker'[u] = Job(j)
    <3> SUFFICES ASSUME NEW j \in Keys, running'[j] # NoVersion
                 PROVE  \E u \in Workers : worker'[u] = Job(j)
      OBVIOUS
    <3>1. j # k /\ Running(j)
      BY <1>6 DEF Running
    <3>2. PICK u \in Workers : worker[u] = Job(j)
      BY <3>1 DEF Inv, JobsHaveThreads
    <3>3. u # w /\ worker[u].state = "running"
      BY <3>1, <3>2, WorkerStates
    <3> QED
      BY <1>5, <3>2, <3>3
  <2>3. \A x, u \in Workers : worker'[x].state = "running" /\ worker'[u] = worker'[x] => x = u
    BY <1>5 DEF Inv, JobsHaveThreads
  <2> QED
    BY <2>1, <2>2, <2>3 DEF JobsHaveThreads, Running
<1>9. DueInTime'
  BY <1>3 DEF Inv, DueInTime
<1>10. NoLostWakeup'
  BY <1>4 DEF NoLostWakeup
<1> QED
  BY <1>7, <1>8, <1>9, <1>10 DEF Inv

LEMMA ClearPendingInv == ASSUME Inv, ClearPending PROVE Inv'
<1>1. JobsHaveThreads' /\ NoLostWakeup'
  BY WokenJobs DEF ClearPending, Inv
<1>2. worker' \in [Workers -> {Off, Awake} \union {Job(j) : j \in Keys}
                              \union {Waiting(s) : s \in 0..Never}]
  BY WokenType DEF ClearPending, Inv, TypeOK
<1>3. TypeOK'
  BY <1>2 DEF ClearPending, Inv, TypeOK, Earlier
<1>4. DueInTime'
  BY Bounds DEF ClearPending, Inv, DueInTime, NoJob
<1> QED
  BY <1>1, <1>3, <1>4 DEF Inv

LEMMA TickInv == ASSUME Inv, Tick PROVE Inv'
BY Bounds DEF Tick, Inv, TypeOK, DueInTime, JobsHaveThreads, NoLostWakeup, Running, Startable, Pending

\* Every step keeps the invariant.
LEMMA StepInv == Inv /\ [Next]_vars => Inv'
<1> SUFFICES ASSUME Inv, [Next]_vars PROVE Inv'
  OBVIOUS
<1>1. CASE UNCHANGED vars
  BY <1>1 DEF vars, Inv, TypeOK, DueInTime, JobsHaveThreads, NoLostWakeup, Running, Startable, Pending
<1>2. ASSUME NEW w \in Workers, Complete(w) \/ Raise(w) PROVE Inv'
  <2>1. failures' \in 0 .. MaxFailures
    BY <1>2, Bounds DEF Complete, Raise, Inv, TypeOK
  <2> QED
    BY <1>2, <2>1, EndJobInv DEF Complete, Raise
<1> QED
  BY <1>1, <1>2, ReadClockInv, RequestInv, TakeInv, SleepInv, TimedOutInv, ClearPendingInv, TickInv
     DEF Next, WorkerStep

LEMMA Invariant == Spec => []Inv
BY InitInv, StepInv, PTL DEF Spec

\* Every variable keeps its type.
THEOREM TypeCorrect == Spec => []TypeOK
<1>1. Inv => TypeOK
  BY DEF Inv
<1> QED
  BY <1>1, Invariant, PTL

\* No thread sleeps past the first job it could start.
THEOREM NoWakeupIsLost == Spec => []NoLostWakeup
<1>1. Inv => NoLostWakeup
  BY DEF Inv
<1> QED
  BY <1>1, Invariant, PTL

-----------------------------------------------------------------------------
(* The debounce                                                           *)

\* What DebounceKept says of a step and a key.
KeptAt(k) ==
  /\ Pending(k) /\ pending'[k] = NoJob /\ running'[k] # running[k]
       => pending[k].notBefore <= now
  /\ Pending(k) /\ pending'[k] # NoJob
     /\ pending'[k].notBefore < pending[k].notBefore
       => \E c \in Callers :
            /\ caller[c].key = k
            /\ caller'[c] = Away
            /\ caller[c].expedite \/ caller[c].delay > 0

LEMMA RequestKeeps ==
  ASSUME Inv, NEW c \in Callers, Request(c), NEW k \in Keys
  PROVE  KeptAt(k)
<1>1. caller[c].key \in Keys /\ caller'[c] = Away /\ UNCHANGED running
  BY CallerType DEF Request, Inv, TypeOK
<1>2. pending[k].notBefore \in Nat
  BY PendingType DEF Inv
<1>3. CASE UNCHANGED pending
  BY <1>1, <1>2, <1>3 DEF KeptAt
<1>4. CASE caller[c].key # k
  <2>1. pending'[k] = pending[k]
    BY <1>4 DEF Request, Inv, TypeOK
  <2> QED
    BY <1>1, <1>2, <2>1 DEF KeptAt
<1>5. CASE caller[c].key = k /\ Pending(k) /\ ~ UNCHANGED pending
  <2>1. pending'[k].notBefore = NewWait(c)
    BY <1>1, <1>5 DEF Request, RunningCovers, Inv, TypeOK
  <2>2. NewWait(c) < pending[k].notBefore => caller[c].delay > 0 \/ caller[c].expedite
    BY <1>2, <1>5 DEF NewWait
  <2> QED
    BY <1>1, <1>5, <2>1, <2>2 DEF KeptAt
<1>6. CASE ~Pending(k)
  BY <1>6 DEF KeptAt
<1> QED
  BY <1>3, <1>4, <1>5, <1>6

LEMMA TakeKeeps ==
  ASSUME Inv, NEW w \in Workers, Take(w), NEW k \in Keys
  PROVE  KeptAt(k)
<1>1. PICK j \in Ready : /\ pending' = [pending EXCEPT ![j] = NoJob]
                         /\ running' = [running EXCEPT ![j] = pending[j].version]
  BY DEF Take
<1>2. pending[k].notBefore \in Nat
  BY PendingType DEF Inv
<1>3. CASE j = k
  BY <1>1, <1>3 DEF KeptAt, Ready, Startable, Inv, TypeOK
<1>4. CASE j # k
  <2>1. pending'[k] = pending[k] /\ running'[k] = running[k]
    BY <1>1, <1>4 DEF Ready, Startable, Inv, TypeOK
  <2> QED
    BY <1>2, <2>1 DEF KeptAt
<1> QED
  BY <1>3, <1>4

\* A queued job leaves the queue only when it is due, and only a caller that
\* may cut its wait short does.
THEOREM DebounceIsKept == Spec => DebounceKept
<1>1. Inv /\ [Next]_vars => [\A k \in Keys : KeptAt(k)]_vars
  <2> SUFFICES ASSUME Inv, Next, NEW k \in Keys PROVE KeptAt(k)
    OBVIOUS
  <2>1. pending[k].notBefore \in Nat
    BY PendingType DEF Inv
  <2>2. CASE UNCHANGED pending
    BY <2>1, <2>2 DEF KeptAt, Pending
  <2>3. CASE ClearPending
    BY <2>3 DEF ClearPending, KeptAt
  <2>4. ASSUME NEW c \in Callers, ReadClock(c) \/ Request(c) PROVE KeptAt(k)
    BY <2>2, <2>4, RequestKeeps DEF ReadClock
  <2>5. ASSUME NEW w \in Workers, WorkerStep(w) PROVE KeptAt(k)
    BY <2>2, <2>5, TakeKeeps DEF WorkerStep, Sleep, TimedOut, Complete, Raise, EndJob
  <2> QED
    BY <2>2, <2>3, <2>4, <2>5 DEF Next, Tick
<1> QED
  BY <1>1, Invariant, PTL DEF Spec, DebounceKept, KeptAt

-----------------------------------------------------------------------------
(* The queue it implements                                                *)

\* A thread that is free to take a job leaves room for it: the keys with a
\* running job are no more than the threads that run one.
LEMMA RoomForAJob ==
  ASSUME Inv, NEW w \in Workers, worker[w] = Awake
  PROVE  Cardinality(Queue!Busy) < Cardinality(Workers)
<1> DEFINE Inside == {u \in Workers : worker[u].state = "running"}
           Rest == Workers \ {w}
           KeyOf == [u \in Inside |-> worker[u].key]
           Busy == {k \in Keys : running[k] # NoVersion}
<1>1. Queue!Busy = Busy
  BY DEF Queue!Busy, Queue!NoVersion, NoVersion
<1>2. KeyOf \in Surjection(Inside, Busy)
  <2>1. KeyOf \in [Inside -> Busy]
    BY WorkerType DEF Inv, JobsHaveThreads, Running
  <2>2. \A k \in Busy : \E u \in Inside : KeyOf[u] = k
    BY WorkerStates DEF Inv, JobsHaveThreads, Running
  <2> QED
    BY <2>1, <2>2 DEF Surjection
<1>3. Inside \in SUBSET Rest
  BY WorkerStates
<1>4. IsFiniteSet(Rest) /\ Cardinality(Rest) = Cardinality(Workers) - 1
  BY WorkersAssumption, FS_RemoveElement
<1> HIDE DEF Inside, Rest, KeyOf, Busy
<1>5. IsFiniteSet(Inside) /\ Cardinality(Inside) <= Cardinality(Rest)
  BY <1>3, <1>4, FS_Subset
<1>6. IsFiniteSet(Busy) /\ Cardinality(Busy) <= Cardinality(Inside)
  BY <1>2, <1>5, FS_Surjection
<1>7. /\ Cardinality(Busy) \in Nat /\ Cardinality(Inside) \in Nat
      /\ Cardinality(Rest) \in Nat /\ Cardinality(Workers) \in Nat
  BY <1>4, <1>5, <1>6, WorkersAssumption, FS_CardinalityType
<1> QED
  BY <1>1, <1>4, <1>5, <1>6, <1>7

\* The queue counts as the scheduler does.
LEMMA SameCardinality == \A S : Queue!Cardinality(S) = Cardinality(S)
BY DEF Queue!Cardinality, Cardinality

\* The versions that wait, as the queue sees them.
Wanted == [k \in Keys |-> pending[k].version]

LEMMA QueueRequest ==
  ASSUME Inv, NEW c \in Callers, Request(c)
  PROVE  \E k \in Keys, v \in Versions : Queue!Request(k, v)
<1>1. PICK k \in Keys, v \in Versions : k = caller[c].key /\ v = caller[c].version
  BY CallerType DEF Request, Inv
<1>2. k \in Keys /\ v \in Versions /\ v \in Nat /\ UNCHANGED running
  BY Bounds DEF Request
<1>3. /\ pending[k].version \in Nat /\ (Pending(k) <=> pending[k].version # 0)
      /\ pending \in [Keys -> [version : Versions, notBefore : Nat] \union {NoJob}]
  <2>1. pending[k].version \in Versions \union {0}
    BY <1>2, PendingType DEF Inv
  <2>2. Pending(k) <=> pending[k].version # 0
    BY <1>2, PendingType, Bounds DEF Inv
  <2>3. pending[k].version \in Nat
    BY <2>1, Bounds
  <2> QED
    BY <2>2, <2>3 DEF Inv, TypeOK
<1> SUFFICES Queue!Request(k, v)
  OBVIOUS
<1>4. CASE RunningCovers(c) /\ UNCHANGED pending
  <2>1. Wanted' = Wanted /\ Wanted[k] = 0 /\ running[k] >= v
    BY <1>1, <1>2, <1>3, <1>4 DEF Wanted, RunningCovers
  <2> QED
    BY <1>2, <2>1 DEF Queue!Request, Queue!Covered, Queue!NoVersion, Wanted
<1>5. ASSUME ~RunningCovers(c), NEW t,
             pending' = [pending EXCEPT ![k] =
               [version |-> Newest(pending[k].version, v), notBefore |-> t]]
      PROVE  Queue!Request(k, v)
  <2>1. Wanted' = [Wanted EXCEPT ![k] = Newest(Wanted[k], v)]
    BY <1>2, <1>3, <1>5 DEF Wanted
  <2>2. ~(Wanted[k] = 0 /\ running[k] >= v)
    BY <1>1, <1>2, <1>3, <1>5 DEF Wanted, RunningCovers
  <2> QED
    BY <1>2, <2>1, <2>2
       DEF Queue!Request, Queue!Covered, Queue!NoVersion, Queue!Newest, Newest, Wanted
<1>6. CASE ~RunningCovers(c) /\ ~Pending(k) /\ pending' = [pending EXCEPT ![k] =
                 [version |-> v, notBefore |-> caller[c].read + caller[c].delay]]
  <2>1. Newest(pending[k].version, v) = v
    BY <1>2, <1>3, <1>6 DEF Newest
  <2> QED
    BY <1>2, <1>5, <1>6, <2>1
<1>7. CASE Pending(k) /\ pending' = [pending EXCEPT ![k] =
                 [version |-> Newest(@.version, v), notBefore |-> NewWait(c)]]
  <2>1. ~RunningCovers(c)
    BY <1>1, <1>7 DEF RunningCovers
  <2>2. pending' = [pending EXCEPT ![k] =
          [version |-> Newest(pending[k].version, v), notBefore |-> NewWait(c)]]
    BY <1>2, <1>3, <1>7
  <2> QED
    BY <1>2, <1>5, <2>1, <2>2
<1> QED
  BY <1>1, <1>4, <1>6, <1>7 DEF Request

LEMMA QueueTake ==
  ASSUME Inv, NEW w \in Workers, Take(w)
  PROVE  \E k \in Keys : Cardinality(Queue!Busy) < Cardinality(Workers) /\ Queue!Take(k)
<1>1. PICK k \in Ready : /\ pending' = [pending EXCEPT ![k] = NoJob]
                         /\ running' = [running EXCEPT ![k] = pending[k].version]
  BY DEF Take
<1>2. /\ k \in Keys /\ ~Running(k) /\ pending[k].version \in Versions
      /\ pending \in [Keys -> [version : Versions, notBefore : Nat] \union {NoJob}]
  BY PendingType DEF Ready, Startable, Inv, TypeOK
<1>3. Wanted' = [Wanted EXCEPT ![k] = 0] /\ Wanted[k] = pending[k].version /\ Wanted[k] # 0
  BY <1>1, <1>2, Bounds DEF Wanted, NoJob, NoVersion
<1>4. Queue!Take(k)
  BY <1>1, <1>2, <1>3 DEF Queue!Take, Queue!NoVersion, Running, NoVersion, Wanted
<1> QED
  BY <1>2, <1>4, RoomForAJob DEF Take

LEMMA QueueFinish ==
  ASSUME Inv, NEW w \in Workers, EndJob(w)
  PROVE  \E k \in Keys : Queue!Finish(k)
<1> DEFINE k == worker[w].key
<1>1. k \in Keys /\ running[k] # NoVersion
  BY WorkerType DEF EndJob, Inv, JobsHaveThreads, Running
<1>2. Wanted' = Wanted /\ running' = [running EXCEPT ![k] = NoVersion]
  BY DEF EndJob, Wanted
<1> QED
  BY <1>1, <1>2 DEF Queue!Finish, Queue!NoVersion, NoVersion, Wanted

\* A step of the scheduler is a step of the queue, or none.
LEMMA QueueStep == Inv /\ [Next]_vars => [Queue!QueueNext]_(Queue!queueVars)
<1> SUFFICES ASSUME Inv, [Next]_vars
             PROVE  Queue!QueueNext \/ UNCHANGED Queue!queueVars
  OBVIOUS
<1>1. CASE UNCHANGED <<pending, running>>
  BY <1>1 DEF Queue!queueVars
<1>2. CASE ClearPending
  <2>1. Wanted' = [k \in Keys |-> 0] /\ UNCHANGED running
    BY <1>2 DEF ClearPending, Wanted, NoJob, NoVersion
  <2> QED
    BY <2>1 DEF Queue!QueueNext, Queue!ClearPending, Queue!NoVersion, Wanted
<1>3. ASSUME NEW c \in Callers, Request(c) PROVE Queue!QueueNext
  BY <1>3, QueueRequest DEF Queue!QueueNext
<1>4. ASSUME NEW w \in Workers, Take(w) PROVE Queue!QueueNext
  BY <1>4, QueueTake, SameCardinality DEF Queue!QueueNext
<1>5. ASSUME NEW w \in Workers, EndJob(w) PROVE Queue!QueueNext
  <2>1. \E k \in Keys : Queue!Finish(k)
    BY <1>5, QueueFinish
  <2> QED
    BY <2>1 DEF Queue!QueueNext
<1> QED
  BY <1>1, <1>2, <1>3, <1>4, <1>5
     DEF Next, WorkerStep, ReadClock, Sleep, TimedOut, Complete, Raise, Tick, vars

\* The scheduler keeps the promises of WarmQueue: per key at most one pending
\* and one running version, none lost, and never more jobs than workers.
THEOREM SchedulerImplementsQueue == Spec => ImplementsQueue
<1>1. Init => Queue!QueueInit
  BY DEF Init, Queue!QueueInit, Queue!NoVersion, NoJob, NoVersion
<1> QED
  BY <1>1, QueueStep, Invariant, PTL DEF Spec, ImplementsQueue, Queue!QueueSpec
=============================================================================
