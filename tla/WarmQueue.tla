----------------------------- MODULE WarmQueue -----------------------------
(* What warm_scheduler.WarmScheduler promises its callers, with clocks,     *)
(* delays, condition variable and threads taken away: per key at most one   *)
(* pending version, at most one running version, and a request that is      *)
(* either queued or already covered by the job that is running.             *)
(* WarmScheduler.tla refines this module; Dashboard.tla is built on it.     *)
EXTENDS Naturals, FiniteSets

CONSTANTS
  Keys,      \* user ids
  Versions,  \* versions a caller may ask for, positive naturals
  Capacity   \* jobs that may run at once (config.warm_pool_size)

VARIABLES
  pending,   \* key -> newest version wanted, or NoVersion
  running    \* key -> version its running job was started for, or NoVersion

queueVars == <<pending, running>>

NoVersion == 0

Newest(a, b) == IF a >= b THEN a ELSE b

QueueTypeOK ==
  /\ pending \in [Keys -> Versions \union {NoVersion}]
  /\ running \in [Keys -> Versions \union {NoVersion}]

QueueInit ==
  /\ pending = [k \in Keys |-> NoVersion]
  /\ running = [k \in Keys |-> NoVersion]

(* The running job of k already builds v, and nothing newer is queued.      *)
Covered(k, v) == pending[k] = NoVersion /\ running[k] >= v

Request(k, v) ==
  /\ UNCHANGED running
  /\ \/ Covered(k, v) /\ UNCHANGED pending
     \/ ~Covered(k, v) /\ pending' = [pending EXCEPT ![k] = Newest(@, v)]

Busy == {k \in Keys : running[k] # NoVersion}

(* MUTANT of Take: a key whose job is running may start another.            *)
TakeTwice(k) ==
  /\ pending[k] # NoVersion
  /\ running' = [running EXCEPT ![k] = pending[k]]
  /\ pending' = [pending EXCEPT ![k] = NoVersion]

Take(k) ==
  /\ pending[k] # NoVersion
  /\ running[k] = NoVersion
  /\ running' = [running EXCEPT ![k] = pending[k]]
  /\ pending' = [pending EXCEPT ![k] = NoVersion]

Finish(k) ==
  /\ running[k] # NoVersion
  /\ running' = [running EXCEPT ![k] = NoVersion]
  /\ UNCHANGED pending

(* clear_pending: queued jobs go, running ones finish normally.             *)
ClearPending ==
  /\ pending' = [k \in Keys |-> NoVersion]
  /\ UNCHANGED running

QueueNext ==
  \/ \E k \in Keys, v \in Versions : Request(k, v)
  \/ \E k \in Keys : Cardinality(Busy) < Capacity /\ Take(k)
  \/ \E k \in Keys : Finish(k)
  \/ ClearPending

QueueSpec == QueueInit /\ [][QueueNext]_queueVars
=============================================================================
