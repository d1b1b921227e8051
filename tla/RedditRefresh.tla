--------------------------- MODULE RedditRefresh ---------------------------
(***************************************************************************)
(* The Reddit refresh worker over the fetch queue it feeds.  A submit      *)
(* wakes the worker, which waits out the interval since its last start,    *)
(* queues one task per eligible feed, waits until the queue is empty or a  *)
(* deadline passes, records every feed, queues the prewarm of stories      *)
(* without comments, waits again and saves the circuit.  The queue's steps *)
(* are those of RedditFetchQueue, with what a task stores.                 *)
(***************************************************************************)
EXTENDS RedditFetchQueue

CONSTANTS
  Interval,       \* reddit_refresh_min_interval_seconds
  WaitLimit,      \* how long a refresh waits for the queue
  RetryDelay,     \* pause before the retry pass, 0 without one
  MaxBackoff,     \* longest backoff of a failed feed
  MaxTasks        \* BOUND: tasks in the queue

ASSUME ConstantsAssumption ==
  {Interval, WaitLimit, MaxBackoff, MaxTasks} \subseteq Nat \ {0} /\ RetryDelay \in Nat

VARIABLES
  \* RedditRefreshWorker
  pc,            \* where the worker thread is
  pending,       \* a submit waits for a start
  stopping,      \* shutdown was asked
  sinceStart,    \* ticks since the last start
  waitLeft,      \* ticks until the worker stops waiting
  todo,          \* feeds of this refresh
  \* what the tasks and the refresh store
  cached,        \* feeds with a parsed response in reddit_feed_cache
  retryIn        \* ticks until next_retry_at of each feed

worker == <<pc, pending, stopping, sinceStart, waitLeft, todo>>
stored == <<cached, retryIn>>
vars == <<worker, queue, stored>>

Waits == {"feeds", "pause", "again", "prewarm"}
PCs == {"wait", "plan", "record", "hydrate", "save", "dead", "stopped"} \cup Waits

-----------------------------------------------------------------------------
(* The queue's thread                                                     *)

\* It starts a task, or sees that there is none.
QueueStep == (PopReady \/ SeesEmpty) /\ UNCHANGED <<worker, stored>>

\* A task ends, whether it fetched, failed or found the feed cached.
TaskEnds ==
  /\ TaskReturns
  /\ \/ running.kind = "feed" /\ cached' = cached \cup {running.feed}
     \/ UNCHANGED cached
  /\ UNCHANGED <<worker, retryIn>>

\* The cache keeps a response for TTL_SECONDS.
CacheExpires ==
  /\ \E f \in cached : cached' = cached \ {f}
  /\ UNCHANGED <<worker, queue, retryIn>>

-----------------------------------------------------------------------------
(* The worker                                                             *)

Init ==
  /\ pc = "wait" /\ pending = FALSE /\ stopping = FALSE
  /\ sinceStart = Interval /\ waitLeft = 0 /\ todo = {}
  /\ QueueInit
  /\ cached = {} /\ retryIn = [f \in Feeds |-> 0]

Submit ==
  /\ ~pending
  /\ pending' = TRUE
  /\ UNCHANGED <<pc, stopping, sinceStart, waitLeft, todo, queue, stored>>

Shutdown ==
  /\ ~stopping
  /\ stopping' = TRUE
  /\ UNCHANGED <<pc, pending, sinceStart, waitLeft, todo, queue, stored>>

\* The worker takes the submit when the interval has passed since its last
\* start, so what is submitted from here on asks for another refresh.
Start ==
  /\ pc = "wait" /\ pending /\ ~stopping /\ sinceStart >= Interval
  /\ pc' = "plan" /\ pending' = FALSE /\ sinceStart' = 0
  /\ UNCHANGED <<stopping, waitLeft, todo, queue, stored>>

Stops ==
  /\ pc = "wait" /\ stopping
  /\ pc' = "stopped"
  /\ UNCHANGED <<pending, stopping, sinceStart, waitLeft, todo, queue, stored>>

Waiting(where, ticks) == pc' = where /\ waitLeft' = ticks

\* Feeds whose next_retry_at has passed are queued.
Plan ==
  /\ pc = "plan"
  /\ todo' = {f \in Feeds : retryIn[f] = 0}
  /\ IF todo' = {}
       THEN /\ Waiting("hydrate", 0)
            /\ UNCHANGED queue
       ELSE /\ Len(heap) + Cardinality(todo') <= MaxTasks
            /\ Enqueue("feed", SetToSeq(todo'), FeedStride)
            /\ Waiting("feeds", WaitLimit)
  /\ UNCHANGED <<pending, stopping, sinceStart, stored>>

Missing == todo \ cached

\* wait_until_empty returns: the queue is idle, or the deadline has passed.
\* With a retry pass, feeds still missing are tried again after a pause.
FeedsWaited ==
  /\ pc = "feeds" /\ (idle \/ waitLeft = 0)
  /\ IF RetryDelay > 0 /\ Missing # {}
       THEN Waiting("pause", RetryDelay)
       ELSE Waiting("record", 0)
  /\ UNCHANGED <<pending, stopping, sinceStart, todo, queue, stored>>

RetryPass ==
  /\ pc = "pause" /\ waitLeft = 0
  /\ IF Missing = {}
       THEN UNCHANGED queue
       ELSE /\ Len(heap) + Cardinality(Missing) <= MaxTasks
            /\ Enqueue("feed", SetToSeq(Missing), FeedStride)
  /\ Waiting("again", WaitLimit)
  /\ UNCHANGED <<pending, stopping, sinceStart, todo, stored>>

RetryWaited ==
  /\ pc = "again" /\ (idle \/ waitLeft = 0)
  /\ Waiting("record", 0)
  /\ UNCHANGED <<pending, stopping, sinceStart, todo, queue, stored>>

\* Every feed of the refresh is recorded: a cached response replaces its
\* snapshot and clears its failures, a missing one backs off, the longer the
\* more often it has failed (300 s, doubled up to 4 h).
Record ==
  /\ pc = "record"
  /\ \E backoff \in [Missing -> 1 .. MaxBackoff] :
       retryIn' = [f \in Feeds |->
         IF f \notin todo THEN retryIn[f]
         ELSE IF f \in cached THEN 0 ELSE backoff[f]]
  /\ Waiting("hydrate", 0)
  /\ UNCHANGED <<pending, stopping, sinceStart, todo, queue, cached>>

\* The top stories of the fetched feeds that have no comments yet, whichever
\* they are, are prewarmed.
Hydrate ==
  /\ pc = "hydrate"
  /\ \E bare \in SUBSET (todo \cap cached) :
       IF bare = {}
         THEN Waiting("save", 0) /\ UNCHANGED queue
         ELSE /\ Len(heap) + Cardinality(bare) <= MaxTasks
              /\ Enqueue("prewarm", SetToSeq(bare), PrewarmStride)
              /\ Waiting("prewarm", WaitLimit)
  /\ UNCHANGED <<pending, stopping, sinceStart, todo, stored>>

PrewarmWaited ==
  /\ pc = "prewarm" /\ (idle \/ waitLeft = 0)
  /\ Waiting("save", 0)
  /\ UNCHANGED <<pending, stopping, sinceStart, todo, queue, stored>>

\* An error anywhere in the refresh is logged and ends it (and so does, in
\* this model only, a queue that has reached MaxTasks).
RefreshRaises ==
  /\ pc \in {"plan", "pause", "record", "hydrate"}
  /\ Waiting("save", 0)
  /\ UNCHANGED <<pending, stopping, sinceStart, todo, queue, stored>>

\* MUTANT of Save: the pending flag is cleared when the refresh is over.
SaveClearsPending ==
  /\ pc = "save"
  /\ pc' \in {"wait", "dead"}
  /\ todo' = {} /\ pending' = FALSE
  /\ UNCHANGED <<stopping, sinceStart, waitLeft, queue, stored>>

\* The circuit is saved in a finally clause outside the try: if that raises,
\* the only worker thread is gone.
Save ==
  /\ pc = "save"
  /\ pc' \in {"wait", "dead"}
  /\ todo' = {}
  /\ UNCHANGED <<pending, stopping, sinceStart, waitLeft, queue, stored>>

\* A tick passes for every timer.
Tick ==
  /\ QueueTick
  /\ sinceStart' = Min({sinceStart + 1, Interval})
  /\ waitLeft' = Down(waitLeft)
  /\ retryIn' = [f \in Feeds |-> Down(retryIn[f])]
  /\ UNCHANGED <<pc, pending, stopping, todo, cached>>

WorkerStep ==
  \/ Start \/ Stops \/ Plan \/ FeedsWaited \/ RetryPass \/ RetryWaited
  \/ Record \/ Hydrate \/ PrewarmWaited \/ RefreshRaises \/ Save

Next ==
  \/ Submit \/ Shutdown \/ Tick \/ CacheExpires
  \/ WorkerStep \/ QueueStep \/ TaskEnds

\* Time passes and both threads run; a task may hang for ever, and nobody has
\* to submit or to shut down.
Spec ==
  /\ Init /\ [][Next]_vars
  /\ WF_vars(Tick) /\ WF_vars(WorkerStep) /\ WF_vars(QueueStep)

-----------------------------------------------------------------------------
\* Every variable keeps its type.
TypeOK ==
  /\ pc \in PCs /\ pending \in BOOLEAN /\ stopping \in BOOLEAN
  /\ sinceStart \in 0 .. Interval /\ waitLeft \in Nat /\ todo \subseteq Feeds
  /\ QueueTypeOK
  /\ cached \subseteq Feeds
  /\ retryIn \in [Feeds -> 0 .. MaxBackoff]

\* Every submit is followed by the start of a refresh, even one that comes
\* while a refresh runs, unless the worker is being stopped or died saving the
\* circuit: no refresh hangs, because its waits have deadlines.
SubmitServed == pending ~> (pc = "plan" \/ stopping \/ pc = "dead")
=============================================================================
