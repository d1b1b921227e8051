-------------------------- MODULE RedditFetchQueue --------------------------
(***************************************************************************)
(* The queue of Reddit fetches (reddit_fetch_queue.RedditFetchQueue): a    *)
(* heap of tasks by due time, and one thread that runs a task at a time,   *)
(* spaced from the end of the last one.  RedditRefresh fills it and waits  *)
(* for it; what the queue promises it promises whoever does.               *)
(*                                                                        *)
(* Time is relative: every timer counts ticks and stops at its cap.  A     *)
(* task may run for any number of ticks.                                   *)
(***************************************************************************)
EXTENDS Integers, Sequences, FiniteSets, SequencesExt, FiniteSetsExt

CONSTANTS
  Feeds,          \* the configured Reddit feeds
  FeedStride,     \* spacing of feed tasks
  PrewarmStride   \* spacing of prewarm tasks

ASSUME QueueAssumption ==
  IsFiniteSet(Feeds) /\ {FeedStride, PrewarmStride} \subseteq Nat \ {0}

NoTask == [kind |-> "none"]
MaxGap == Max({FeedStride, PrewarmStride})

VARIABLES
  heap,          \* tasks by due time: kind, feed, ticks until due
  running,       \* the task its thread runs, or NoTask
  idle,          \* the idle event
  gap,           \* _current_min_gap
  sinceFinish,   \* ticks since _last_dispatch_at
  sinceFetch     \* history: ticks since a task last ran

queue == <<heap, running, idle, gap, sinceFinish, sinceFetch>>

QueueInit ==
  /\ heap = <<>> /\ running = NoTask /\ idle = TRUE
  /\ gap = FeedStride /\ sinceFinish = MaxGap /\ sinceFetch = MaxGap

\* The heap keeps the tasks by due time; of tasks due at the same time the one
\* that came first is taken here to leave first.
Insert(tasks, t) ==
  LET sooner == Cardinality({i \in DOMAIN tasks : tasks[i].due <= t.due})
  IN  SubSeq(tasks, 1, sooner) \o <<t>> \o SubSeq(tasks, sooner + 1, Len(tasks))

\* The tasks of a list of feeds, a stride apart from now.
Spread(what, feeds, stride) ==
  [i \in DOMAIN feeds |-> [kind |-> what, feed |-> feeds[i], due |-> (i - 1) * stride]]

\* enqueue_spread of a list of tasks that is not empty.
Enqueue(what, feeds, stride) ==
  /\ idle' = FALSE
  /\ gap' = stride
  /\ LET tasks == Spread(what, feeds, stride)
         pushed[n \in 0 .. Len(tasks)] ==
           IF n = 0 THEN heap ELSE Insert(pushed[n - 1], tasks[n])
     IN  heap' = pushed[Len(tasks)]
  /\ UNCHANGED <<running, sinceFinish, sinceFetch>>

\* MUTANT of PopReady: only the schedule decides.
PopOnTime ==
  /\ running = NoTask /\ heap # <<>>
  /\ Head(heap).due <= 0
  /\ running' = Head(heap)
  /\ heap' = Tail(heap)
  /\ UNCHANGED <<idle, gap, sinceFinish, sinceFetch>>

\* MUTANT of PopReady: the last task's departure already raises the event.
PopRaisesIdle ==
  /\ running = NoTask /\ heap # <<>>
  /\ Head(heap).due <= 0 /\ sinceFinish >= gap
  /\ running' = Head(heap)
  /\ heap' = Tail(heap)
  /\ idle' = (Len(heap) = 1)
  /\ UNCHANGED <<gap, sinceFinish, sinceFetch>>

\* _pop_ready: the first task leaves when it is due and the gap has passed
\* since the last one finished.
PopReady ==
  /\ running = NoTask /\ heap # <<>>
  /\ Head(heap).due <= 0 /\ sinceFinish >= gap
  /\ running' = Head(heap)
  /\ heap' = Tail(heap)
  /\ UNCHANGED <<idle, gap, sinceFinish, sinceFetch>>

\* _pop_ready on an empty heap raises the idle event.
SeesEmpty ==
  /\ running = NoTask /\ heap = <<>> /\ ~idle
  /\ idle' = TRUE
  /\ UNCHANGED <<heap, running, gap, sinceFinish, sinceFetch>>

\* A task returns or raises: its end is what the next one is spaced from.
TaskReturns ==
  /\ running # NoTask
  /\ running' = NoTask
  /\ sinceFinish' = 0 /\ sinceFetch' = 0
  /\ UNCHANGED <<heap, idle, gap>>

\* A tick passes for every timer.
Down(n) == Max({n - 1, 0})
QueueTick ==
  /\ heap' = [i \in DOMAIN heap |-> [heap[i] EXCEPT !.due = Down(@)]]
  /\ sinceFinish' = Min({sinceFinish + 1, MaxGap})
  /\ sinceFetch' = IF running # NoTask THEN 0 ELSE Min({sinceFetch + 1, MaxGap})
  /\ UNCHANGED <<running, idle, gap>>

\* The queue with callers that enqueue what they like, when they like.
Enqueued ==
  \E feeds \in UNION {SetToSeqs(some) : some \in (SUBSET Feeds) \ {{}}} :
    \/ Enqueue("feed", feeds, FeedStride)
    \/ Enqueue("prewarm", feeds, PrewarmStride)

QueueNext == Enqueued \/ PopReady \/ SeesEmpty \/ TaskReturns \/ QueueTick

QueueSpec == QueueInit /\ [][QueueNext]_queue

-----------------------------------------------------------------------------
Tasks == [kind : {"feed", "prewarm"}, feed : Feeds, due : Nat]

\* Every variable of the queue keeps its type.
QueueTypeOK ==
  /\ heap \in Seq(Tasks) /\ running \in Tasks \cup {NoTask} /\ idle \in BOOLEAN
  /\ gap \in {FeedStride, PrewarmStride}
  /\ sinceFinish \in 0 .. MaxGap /\ sinceFetch \in 0 .. MaxGap

\* What is due sooner is nearer to the head, so the task that leaves is the one
\* that is due first.
DueInOrder == \A i, j \in DOMAIN heap : i < j => heap[i].due <= heap[j].due

\* "idle only when drained" (wait_until_empty): the event is never up while a
\* task waits or runs, so a refresh that was told the queue is empty reads the
\* results of all of its tasks.
DrainedIsDone == idle => heap = <<>> /\ running = NoTask

\* The spacing is kept from the end of the last task, however long that ran
\* (_last_dispatch_at), even if two refreshes' tasks are in the queue.
SpacingKept ==
  [][running = NoTask /\ running' # NoTask => sinceFetch >= gap]_queue
=============================================================================
