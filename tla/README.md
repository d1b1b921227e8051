# hn-rerank: formal models, checks and proofs

hn-rerank serves a personal ranking of Hacker News and other feeds. One Python
process holds everything: a threaded Flask server, a pool of ranking threads, a
regeneration loop, background fetchers and one SQLite database. Votes change
what a user should see, regeneration changes what everybody should see, and
ranking takes seconds to minutes, so the program spends its life serving decks
that may be behind and making sure they catch up. The specifications here are
about that: who may serve what, when, and what is told to the client.

Line references are to the repository's files (`server.py:2139` is
`src/server.py`, line 2139). `PROJECT.json` maps every definition to its lines.

## 1. Inventory

| Component | State it keeps | Operations | Talks to |
|---|---|---|---|
| `warm_scheduler.WarmScheduler` | `_pending`, `_running`, worker threads, one condition | `request`, `clear_pending`, worker loop | called by the dashboard, runs its warms |
| Dashboard, `server.Handler` | pool generation, per-user counters, cached decks, shared cold deck | votes, reads, warms, `_pool_changed`, start | scheduler, candidate pool, database |
| Candidate pool, `candidate_cache` | one snapshot of candidates and embeddings, a lock | `get_candidate_pool`, `invalidate_candidate_pool` | read by every rank |
| TLDR summaries, `server`, `single_flight` | flights by story, generation slots, `tldr_cache` | tap, forced tap, prefetch | LLM, HN, database |
| Story rows, `database`, `pipeline/enrichment` | one row per story, merged by many writers | `upsert_story`, `fetch_story`, prewarms, pointer follow | written by regen, taps, Reddit |
| Regeneration, `server.regen_loop` | an event, two workers | fetch, publish, submit Reddit | everything |
| Reddit: `reddit_refresh`, `reddit_limiter`, `reddit_fetch_queue` | a pending flag, a circuit breaker, a scheduled heap | submit, acquire, 429, success, dispatch | regeneration, taps, database |
| `llm_limiter` | cooldown, token bucket | acquire, release, record | every LLM call |
| Quotas, `FixedWindowLimiter` | timestamps by key | `try_acquire` | votes, taps |
| `warm_store`, `rank_gate`, `background_cadence` | pending fits; a counter; a flag | save/flush/load; enter/wait; claim/finish | ranking |
| Ranking, `pipeline/ranking` and models | none that outlives a rank but fits | rank one user | candidate pool, votes |
| Terminal client, `clients/tui` | optimistic votes, feeds, revisions | vote, undo, poll, refresh, quit | the HTTP interface |
| Web page, `templates/index.html` | the same in a browser | the same | the HTTP interface |
| Deduplication, `dedup`, `hn_dupes` | resolved duplicates | submit, resolve | regeneration |

What is hard here: a warm reads the version, the votes and the pool at three
different moments; two threads publish; a deck is cached, evicted or dropped
while its successor is being made; a request is dropped because a running job
"already covers it"; a process dies and clients keep version numbers; a tap
waits for somebody else's LLM call, times out, and the answer comes. A row
is captured, a source is asked, and the copy is written back over what others
stored; a reader on a train sends votes that may arrive late or never, while
feeds asked for earlier come in. None of these fails loudly, and a unit test
sees one order of each. `PROJECT.json` lists every such hazard at its line, with
the properties that cover it.

What makes each component correct:

- *Scheduler*: no version asked for is lost, no key runs twice at once, no
  thread sleeps past work it could start, a debounce is kept.
- *Dashboard*: a label never promises more than the deck has; a stale deck
  always has its successor on the way; a voter who polls gets a current deck;
  what a vote was answered with stands for a deck that has the vote.
- *TLDR*: one generation per story, no waiter or slot is lost, fresh is never
  replaced by stale, a forced tap is answered by a forced generation.
- *Story rows*: text and its fetched-count marker move together, a newer
  snapshot is not replaced by an older one.
- *Reddit*: spacing is kept, one probe per cooldown, a submitted refresh runs.
- *Terminal client*: screen and server agree on what was confirmed, a late
  reply never hides an acknowledged vote, a stale deck is replaced, and the
  exit report is exact.
- *Deduplication and decks*: a snapshot is never stranded, a resolution never
  names a story that is not stored, no card is shown twice, no topic is lost
  between two stages that each drop duplicates, both arms get equal turns, and
  the far card keeps its place.

## 2. Modules

| Module | Models | Notes |
|---|---|---|
| `WarmQueue` | what the scheduler promises | abstract: no clocks, threads or condition |
| `WarmScheduler` | `warm_scheduler.py` | refines `WarmQueue` |
| `WarmSchedulerProofs` | theorems about `WarmScheduler`, the refinement among them | TLAPS |
| `Dashboard` | `Handler`, the candidate pool, the feedback table | composed with `WarmQueue` |
| `DashboardProofs` | theorems about `Dashboard` | TLAPS |
| `Tldr` | the tap handler, the prefetch, `single_flight.py` | |
| `TldrProofs` | theorems about `Tldr` | TLAPS |
| `StoryRow` | `upsert_story` and everybody who writes a row | |
| `StoryRowProofs` | theorems about `StoryRow` | TLAPS |
| `RedditLimiter` | `reddit_limiter.py` and its callers | relative time |
| `RedditFetchQueue` | `reddit_fetch_queue.py` | relative time; for any caller |
| `RedditRefresh` | `reddit_refresh.py`, `refresh_reddit_candidates` | extends `RedditFetchQueue` |
| `RedditProofs` | theorems about the three, the refinement of the queue among them | TLAPS |
| `Client` | the terminal client and a server | |
| `ClientProofs` | theorems about `Client` | TLAPS |
| `HnDupes` | the resolver and its worker, `hn_dupes.py` | |
| `HnDupesProofs` | theorems about `HnDupes` | TLAPS |
| `HnDupeCards` | `canonical_outcomes` | operators, no state |
| `WindowDeck` | a rank from its scores to what is served | uses `HnDupeCards` |
| `WindowDeckProofs` | theorems about `WindowDeck` | TLAPS |
| `MC*` | instances, symmetry sets and constants for TLC | |

Operators named `MUTANT of X` in the comments are plausible bugs of `X`. They
are used by no specification: replacing `X` by one must break the property that
`PROJECT.json` pairs it with, which shows that the property says something.

### WarmScheduler and WarmQueue

`pending` and `running` are `_pending` and `_running`. `worker` gives each
thread's place in `_worker`: looking for a job, inside `cond.wait` with a
deadline, or in a job. Everything under the condition's lock is one step; a
caller reads the clock before it takes the lock (`request`, line 68), so
`ReadClock` and `Request` are two steps and the clock it uses may be old. Time
is a counter that `Tick` advances. `owed` is a history variable: the newest
version asked for whose job has not ended.

`WarmQueue` keeps `pending` and `running` only. `ImplementsQueue` maps
`pending[k]` to its version; every step of the code is a step of the queue or
leaves it alone. `Dashboard` uses `WarmQueue`, so its state space has no clock,
and a debounce is any delay.

### Dashboard

A step is what a thread does between two points where another may run: one
lock's critical section, one transaction, or one read of a class attribute.
Python's `dict` operations are atomic, so `_decks.get` is a step.

| State | Code |
|---|---|
| `gen`, `bumps` | `_pool_generation` (boot time in ms), `_dashboard_versions` |
| `votes`, `writes` | a user's rows in the feedback table; changes committed |
| `epoch` | the stories table, as the number of ingests committed |
| `pool`, `poolLock` | the candidate snapshot, as the epoch it was read at; its lock |
| `coldDeck`, `decks` | `_cold_deck`, `_decks`: a deck is its label (version) and what it was ranked from (`saw` vote changes, `epoch`) |
| `pending`, `running` | the scheduler |
| `pc`, `back`, `user`, `ver`, `held`, `todo` | each thread's place and locals |
| `asked`, `ingested`, `counted`, `published`, `acks`, `failed`, `beside`, `torn` | history |

| Actions | Code |
|---|---|
| `Upsert`, `Clear`, `Repeat`, `BumpUser`, `AnswerRepeat`, `Ack` | `_handle_flask_feedback` |
| `StartRead`, `ReadVotes`, `DropDeck`, `ServeCold`, `PickDeck`, `Serve` | `_deck_for_user` and its callers |
| `RaiseVersion`, `CompareDeck`, `Enqueue` | `_trigger_warm`, called from four places |
| `TakeJob` ... `StoreDeck`, `RankFails`, `FinishJob` | `_run_warm_job`, `_run_warm_attempt`, `fast_rerank_for_user` |
| `Ingest`, `InvalidatePool`, `SetColdDeck`, `BumpGeneration`, `WarmCached`, `EndPublish`, `PublishFails` | `regen_loop`, `_pool_changed`, `_rebuild_cold_deck` |
| `GetPool`, `StorePool` | `get_candidate_pool`, inside a warm or a cold-deck build |
| `Restart` | the process dies anywhere and `main` runs again; the tables and the clients' version numbers survive |

A deck's contents are abstracted to `saw` and `epoch`: two decks ranked from the
same votes and pool are the same deck. `PublishFails` is the exception that both
publishers log and survive: before the bump, or after it in the loop that asks for
the cached users' warms, which leaves the rest of them without one. `beside` and
`torn` follow two publications that overlap: whoever holds a pool while another stores its
cold deck is beside it, and the cold deck is torn when it then stores an older one.
`Restart` takes a later boot time, no smaller than any version already handed
out, which is what milliseconds since 1970 give as long as a process serves fewer than a thousand version bumps a second.

### Tldr

A story's text is a version number: `live` is what HN has, `row` what the
stories table has, `text` what a thread read. A cache key is a hash of the text,
so a cached summary is the version it was made from. Each tap and each
prefetched story is a thread that runs once; a flight is named by its leader.

| Actions | Code |
|---|---|
| `Tap`, `Gates` (`ServeCached`, `CoolDown`, `NoSession`, `GoOn`) | `_handle_flask_tldr_detail` up to the flight |
| `Join`, `Woken`, `TimedOut`, `Follow` | `join_or_lead`, `Flight.wait`, `followup_or_lead` and the branches on them |
| `TakeSlot`, `Quota`, `Fetch`, `CheckCache`, `CallLlm` | `_generate_tldr_reply` |
| `Raise`, `Land`, `Announce`, `Teardown` | the `finally` clause, `land`, the teardown hook |
| `Prefetch`, `SkipCached`, `TryLead`, `Reread` | `_prefetch_one` |
| `Grow`, `Thaw` | the outside: comments arrive, a provider cooldown ends |
| `Prewarm` | `prewarm_top_stories` stores what ClickHouse has, newer or older than the row |

`land` is two steps, because the key is released under the lock and the waiters
are woken after it. Quotas, session checks and the clock-based choices of the
gates may go either way. Stories are HN stories. A tap's fetch moves a row forward, a
prewarm from a lagging snapshot can set it back; how the merge goes is the subject of
`StoryRow`. `newest` is the newest text a row has had, and `misled` the prefetches that
read a row behind it.

### StoryRow

One row and ten kinds of writer. `thread` is what the source has: a version of
the discussion for each change, with its count, its length, and whether it is a
lone note that points to another thread. Comments are a record of the version
they are from, whether a pointer was followed, and their length; a text is what
it was composed of. A writer is idle or in a `job` with the copy of the row it
captured, so the steps of a job are the reads, answers and writes of the code
with its awaits between them. `Upsert` is the one transaction of `upsert_story`:
comments and marker move together, a routine write takes longer or equal
comments of no lower count, the count only grows unless comments are
authoritative, self text and body keep the longer one.

| Actions | Code |
|---|---|
| `IngestReads`, `IngestWrites`, `FeedIngest` | `fetch_candidates` and `fetch_rss_feeds` |
| `CaptureRow`, `ProbeAnswers`, `ForcedFetchReads` | a tap's probe for growth, and `refresh_grown_threads` |
| `FetchReads`, `FetchAnswers`, `FetchFails` | `fetch_story` |
| `TapHeals` | the count a tap writes after its hydration |
| `PrewarmQueries`, `PrewarmReads`, `PrewarmWrites` | `prewarm_top_stories`: the ClickHouse snapshot is older than the row it is merged with |
| `HotProbe`, `HotWrites` | `refresh_hot_counts`, `update_story_counts` |
| `BodyStarts`, `BodyArrives` | `fetch_and_cache_article_bodies`, from the ranking copies without texts |
| `FollowStarts`, `FollowAnswers`, `FollowWrites` | `_follow_pointer_thread` |
| `ContextStarts`, `ContextAnswers` | the contexts of Reddit and LessWrong posts |

### RedditLimiter

Each method of the limiter runs under its lock, so it is one step; `acquire`
sleeps after it released the lock, so a slot is reserved in one step (`Acquire`,
`Probe`) and used in another (`Wake`). Instants are kept as differences to now:
`nextIn` is `_next_allowed_at` minus now, `sinceOpen` is how long ago
`_circuit_opened_at` was, up to the cooldown. `Tick` moves them all. A thread is
woken at its slot and a request ends by its timeout, so a unit of time passes
only when nobody is due; the model is about what the limiter allows, not about
how late the host may wake a thread.

| State | Code |
|---|---|
| `count`, `sinceOpen`, `probing`, `nextIn` | the limiter's four fields |
| `saved` | the row of `reddit_circuit_state` |
| `pc`, `kind`, `left`, `timer` | a caller: asking, asleep, in a request; what it fetches; attempts left; time to its slot or timeout |
| `early`, `hold`, `sinceSlot`, `resume` | history |

| Actions | Code |
|---|---|
| `Start` | the factories of feeds and prewarms, a tap's fetch of comments |
| `Refused`, `Acquire`, `Probe`, `Wake` | `acquire` |
| `OnSuccess`, `On429`, `Unreported`, `FallBack` | what the callers do with an answer, `on_success` and `on_429` included; a feed's urllib fallback |
| `Save`, `Restart` | `snapshot` at the end of a refresh; the process dies anywhere and `restore` runs |

The 120 s cap on `x-ratelimit-reset`, the 10 s cap on `Retry-After` and the 1 s
it defaults to are constants, and which header reaches `on_429` on which path is
modelled, because the two paths differ.

### RedditFetchQueue and RedditRefresh

`RedditFetchQueue` is the queue and its thread (`heap`, `running`, `idle`, `gap`,
`sinceFinish`), with callers that enqueue any spread of tasks at any moment.
`RedditRefresh` is the refresh worker (`pc`, `pending`, `sinceStart`, `waitLeft`,
`todo`) above it, and takes the queue's steps from there. A task runs for as long as it likes, so a refresh may stop
waiting while its tasks are still queued, and the next refresh's tasks join
them. `cached` and `retryIn` are what tasks and refreshes leave in the feed cache
and in `reddit_feed_state`. Timers are ticks since or ticks to go, capped.

| Actions | Code |
|---|---|
| `Submit`, `Shutdown`, `Start`, `Stops`, `RefreshRaises`, `Save` | `RedditRefreshWorker` |
| `Plan`, `FeedsWaited`, `RetryPass`, `RetryWaited`, `Record`, `Hydrate`, `PrewarmWaited` | `refresh_reddit_candidates` |
| `QueueStep` (`PopReady`, `SeesEmpty`), `TaskEnds` (`TaskReturns` and what the task stores), `Enqueue` in `Plan` and others | `RedditFetchQueue` |
| `CacheExpires`, `Tick` | the feed cache's age; time |

`Save` may raise, and then the thread is gone (`pc = "dead"`), as in the code.

### Client

The reader is one asyncio loop, so a step is what runs between two awaits. In
flight are at most one feed request (`refresh`), one neighbour prefetch, and the
votes in the order of `vote_lock` (`queue`), of which the first is with the server. The
server is abstract: its reads and writes are single steps, versions grow, a
`Rank` makes the deck current, and `Restart` begins with other versions. A vote
that timed out stays in `late` and may still be processed.

| Actions | Code |
|---|---|
| `UserVote`, `UserUndo` with `ApplyVote`, `ApplyUndo`, `Submit` | `action_vote`, `action_undo`, `submit` |
| `AckVote`, `FailVote`, `RejectVote` | the three ways `submit` goes on |
| `Refresh`, `ReceiveRefresh` (`ShowReply`, `KeepReply`, `DropReply`), `FailRefresh`, `RejectRefresh` | `refresh_feed` |
| `PrefetchNext`, `ReceivePrefetch`, `FailPrefetch` | `prefetch_windows` |
| `Poll`, `PollCounts` with `Reload`, `ForgetDecks` | `poll_feed_version`: another deck, or the same one with other counts |
| `SwitchWindow`, `SwitchSort`, `Connected`, `Setup`, `Quit`, `Exit` | the actions of the same names |
| `ServeRefresh`, `ServePrefetch`, `ServeVote`, `ServeLate`, `Rank`, `Regen`, `Restart` | the server |

A poll that finds other counts clears `feeds` and asks for the deck on screen again,
which stays there but is no longer in the cache (`uncached`) until a feed is set; a
prefetch sent before is of an older generation of the caches and is dropped.
`revision` numbers the choices about a story, as `vote_revisions` does: an
answer of an older revision changes nothing. `acked`, `unsure` and `known` are
history: what was confirmed, where the server's order is no longer known, and
the newest version acknowledged over a deck.

### HnDupes

One worker thread at most, and a snapshot to be taken. `site` is Hacker News: for
each story whether it lives, its score and comments and the links in its first
comments. `items` and `memo` are the resolver's caches, `rows` the stored
resolutions, `due` the stories whose check has come. A resolution is read
(`Resolve`, `ResolveFails`), then its target is stored (`StoreTarget`), then its
row (`StoreRow`): two transactions, with a crash, a failed write or a submit
between them.

### HnDupeCards and WindowDeck

`HnDupeCards!Outcomes` is `canonical_outcomes`: for a list of stories and what
one call reads, each card stays, is replaced by the story it duplicates, or is
dropped. `WindowDeck` composes the stages of `fast_rerank_for_user` in their
order, and then serves the deck:

| Actions | Code |
|---|---|
| `ReadFeedback` | the snapshot of votes |
| `Assemble` | `assemble_window_deck`: per window the candidates, Recommended, Popular and Explore with its badges and interests |
| `Dedup` | `dedup_ranked` over the stories of all views, with stories voted on; it reads them again |
| `Canonicalize` | `canonicalize_deck`, once for the whole deck |
| `Draft` | `draft_recommended` with `team_draft`, for users in a trial |
| `PlaceFar` | `place_far_card` |
| `Served` (an operator) | `serve_window` for the votes and the clock of the moment |
| `Vote`, `Tick` | a vote or an undo during or after the rank; time |

The up-votes that Explore is far from are those of a read later than the snapshot
(`hasUpvotes`). Scores are orders, so there are no ties; which stories are alike by URL, embedding
or title, and which are far from all up-votes, is data of a pool. A user without
votes gets the cold deck: one order, no Explore badges.

## 3. Runs

| Run | Instance | Shows |
|---|---|---|
| `warm_scheduler` | 2 keys, 2 workers, 2 callers, 3 requests, clock to 2, 1 failure | `NoLostWakeup`, `DebounceKept`, the refinement `ImplementsQueue` and `OwedIsSettled` |
| `votes` | 2 users, 1 cached deck, 2 requests, 1 worker, 2 vote changes, a restart anywhere | `AckedVoteReachesDeck`, `TargetsReachable` over eviction and restart |
| `decks` | 1 user, 1 vote change, 2 workers, the regen loop and the Reddit worker, 2 ingests | `FreshDeckIsFresh`, `ReadyViewIsFresh`, `DeckNeverOlder` |
| `live` | 1 user, a failing warm or publication, a repeat, 1 ingest | `VoterGetsFreshDeck`, `NoForgottenDeck` |
| `tldr` | 2 taps and 1 prefetch on 1 story, 1 slot, 2 text versions, 1 failure or lagging prewarm | `OneGenerationPerStory`, `SlotsBalanced`, `ForcedReplyIsFresh`, `WaiterWillWake`, `PrefetchNeverOlder` |
| `story_row` | 2 writers of any kind, 2 versions, lengths to 2 | `RowAgrees`, `NothingLost`, `RoutineNeverOlder`, `OverwrittenIsVisible` |
| `reddit_limiter` | the queue's thread and a tap, 2 attempts, circuit at 2 429s, cooldown 6, 1 restart | `SlotsSpaced`, `BackoffKept`, `ProbeAlone`, `CooldownSurvives`, `CircuitCloses` |
| `reddit_refresh` | 2 feeds, a retry pass, 4 tasks in the queue | `DrainedIsDone`, `SpacingKept`, `SubmitServed` |
| `client_votes` | 2 stories, 3 revisions, 2 failures, 2 profiles, quitting | `ScreenAgrees`, `NoStrandedFollowUp`, `ReportExact` |
| `client_decks` | 2 windows, 1 vote, 1 failure, a regen, restart or moved count, 2 profiles | `AckNotForgotten`, `CachesMatch`, `StaleDeckReplaced` |
| `hn_dupes` | 3 stories, 2 regenerations, a change of the site, an expiry, a fault | `NoSnapshotStranded`, `CanonicalStored` |
| `window_decks` | 9 stories, 2 windows and the archive, 113 pools, a vote or its undo, the clock to 2 | `ServedOnce`, `FarCardStays`, `TopicKept`, `DraftFair` |

Every run finds its properties to hold. Each property also has a mutant, a
plausible bug of one mapped definition, under which the same run finds it violated.

Bounds. Every counter has a named bound (`Max...`), and one of each kind of
event is enough for the interesting meetings: a vote before, during and after a
warm; a regen between any two steps of a warm; a request covered by a running
job; an eviction by another user's store. Two vote changes let an older answer
be confused with a newer one. `votes` has no repeated
requests, which would make it four times as large: `live` has one, and the theorem
`AnswersAreKept` covers any number. One cached slot for two voters makes eviction
certain. `decks` has both publishers and a batch of stories for each, which is what it
takes for one to store an older cold deck over the other's; a publication there does not
raise. In `live` one may, before its bump or after it. `live` has one voter, since a
second one is out of reach with fairness: that eviction leaves no stale deck without a warm is the
theorem `NothingForgotten`'s. In `votes` the second boot time is past every version that can have been
handed out, so a restart may come before or after versions grew.
In `tldr` two taps, either or both forced, and a prefetch are the three parties
that can hold or want one key; a third tap adds nothing but another waiter. The one failure
may be a prewarm that sets the row back.
In `story_row` a write is wrong because of one copy and what one other writer
stored since; each writer goes on to further jobs, so longer chains happen too.
Two versions and two lengths give comments that are longer and older, or shorter
and newer. In `client_votes` three revisions are a vote, an undo and a vote
again with two failures among them; votes of other stories share the lock and are
the second story. `client_decks` has both a lower and a higher version to
restart with. `reddit_refresh` has room for the tasks of two refreshes.
In `window_decks` the pools of `MCWindowDeck` are built around what goes wrong:
stories that leave the day, far stories in every place, chains of duplicates
inside the pool and to one discussion outside it, posts that resolve to each
other in a circle, equal URLs, alike titles, a story of the archive that stands for a newer one, a story that is voted on for
only as long as deduplication looks, and two arms that disagree; views of two
cards make the cut bite.
Instances are symmetric in requests, workers and writers; symmetry is not used
where a liveness property is checked. In `reddit_limiter` a unit of time stands for
the shortest jittered delay; the constants keep the order of the code's (a
timeout shorter than a backoff, a backoff than a cooldown). `ProbeAlone` holds
because a cooldown outlasts the slots and requests of before it; the exact
condition is `CooldownOutlasts`, which the run evaluates on its instance and the
theorem assumes (section 5).

Deadlock is not checked: requests, votes, faults and ingests are bounded, threads
of `Tldr` run once, a deck is ranked once, a reader may exit and a worker may be
stopped. That nothing gets stuck before that is what `NoLostWakeup`,
`OwedIsSettled`, `VoterGetsFreshDeck`, `WaiterWillWake`, `NoSnapshotStranded`,
`NoStrandedFollowUp`, `SubmitServed`, `StaleDeckReplaced` and `CircuitCloses` say.

Each module states a type invariant, and each is a theorem; no run lists one,
since the other properties fail on an ill-typed state too.

Fairness. In `WarmScheduler` threads are scheduled (weak fairness), the clock
moves and a job returns or raises; nobody is made to call. In `Dashboard` a
thread in the middle of something goes on (weak fairness); a warm worker and a
publisher get the locks they share with others again and again (strong
fairness, as for a lock under a fair scheduler); and a client polls:
strong fairness of `StartRead`, justified by the page and the terminal client,
which ask `/api/ranking-ready` and the feed until the deck is ready. Without
polling the property fails, since a warm that raised is queued again only by a
read. In `RedditLimiter` threads and time go on, each refresh gives the queue
feeds again (weak fairness of `Start` for its thread), and Reddit lets a
request through now and then (strong fairness of some `OnSuccess`): without the
last the circuit should stay open. In `RedditRefresh` time passes and both
threads go on; a task may run for ever, and nobody has to submit or stop. In
`Client` a request is answered or fails, the server ranks, and the reader polls
when it may (`set_interval`); users do nothing they do not want to.

## 4. Where code and comments part

Modelling met these. None contradicts a property above: each property states what the
code does, and names as an exception where the code falls short of its words.

- `server.py:2364`: `_rebuild_cold_deck` assigns `_cold_deck` without a lock and
  two threads run it (`regen_loop`, 4199, and the Reddit worker, 4154). The older deck can be
  stored last and stays until the next publication, although "the shared cold
  deck is current" (`server.py:1884`). This is the exception of `ReadyViewIsFresh`: a
  reader without votes may be served that deck as ready (`torn`).
- `server.py:2342`: if reading a user raises after the bump, the exception is caught far
  away (`server.py:4218`, `reddit_refresh.py:80`) and the cached users not yet
  reached get no warm until they read or the next publication comes, although
  `_pool_changed` is to "queue a refresh for each cached user" (2336). This is an
  exception of `NoForgottenDeck` (`failed`).
- `server.py:1740`: a prefetch re-reads the row after it leads, to "never regenerate
  from stale input over a fresh row". A bulk prewarm can have put an older text in that
  row meanwhile (`enrichment.py:400`), and then the prefetch replaces a tap's
  fresher summary. This is the exception of `PrefetchNeverOlder` (`misled`).
- `reddit_limiter.py:17`: "server restart re-initializes the singleton to a fresh state".
  The refresh worker saves the circuit after every refresh (`reddit_refresh.py:84`)
  and restores it when it starts (`reddit_refresh.py:41`), so a restart within the cooldown
  keeps an open circuit open. `CooldownSurvives` states what the code does, not
  that sentence; what starts afresh is the next slot, and that no probe is out.
- `server.py:2745`: a vote repeated while its first request has committed but not
  bumped the version is answered with a version that does not count the vote,
  although the comment says the client "gets the version it already has"
  (`server.py:2741`). `AckedVoteReachesDeck` takes such an answer for what it is: it
  stands for the changes that were counted when it was made.
- `server.py:3831`: a tap uses the story it read before it led. If another
  flight landed a fresher summary in between, the tap replaces it by one of the
  older text. The prefetch re-reads after leading for this very reason
  (`server.py:1740`).
- `server.py:648`: after a 429 without headers a comments fetch waits 1 s, however
  many 429s came before, since a default for the missing `Retry-After` is passed
  on as if Reddit had sent it. The limiter's "Exponential backoff on 429"
  (`reddit_limiter.py:10`) is only ever used by feeds.
- `http_fetch.py:350`: a Reddit feed refused with 403 or 503, or broken off, is
  asked for a second time at once, by urllib, without a slot of its own, although
  "the limiter enforces 2s spacing between requests" (`reddit_limiter.py:3`).
- `clients/tui/.../app.py:2273`: a current deck requested before an undo takes
  the undone row off the screen; the acknowledgement marks the deck stale
  (2806) and inserts nothing, so the row is away until the next deck, although
  2818 and 2278 mean undone rows to stay. An undo while moved counts are being
  fetched finds the cache cleared (2164) and inserts nothing at all (2822).
- `hn_dupes.py:545` and `779`: two posts that resolve to each other are each a
  duplicate of a card on the list, and both are dropped (the last exception of
  `TopicKept`). The resolver takes only stronger targets, but strength is compared
  at the time of each resolution, and `HnDupes` reaches such rows.
- `hn_dupes.py:418`: the failure count of a retry is that of the row before, but
  `get_hn_dupe_resolutions` leaves out rows that are due (`database.py:988`), and only
  due ones are resolved: the count is always 1 and the pause always 15 minutes,
  never the doubling of line 432.
- `enrichment.py:372`: a prewarm that captured a row without comments and whose
  snapshot has none marks it as fetched, authoritatively, and wipes comments that
  arrived in between (the exception in `NothingLost`).
- `reddit_refresh.py:84`: the circuit is saved in a `finally` outside the `try`; if
  that raises, the only worker thread ends (the exception in `SubmitServed`).
- `ranking.py:2400` says Discover already holds the best far stories outside
  Recommended; a story that Unsure took is not in Discover.
- `pipeline/__init__.py:1029` says that one feedback snapshot serves every stage;
  deduplication reads the feedback again (1207), and so does the
  canonicalization of a user without votes.
- Deduplication is over the whole deck, so of two alike stories in different
  windows one leaves its window without a successor there (`TopicKept` asks for
  one in the deck). The one that stays may be in the archive and duplicate a
  discussion that is not: then canonicalization drops it too, and neither is
  shown (the other exception of `TopicKept`). A vote that is undone while the deck is
  ranked has suppressed its duplicates all the same (`compared`). A discussion that canonicalization brings in comes
  after deduplication and may have another card's URL.
- `llm_limiter.py:124`: a call reserved before the bucket is known gives back
  tokens it never took. `warm_store.py:91`: a load during a flush reads the older fit.

## 5. Proofs

Every proof module extends the module it is about and is checked for all values
of the constants: any users, threads, stories, keys and bounds. What is assumed of
them is named in the module that declares them and evaluated by every run. Two
theorems have a hypothesis of their own: `ProbeIsAlone` (`CooldownOutlasts`, below), and
`RefreshTypeCorrect`, which names as its own what `RedditRefresh` assumes,
since its proof is in a module of the queue. Each argument is the same:
an inductive invariant, one lemma per kind of step that it is kept, and the
property as a consequence. The invariants below say why the property alone is not
inductive.

| Module | Theorems |
|---|---|
| `WarmSchedulerProofs` | `TypeCorrect`; `NoWakeupIsLost` (`NoLostWakeup`); `DebounceIsKept` (`DebounceKept`); `SchedulerImplementsQueue` (`ImplementsQueue`) |
| `DashboardProofs` | `TypeCorrect`; `LabelHonest` (`FreshDeckIsFresh`); `NothingAhead`; `AnswersAreKept` (`AckedVoteReachesDeck`); `AnswersAreReached` (`TargetsReachable`); `ReadyIsFresh` (`ReadyViewIsFresh`); `NothingForgotten` (`NoForgottenDeck`); `DecksOnlyGrow` (`DeckNeverOlder`) |
| `TldrProofs` | `TypeCorrect`; `StoriesGenerateOnce` (`OneGenerationPerStory`); `SlotsAreBalanced` (`SlotsBalanced`); `WaitersWillWake` (`WaiterWillWake`); `ForcedRepliesAreFresh` (`ForcedReplyIsFresh`); `PrefetchIsNeverOlder` (`PrefetchNeverOlder`) |
| `StoryRowProofs` | `CopiesBelong`; `TypeCorrect`; `RowAlwaysAgrees` (`RowAgrees`); `NothingIsLost` (`NothingLost`); `RoutineIsNeverOlder` (`RoutineNeverOlder`); `OverwritingIsVisible` (`OverwrittenIsVisible`) |
| `RedditProofs`, limiter | `TypeCorrect`; `Spacing` (`SlotsSpaced`); `BackoffSleptThrough` (`BackoffKept`); `CooldownKept` (`CooldownSurvives`); `ProbeIsAlone` (`ProbeAlone`, under `CooldownOutlasts`) |
| `RedditProofs`, queue | `QueueTypeCorrect`; `SoonestLeavesFirst` (`DueInOrder`); `IdleOnlyWhenDrained` (`DrainedIsDone`); `SpacingIsKept` (`SpacingKept`) |
| `RedditProofs`, refresh | `RefreshImplementsQueue`; `RefreshDrains` (`DrainedIsDone`); `RefreshIsSpaced` (`SpacingKept`); `RefreshTypeCorrect` |
| `ClientProofs` | `TypeCorrect`; `ConfirmedChoicesAgree` (`ScreenAgrees`); `AcknowledgedIsAwaited` (`AckNotForgotten`); `FollowUpHasRequest` (`NoStrandedFollowUp`); `CachesBelong` (`CachesMatch`); `ExitReportIsExact` (`ReportExact`) |
| `HnDupesProofs` | `TypeCorrect`; `SnapshotTaken` (`NoSnapshotStranded`); `TargetPersisted` (`CanonicalStored`) |
| `WindowDeckProofs` | `Invariant`; `TypeCorrect`; `OnceServed` (`ServedOnce`); `FarStays` (`FarCardStays`); `DraftIsFair` (`DraftFair`); `TopicIsKept` (`TopicKept`) |

### WarmScheduler

Assumed: workers are finitely many and there is one, delays and bounds are
natural numbers, `NoKey` is no key. The invariant adds to the types and to
`NoLostWakeup` itself

- `JobsHaveThreads`: running keys and the threads that run them correspond one
  to one, without which a job that ends might leave its key blocked;
- `DueInTime`: nothing falls due after the last instant of the clock.

The hard step is a worker going to sleep: its deadline is the least of the due
times it saw, and that there is a least one needs well-founded induction on the
natural numbers. For the refinement each step of the scheduler is mapped: a
request to `Request`, which takes or drops it as the code does; a pick to `Take`
(there is room, because a thread that picks runs nothing); the end of a job to
`Finish`; `clear_pending` to `ClearPending`; clocks, waits and timeouts are stutters. The fairness of the scheduler is not part of `WarmQueue`.

### Dashboard

Assumed: users are finitely many, the kinds of thread are disjoint, boot times are
positive, at least one deck is cached. `Inv` has five parts, each resting on the
ones before. `IInv` is what `FreshDeckIsFresh` needs, which says nothing of the
deck a warm is about to store:

- `UserKnown`: a thread past its first step has a user;
- `NoVersionAhead`, `CallersBehind`: nothing cached, queued, running or asked
  for is ahead of its user's version; so a version that grows makes every
  existing label stale, and a label can be trusted only if it is equal;
- `WritesCommitted`, `EpochsCommitted`: what a version counts is in the tables,
  so a warm that reads after its label reads it;
- `BuilderHasLock`, `PoolFresh`: the pool, stored or in a builder's hands, has
  everything published and everything a publisher that invalidated it is about
  to publish. This is where the order "invalidate, then bump" is used;
- `WarmsHonest`: a warm whose label is still current has read every vote counted
  (once past reading votes) and every epoch published (once past the pool).

`Jobs`: a user's running job has one worker, its version is the one being
built, and what is cached after its store is no older. With `NoVersionAhead` it
gives `DeckNeverOlder`. `Answers`: a version told to a voter, or about to be, is a
`Promise`: every deck, and every warm that may still store one, labelled so high
has the vote. A promise is kept by labels that start later, since those are
read after the version. `Reads`: the same promise for what a read has in hand.
A cached view has a label and needs nothing else; the shared cold deck has none,
and `ColdKept` follows it through the publishers that build it, however many: the pool a
publisher got has its own ingest, and has everything published or about to be unless
another cold deck was stored since (`beside`); so a cold deck is complete unless it is
`torn`. The votes of a ready view do not depend on the cold deck, and have no exception. `StaleDecksMove`: `NoForgottenDeck` made inductive. A stale
deck has a queued version above its own, or a worker that brings one or has seen
that it must trigger again, or a thread about to ask, or a publisher with the user
still to do; a publisher that raises marks those users `failed`. A request that the queue drops is covered by one of these.

### Tldr

Assumed: the kinds of thread are disjoint and no thread is also a story or
`NoFlight`; bounds and slots are natural numbers. The invariant adds

- `SlotsHeld`: who holds a slot is between taking it and its teardown;
- `FlightsInOrder`: what a thread joined or follows is a flight of its story,
  forced if it is a follow-up, which has landed or whose leader is still on its
  way; only who has been through `land` is in `landed`;
- `TextsInOrder`: a cached summary and the row are no newer than `newest`, the newest
  text the row has had, and that is no newer than HN; a prefetch that leads, having read
  again, holds a text at least as new as the cache, unless it was misled;
- `Fetches`, `LateFlights`: a forced leader has fetched before it calls, what it
  got is as new as HN was when it asked, and every flight of the story that began
  after a tap found an ordinary one fetches text as new as that tap wants;
- `RepliesInOrder`: values and replies are made of these.

`OneGenerationPerStory` carries itself: a key is held by exactly the flight whose
leader is between its lead and its `land`.

### StoryRow

Assumed: the bounds are positive numbers. `RowAgrees` says nothing of the copies that writers hold and will
write back, so `Fits` is demanded of the row and, in `JobFits`, of every copy
however old: text, comments, marker and count belong together. Only the copy of a
body job (a ranking copy without texts) may have another text, and `upsert_story`
composes anew. `UpsertedFits` is the lemma about the merge: whatever fits goes in,
what comes out fits, whichever side's comments win. The three action properties
are read off the same lemma, write by write.

### RedditLimiter

Assumed: delays and header values are natural numbers, the backoff table is not
empty and holds positive numbers, the circuit's limits are positive. The
invariant adds to the types

- `SlotsApart`: the slots given out are the shortest delay apart from each
  other, from the last one used and from the next one to give, which
  `SlotsSpaced` alone does not know;
- `BackoffAhead`: the next slot to give is past every backoff asked for;
- `StillCooling`: what is left of a saved cooldown is left of the circuit's too,
  and nobody holds a slot.

`ProbeAlone` needs arithmetic of the constants. `Chain` says that slots are
linked: each is at most one delay behind the one before it, or was put off
to the longest backoff; so with n sleepers the last slot is at most n delays past
that. `Ending` says that while the circuit is open, what is outstanding will
be over by `Worst`, the longest backoff, a slot for every caller but two and two
timeouts (a feed and its urllib request), counted from the opening; when the
circuit has cooled down nobody is left but a probe. The hypothesis `CooldownOutlasts`
is `Worst < Cooldown`. In the code delays are at most 2.5 s, the longest
backoff 120 s, a request's timeout 15 s and the cooldown 300 s
(`reddit_limiter.py:49`, `http_fetch.py:271`), so it holds for up to 61 threads that
use the limiter. The timeout of a socket is taken as the longest a request lasts; a
server that sends a byte now and then could draw one out.

### RedditFetchQueue and RedditRefresh

Assumed: feeds are finitely many and the strides are positive; for the types of
the refresh, its times and bounds are positive too.

The queue's theorems hold whoever enqueues. `QueueInv` has `FinishIsLastFetch`,
which relates the timer the code keeps, from the end of the last task, to the time
since the last fetch, and `DrainedIsDone` itself: the idle event is only ever set
by the thread that saw the heap empty with nothing running. It does not need to
know what the heap holds. `HeapInv` does: the types of its tasks and
`DueInOrder`. `InsertIs` says of one insertion that the tasks due no later are a
prefix of an ordered list, so that cutting there and putting the task in between
keeps order and types; `EnqueueIs` is the induction over the tasks of a spread; a
tick keeps the order because `Down` does, also at 0.

`RefreshImplementsQueue` is the refinement: under a `RedditRefresh` instance every
step of the worker and of its tasks is one of the queue's, or leaves the queue alone.
What is enqueued is a list of some feeds and not the empty one, for which the
refresh's set of feeds has to stay one of configured feeds (`TodoIsFeeds`). So the
queue's theorems are the refresh's (`RefreshDrains`, `RefreshIsSpaced`).

### Client

Assumed: `NoWindow` is no window, boot versions and bounds are positive numbers.
The invariant joins

- `Requests`: what is under way is for a window of this profile, and while
  signing in nothing is sent;
- `Caches`: `CachesMatch`, and the deck on screen is one of the model's `feeds` (`Match`
  says the same of given ones, so that `InCache`, the code's after counts moved, has it too);
- `OneInFlight`: only the first vote of the lock's queue has been sent;
- `Acks`: what the reader waits for is no more than the server's version, an
  answer to the vote under way would be no less than what is known, and a reply
  that will still be taken was read after all that was known;
- `Votes`: a story's votes are queued in the order they were made and the newest
  of them is there (`Order`), a vote is under way, confirmed or failed and never
  two of these (`Apart`), and what is not confirmed when the reader waits to exit
  is one of the other two (`Reported`), of which `ReportExact` is the last step;
- `Screen`: the newest choice is on the screen while its vote is under way, and
  the server has what it has answered, unless a late delivery made the order
  unknown. `ScreenAgrees` needs this for the moment of the acknowledgement.

### HnDupes

Assumed: the site holds items of the right shape and the markers for "no story"
and "not known" are none of them. `Inv` adds `TargetFirst`: while the row of a
resolution waits to be written its target is stored already, which is what the
order of the two transactions gives and `CanonicalStored` needs for its next step.

### WindowDeck

Assumed: stories are finitely many numbers, sizes are positive, an order of a pool
names a story once, and a stored duplicate of an HN story is one of HN.

The views are computed by recursion over lists, and Popular is sorted again after
duplicates: `ByGravityIs` says that the sort loses no card and doubles none, since the
ranks of a linear order are one to one (`RankSurjects`).
 `Least` (the order of the natural
numbers is well-founded, from the library) gives induction for every *set* of
numbers (`InductiveTo`), and a recursion is a set of functions on initial segments,
of which `Recursion` proves that one satisfies its equation. With these, what each
stage's recursive function returns is a lemma about its operator: `OnlyRange`,
`OnlyDistinct` and `OnlyOrder` for a list cut to a set, `OutcomesOnce` for the pass
over duplicates, `DrawIn` for the draft.

`Inv` says at every stage what the views are by then:

- `Sound`: views of cards of stories; a story has one card in each view and never
  one in both Recommended and Explore; two cards of Recommended and Explore that were
  picked for one story show one story; what is in the archive's deck is in the archive;
- `Fresh`, until canonicalization: a card shows the story it was picked for. Without
  it two cards might already stand for one story before duplicates are followed;
- `Unplaced`, until the far card: no card has its mark;
- `Settled`, in a cached deck: there is one far card, and if anything that could be
  it is in the window at the horizon, then so is it.

`ServedOnce` follows from `Sound` by what serving drops. `FarCardStays` follows
from `Settled`, since windows only lose stories as time passes (`WindowShrinks`) and
the archive loses none (`ArchiveStays`): a far card in the window at the
horizon is there before.

`DraftFair` is an action property and an induction over rounds: after `k` rounds
an arm that has something left has added exactly `k` stories and no arm more
(`Even`, over the arms already visited in the round), so nobody is two turns behind.

`TopicKept` relates two stages. A topic is `Whole`: the closure in `Topic` is over
once it stops growing, and there are no more stories than it has steps
(`TopicIsWhole`). `DedupKeepsTopic`: among the entries of one URL one is
preferred to all others, a story that loses to a close one leaves that one in its
place, and both are of the topic, so a member remains after every step, or a voted
story. `CanonicalKeepsTopic`: unless some of the topic's stories in the deck resolve to
each other in a circle, one of them has a discussion that is none of them; it stays,
or duplicates a vote, or is replaced by that discussion, by itself or by another
card. `TopicInv` carries the first of these to the second over the votes, undos and
ticks in between. Circles are the exception that `TopicKept` names, because the
code does not rule them out and then drops every card of one (section 4).

### Only model-checked

Liveness: `OwedIsSettled`, `VoterGetsFreshDeck`, `CircuitCloses`, `SubmitServed` and
`StaleDeckReplaced` need fairness and `ENABLED`, which TLAPS does not do. Every other
property of the runs is the statement of a theorem.

## 6. Not modelled

Scores, embeddings and fits, text extraction, HTTP fetching and parsing,
rendering, account creation, event logging, migrations and scripts: pure
computation or I/O, with no order of events to get wrong. `PROJECT.json` gives
the reason for each. Of what is modelled, these parts are left out: `wait_idle` of
the scheduler (tests only); titles, scores, self texts of HN, merging by URL and
pruning of rows (so a resolution's target, once stored, stays; `prune_stories`,
`database.py:1033`, may delete it later); the statistics of the fetch queue; layout, dwell times, summaries
and links of the client; Popular badges and attributions of a deck; title
similarity, which is data. The token bucket of `llm_limiter`, the fixed window of
quotas, `warm_store` and `rank_gate` have no module: one critical section each,
or a wait with a deadline, and no other component's property depends on
them beyond an answer that may go either way.

## 7. Plan

Built, most important first: the scheduler and what it promises, the dashboard
composed with that promise, the TLDR flights, the limiter, the story row and its
writers, the Reddit refresh above the limiter, the client, the duplicates, and the
deck from its scores to its service.

Wanted next: a model of the token bucket of `llm_limiter`, with the call that gives
back what it never took; the page's vote queue beside the terminal client's; and
`warm_store`, whose loads may read a fit that is being replaced.
