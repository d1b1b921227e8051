----------------------------- MODULE Dashboard -----------------------------
(* server.Handler, "per-user dashboard state machine": versions, the shared *)
(* cold deck, the cached decks, the candidate pool behind them, and the     *)
(* four kinds of thread that touch them: feedback requests, reads, warm     *)
(* workers and publishers (the regen loop and the Reddit worker).           *)
(*                                                                          *)
(* A step is what a thread does between two points where another may run:   *)
(* one lock's critical section, one database transaction, or one read of a  *)
(* class attribute.  Decks are abstracted to what they were built from: how *)
(* many of the user's vote changes (saw) and which state of the story table *)
(* (epoch).  The scheduler is WarmQueue, which WarmScheduler.tla refines.   *)
EXTENDS Naturals, FiniteSets

CONSTANTS
  Users,        \* profiles
  Stories,      \* stories that can be voted on
  Requests,     \* HTTP request threads
  Workers,      \* threads of the warm pool
  Publishers,   \* threads that ingest stories and call _pool_changed
  NoUser,       \* the user of a thread that serves none
  NoThread,     \* the holder of a free lock
  MaxCached,    \* _MAX_CACHED_DECKS
  MaxStartup,   \* _STARTUP_WARM_MAX_USERS
  BootTimes,    \* boot times in ms a process can start at
  MaxWrites,    \* BOUND: vote changes
  MaxEpoch,     \* BOUND: story-table changes
  MaxFailures,  \* BOUND: warms and publications that raise
  MaxRepeats,   \* BOUND: vote requests that change nothing
  MaxRestarts   \* BOUND: process restarts

ASSUME UsersAssumption == IsFiniteSet(Users) /\ NoUser \notin Users
ASSUME ThreadsAssumption ==
  /\ Requests \intersect Workers = {}
  /\ Requests \intersect Publishers = {}
  /\ Workers \intersect Publishers = {}
  /\ NoThread \notin Requests \union Workers \union Publishers
ASSUME MaxCachedAssumption == MaxCached \in Nat \ {0}
ASSUME BootTimesAssumption == BootTimes \subseteq Nat \ {0}
ASSUME BoundsAssumption == {MaxWrites, MaxEpoch, MaxFailures, MaxRepeats, MaxRestarts} \subseteq Nat

VARIABLES
  gen,        \* _pool_generation
  bumps,      \* _dashboard_versions: user -> counter
  votes,      \* feedback table: user -> stories with a vote
  writes,     \* feedback table: user -> changes committed so far
  epoch,      \* stories table: changes committed so far
  pool,       \* candidate_cache._pool: the epoch it was read at, or NoEpoch
  poolLock,   \* candidate_cache._lock: the thread inside, or NoThread
  coldDeck,   \* _cold_deck: the epoch it was built from
  decks,      \* _decks: user -> [version, saw, epoch], or NoDeck
  builtAt,    \* order of DeckState.built_at: higher is newer
  pending,    \* WarmQueue
  running,    \* WarmQueue
  pc,         \* thread -> where it is
  back,       \* thread -> where it goes on when _trigger_warm returns
  user,       \* thread -> the user it works for
  ver,        \* thread -> its local `version`
  held,       \* thread -> the deck (or for a vote, the answer) it holds
  todo,       \* publisher -> users of cached_user_ids left to warm
  asked,      \* history: request -> what was published when it started
  ingested,   \* history: publisher -> the epoch it is publishing
  counted,    \* history: user -> vote changes whose version bump is done
  published,  \* history: newest epoch whose generation bump is done
  acks,       \* history: user -> {[target, write]} answered to vote requests
  failed,     \* history: users whose last warm, or the publication about to
              \* queue it, raised
  beside,     \* history: publishers holding a pool since before another's
              \* cold deck was stored
  torn,       \* history: one of those put an older cold deck over a newer
  failures,   \* jobs that raised so far (bounded)
  repeats,    \* vote requests that changed nothing so far (bounded)
  restarts    \* restarts so far (bounded)

tables == <<votes, writes, epoch>>
poolVars == <<pool, poolLock>>
deckVars == <<decks, builtAt>>
queue == <<pending, running>>
call == <<back, user, ver>>
overlap == <<beside, torn>>
history == <<asked, ingested, counted, published, acks, failed, overlap>>
bounds == <<failures, repeats, restarts>>

vars == <<gen, bumps, tables, poolVars, coldDeck, deckVars, queue, pc, call,
          held, todo, history, bounds>>

Threads == Requests \union Workers \union Publishers
Versions == Nat \ {0}
NoVersion == 0
NoEpoch == 0
DeckOf(version, saw, from) == [version |-> version, saw |-> saw, epoch |-> from]
NoDeck == DeckOf(NoVersion, 0, NoEpoch)
Nothing == [counted |-> 0, published |-> NoEpoch]

Queue == INSTANCE WarmQueue WITH
  Keys <- Users, Capacity <- Cardinality(Workers)

(* _dashboard_version: both counters, read under one lock.                  *)
Current(u) == gen + bumps[u]
Cached == {u \in Users : decks[u] # NoDeck}
Newest(a, b) == IF a >= b THEN a ELSE b
Oldest(a, b) == IF a <= b THEN a ELSE b

Init ==
  /\ gen \in BootTimes /\ \A t \in BootTimes : gen <= t
  /\ bumps = [u \in Users |-> 0]
  /\ votes = [u \in Users |-> {}]
  /\ writes = [u \in Users |-> 0]
  /\ epoch = 1
  /\ pool = epoch
  /\ poolLock = NoThread
  /\ coldDeck = epoch
  /\ decks = [u \in Users |-> NoDeck]
  /\ builtAt = [u \in Users |-> 0]
  /\ Queue!QueueInit
  /\ pc = [p \in Threads |-> "idle"]
  /\ back = [p \in Threads |-> "idle"]
  /\ user = [p \in Threads |-> NoUser]
  /\ ver = [p \in Threads |-> NoVersion]
  /\ held = [p \in Threads |-> NoDeck]
  /\ todo = [p \in Publishers |-> {}]
  /\ asked = [r \in Requests |-> Nothing]
  /\ ingested = [p \in Publishers |-> NoEpoch]
  /\ counted = [u \in Users |-> 0]
  /\ published = epoch
  /\ acks = [u \in Users |-> {}]
  /\ failed = {}
  /\ beside = {}
  /\ torn = FALSE
  /\ failures = 0
  /\ repeats = 0
  /\ restarts = 0

-----------------------------------------------------------------------------
(* Control of one thread.                                                   *)
At(p, label) == pc[p] = label
Go(p, label) == pc' = [pc EXCEPT ![p] = label]
Hold(p, deck) == held' = [held EXCEPT ![p] = deck]

(* A thread that picks up work for u, at `label`, with a version to start.  *)
Begin(p, u, label, version) ==
  /\ At(p, "idle")
  /\ Go(p, label)
  /\ user' = [user EXCEPT ![p] = u]
  /\ ver' = [ver EXCEPT ![p] = version]

(* A thread whose work is done forgets its locals.                          *)
End(p) ==
  /\ Go(p, "idle")
  /\ user' = [user EXCEPT ![p] = NoUser]
  /\ ver' = [ver EXCEPT ![p] = NoVersion]
  /\ back' = [back EXCEPT ![p] = "idle"]
  /\ Hold(p, NoDeck)

(* Call _trigger_warm(user, version), to go on at `label`.                  *)
CallTrigger(p, version, label) ==
  /\ Go(p, "trigger")
  /\ ver' = [ver EXCEPT ![p] = version]
  /\ back' = [back EXCEPT ![p] = label]

-----------------------------------------------------------------------------
(* _trigger_warm, three steps: the version asked for rises to the current   *)
(* one; a cached deck that has it already ends the call; else it is queued. *)
(* Delays and expedite only decide when the queue runs it (WarmScheduler).  *)
RaiseVersion(p) ==
  /\ At(p, "trigger")
  /\ Go(p, "compare")
  /\ ver' = [ver EXCEPT ![p] = Newest(@, Current(user[p]))]
  /\ UNCHANGED <<gen, bumps, tables, poolVars, coldDeck, deckVars, queue, back,
                 user, held, todo, history, bounds>>

CompareDeck(p) ==
  /\ At(p, "compare")
  /\ IF decks[user[p]].version >= ver[p] THEN Go(p, back[p]) ELSE Go(p, "enqueue")
  /\ UNCHANGED <<gen, bumps, tables, poolVars, coldDeck, deckVars, queue, call,
                 held, todo, history, bounds>>

Enqueue(p) ==
  /\ At(p, "enqueue")
  /\ Go(p, back[p])
  /\ Queue!Request(user[p], ver[p])
  /\ UNCHANGED <<gen, bumps, tables, poolVars, coldDeck, deckVars, call, held,
                 todo, history, bounds>>

TriggerWarm(p) == RaiseVersion(p) \/ CompareDeck(p) \/ Enqueue(p)

-----------------------------------------------------------------------------
(* _handle_flask_feedback.  The change commits first; `held` keeps the      *)
(* number of that change and later the target_version answered.             *)
Write(r, u, stories) ==
  /\ Cardinality({c \in Users \X (1 .. MaxWrites) : c[2] <= writes[c[1]]}) < MaxWrites
  /\ Begin(r, u, "bump", NoVersion)
  /\ votes' = [votes EXCEPT ![u] = stories]
  /\ writes' = [writes EXCEPT ![u] = @ + 1]
  /\ Hold(r, DeckOf(NoVersion, writes[u] + 1, NoEpoch))
  /\ UNCHANGED <<gen, bumps, epoch, poolVars, coldDeck, deckVars, queue, back, todo,
                 history, bounds>>

(* upsert_feedback reported a change: a new vote, or another action on a    *)
(* story that has one.                                                      *)
Upsert(r) == \E u \in Users, s \in Stories : Write(r, u, votes[u] \union {s})

(* delete_feedback found a vote to delete.                                  *)
Clear(r) == \E u \in Users : \E s \in votes[u] : Write(r, u, votes[u] \ {s})

(* The vote was there already, or there was none to clear: the answer is    *)
(* the version as it is now, read after the transaction.  It stands for the *)
(* changes counted by then, not for one another request is still handling.  *)
Repeat(r) ==
  /\ repeats < MaxRepeats
  /\ repeats' = repeats + 1
  /\ \E u \in Users :
       /\ Begin(r, u, "repeated", NoVersion)
       /\ Hold(r, DeckOf(NoVersion, writes[u], NoEpoch))
  /\ UNCHANGED <<gen, bumps, tables, poolVars, coldDeck, deckVars, queue, back, todo, history, failures, restarts>>

AnswerRepeat(r) ==
  /\ At(r, "repeated")
  /\ Go(r, "ack")
  /\ Hold(r, DeckOf(Current(user[r]), Oldest(held[r].saw, counted[user[r]]), NoEpoch))
  /\ UNCHANGED <<gen, bumps, tables, poolVars, coldDeck, deckVars, queue, call,
                 todo, history, bounds>>

(* MUTANT of BumpUser: the answer is the version before the bump.           *)
BumpUserAnsweringOld(r) ==
  LET u == user[r]
  IN  /\ At(r, "bump")
      /\ bumps' = [bumps EXCEPT ![u] = @ + 1]
      /\ Hold(r, DeckOf(Current(u), held[r].saw, NoEpoch))
      /\ CallTrigger(r, Current(u) + 1, "ack")
      /\ counted' = [counted EXCEPT ![u] = Newest(@, held[r].saw)]
      /\ UNCHANGED <<gen, tables, poolVars, coldDeck, deckVars, queue, user, todo,
                     asked, ingested, published, acks, failed, overlap, bounds>>

(* _bump_user_version, then _schedule_feedback_warm calls _trigger_warm.    *)
BumpUser(r) ==
  LET u == user[r]
  IN  /\ At(r, "bump")
      /\ bumps' = [bumps EXCEPT ![u] = @ + 1]
      /\ Hold(r, DeckOf(Current(u) + 1, held[r].saw, NoEpoch))
      /\ CallTrigger(r, Current(u) + 1, "ack")
      /\ counted' = [counted EXCEPT ![u] = Newest(@, held[r].saw)]
      /\ UNCHANGED <<gen, tables, poolVars, coldDeck, deckVars, queue, user, todo,
                     asked, ingested, published, acks, failed, overlap, bounds>>

Ack(r) ==
  /\ At(r, "ack")
  /\ acks' = [acks EXCEPT ![user[r]] =
                @ \union {[target |-> held[r].version, write |-> held[r].saw]}]
  /\ End(r)
  /\ UNCHANGED <<gen, bumps, tables, poolVars, coldDeck, deckVars, queue, todo,
                 asked, ingested, counted, published, failed, overlap, bounds>>

-----------------------------------------------------------------------------
(* _deck_for_user, the one way a read (page, feed, ranking-ready) picks a   *)
(* deck.  `ver` is the current version it read first.                       *)
StartRead(r, u) ==
  /\ Begin(r, u, "votes", Current(u))
  /\ asked' = [asked EXCEPT ![r] = [counted |-> counted[u], published |-> published]]
  /\ UNCHANGED <<gen, bumps, tables, poolVars, coldDeck, deckVars, queue, back,
                 held, todo, ingested, counted, published, acks, failed, overlap, bounds>>

ReadVotes(r) ==
  /\ At(r, "votes")
  /\ \/ votes[user[r]] = {} /\ Go(r, "drop")
     \/ votes[user[r]] # {} /\ Go(r, "pick")
  /\ Hold(r, DeckOf(NoVersion, writes[user[r]], NoEpoch))
  /\ UNCHANGED <<gen, bumps, tables, poolVars, coldDeck, deckVars, queue, call,
                 todo, history, bounds>>

(* No votes: a deck left from votes since cleared is dropped ...            *)
DropDeck(r) ==
  /\ At(r, "drop")
  /\ decks' = [decks EXCEPT ![user[r]] = NoDeck]
  /\ Go(r, "cold")
  /\ UNCHANGED <<gen, bumps, tables, poolVars, coldDeck, builtAt, queue, call,
                 held, todo, history, bounds>>

(* ... and the shared cold deck is served as current.                       *)
ServeCold(r) ==
  /\ At(r, "cold")
  /\ Hold(r, DeckOf(ver[r], held[r].saw, coldDeck))
  /\ Go(r, "serve")
  /\ UNCHANGED <<gen, bumps, tables, poolVars, coldDeck, deckVars, queue, call,
                 todo, history, bounds>>

(* MUTANT of PickDeck: a stale deck is served without queueing a warm.      *)
PickDeckOnly(r) ==
  LET state == decks[user[r]]
      deck == IF state = NoDeck THEN DeckOf(NoVersion, 0, coldDeck) ELSE state
  IN  /\ At(r, "pick")
      /\ Hold(r, deck)
      /\ Go(r, "serve")
      /\ UNCHANGED <<gen, bumps, tables, poolVars, coldDeck, deckVars, queue, call,
                     todo, history, bounds>>

(* Votes: the cached deck, or the cold deck as version 0; a warm is queued  *)
(* when it is behind the version read at the start.                         *)
PickDeck(r) ==
  LET state == decks[user[r]]
      deck == IF state = NoDeck THEN DeckOf(NoVersion, 0, coldDeck) ELSE state
  IN  /\ At(r, "pick")
      /\ Hold(r, deck)
      /\ \/ deck.version < ver[r] /\ CallTrigger(r, ver[r], "serve")
         \/ deck.version >= ver[r] /\ Go(r, "serve") /\ UNCHANGED <<back, ver>>
      /\ UNCHANGED <<gen, bumps, tables, poolVars, coldDeck, deckVars, queue, user,
                     todo, history, bounds>>

(* DeckView.ready: the view is at least the version read at the start (a    *)
(* view that was behind raised `ver` in _trigger_warm, and stays behind).   *)
ViewReady(r) == held[r].version >= ver[r]

Serve(r) ==
  /\ At(r, "serve")
  /\ End(r)
  /\ asked' = [asked EXCEPT ![r] = Nothing]
  /\ UNCHANGED <<gen, bumps, tables, poolVars, coldDeck, deckVars, queue, todo,
                 ingested, counted, published, acks, failed, overlap, bounds>>

-----------------------------------------------------------------------------
(* get_candidate_pool: a hit returns the cached pool; a miss keeps the lock *)
(* while it reads the stories (BuildPool) until the pool is stored.         *)
UsePool(p, label) ==
  /\ poolLock = NoThread
  /\ pool # NoEpoch
  /\ Hold(p, DeckOf(held[p].version, held[p].saw, pool))
  /\ Go(p, label)
  /\ UNCHANGED poolVars

BuildPool(p) ==
  /\ poolLock = NoThread
  /\ pool = NoEpoch
  /\ poolLock' = p
  /\ Hold(p, DeckOf(held[p].version, held[p].saw, epoch))
  /\ Go(p, "store_pool")
  /\ UNCHANGED pool

GetPool(p, label) ==
  /\ At(p, "get_pool")
  /\ UsePool(p, label) \/ BuildPool(p)
  /\ UNCHANGED <<gen, bumps, tables, coldDeck, deckVars, queue, call, todo, history,
                 bounds>>

StorePool(p, label) ==
  /\ At(p, "store_pool")
  /\ pool' = held[p].epoch
  /\ poolLock' = NoThread
  /\ Go(p, label)
  /\ UNCHANGED <<gen, bumps, tables, coldDeck, deckVars, queue, call, held, todo,
                 history, bounds>>

-----------------------------------------------------------------------------
(* A warm worker: _worker's loop around _run_warm_attempt.                  *)
TakeJob(w) ==
  /\ \E u \in Users :
       /\ Queue!Take(u)
       /\ Begin(w, u, "check", pending[u])
  /\ UNCHANGED <<gen, bumps, tables, poolVars, coldDeck, deckVars, back, held, todo,
                 history, bounds>>

(* A deck built meanwhile already has the version asked for.                *)
CheckDeck(w) ==
  /\ At(w, "check")
  /\ \/ decks[user[w]].version >= ver[w] /\ Go(w, "finish")
     \/ decks[user[w]].version < ver[w] /\ Go(w, "label")
  /\ UNCHANGED <<gen, bumps, tables, poolVars, coldDeck, deckVars, queue, call,
                 held, todo, history, bounds>>

(* "Ranking reads the votes and pool as they are now, so the deck is at     *)
(* least as new as the current version": the label is read before both.     *)
LabelDeck(w) ==
  LET label == Newest(ver[w], Current(user[w]))
  IN  /\ At(w, "label")
      /\ ver' = [ver EXCEPT ![w] = label]
      /\ Hold(w, DeckOf(label, 0, NoEpoch))
      /\ Go(w, "rank")
      /\ UNCHANGED <<gen, bumps, tables, poolVars, coldDeck, deckVars, queue, back,
                     user, todo, history, bounds>>

(* fast_rerank_for_user: one feedback snapshot, then the pool; without      *)
(* votes the stories are loaded past the pool cache.                        *)
ReadFeedback(w) ==
  /\ At(w, "rank")
  /\ Hold(w, DeckOf(held[w].version, writes[user[w]], NoEpoch))
  /\ IF votes[user[w]] = {} THEN Go(w, "rank_cold") ELSE Go(w, "get_pool")
  /\ UNCHANGED <<gen, bumps, tables, poolVars, coldDeck, deckVars, queue, call,
                 todo, history, bounds>>

RankCold(w) ==
  /\ At(w, "rank_cold")
  /\ Hold(w, DeckOf(held[w].version, held[w].saw, epoch))
  /\ Go(w, "store")
  /\ UNCHANGED <<gen, bumps, tables, poolVars, coldDeck, deckVars, queue, call,
                 todo, history, bounds>>

(* Ranking raised: nothing is stored, nothing queued; the worker goes on.   *)
RankFails(w) ==
  /\ failures < MaxFailures
  /\ pc[w] \in {"store_pool", "store"}
  /\ poolLock' = IF poolLock = w THEN NoThread ELSE poolLock
  /\ failed' = failed \union {user[w]}
  /\ failures' = failures + 1
  /\ Go(w, "finish")
  /\ UNCHANGED <<gen, bumps, tables, pool, coldDeck, deckVars, queue, call, held,
                 todo, asked, ingested, counted, published, acks, overlap, repeats, restarts>>

(* The order of built_at once u's deck is the newest.                       *)
Reordered(u) ==
  [v \in Users |-> IF v = u THEN Cardinality(Users)
                   ELSE IF builtAt[v] > builtAt[u] THEN builtAt[v] - 1
                   ELSE builtAt[v]]

(* _evict_old_decks_locked: those of `cached` with MaxCached newer ones.    *)
Evicted(cached, order) ==
  {v \in cached : Cardinality({x \in cached : order[x] > order[v]}) >= MaxCached}

(* MUTANT of StoreDeck: the deck is labelled as it is stored, not before it *)
(* was ranked.                                                              *)
StoreDeckRelabelled(w) ==
  LET u == user[w]
      gone == Evicted(Cached \union {u}, Reordered(u))
  IN  /\ At(w, "store")
      /\ builtAt' = Reordered(u)
      /\ decks' = [v \in Users |->
                     IF v \in gone THEN NoDeck
                     ELSE IF v = u THEN DeckOf(Current(u), held[w].saw, held[w].epoch)
                     ELSE decks[v]]
      /\ failed' = failed \ {u}
      /\ CallTrigger(w, NoVersion, "finish")
      /\ Hold(w, NoDeck)
      /\ UNCHANGED <<gen, bumps, tables, poolVars, coldDeck, queue, user, todo,
                     asked, ingested, counted, published, acks, overlap, bounds>>

(* The deck is stored under its label, the oldest go, and _trigger_warm     *)
(* queues another warm if a vote or regen landed meanwhile (it reads the    *)
(* current version itself, so the one passed to it adds nothing).           *)
StoreDeck(w) ==
  LET u == user[w]
      gone == Evicted(Cached \union {u}, Reordered(u))
  IN  /\ At(w, "store")
      /\ builtAt' = Reordered(u)
      /\ decks' = [v \in Users |-> IF v \in gone THEN NoDeck
                                   ELSE IF v = u THEN held[w] ELSE decks[v]]
      /\ failed' = failed \ {u}
      /\ CallTrigger(w, NoVersion, "finish")
      /\ Hold(w, NoDeck)
      /\ UNCHANGED <<gen, bumps, tables, poolVars, coldDeck, queue, user, todo,
                     asked, ingested, counted, published, acks, overlap, bounds>>

FinishJob(w) ==
  /\ At(w, "finish")
  /\ Queue!Finish(user[w])
  /\ End(w)
  /\ UNCHANGED <<gen, bumps, tables, poolVars, coldDeck, deckVars, todo, history,
                 bounds>>

-----------------------------------------------------------------------------
(* A publisher: new stories are committed, then _pool_changed runs.  The    *)
(* regen loop and the Reddit worker each do this on a thread of their own.  *)
Ingest(p) ==
  /\ epoch < MaxEpoch
  /\ Begin(p, NoUser, "invalidate", NoVersion)
  /\ epoch' = epoch + 1
  /\ ingested' = [ingested EXCEPT ![p] = epoch + 1]
  /\ UNCHANGED <<gen, bumps, votes, writes, poolVars, coldDeck, deckVars, queue, back,
                 held, todo, asked, counted, published, acks, failed, overlap, bounds>>

(* MUTANT of InvalidatePool: the cached pool outlives the ingest.           *)
KeepPool(p) ==
  /\ At(p, "invalidate")
  /\ poolLock = NoThread
  /\ Go(p, "get_pool")
  /\ UNCHANGED <<gen, bumps, tables, poolVars, coldDeck, deckVars, queue, call, held,
                 todo, history, bounds>>

(* candidate_cache.invalidate.                                              *)
InvalidatePool(p) ==
  /\ At(p, "invalidate")
  /\ poolLock = NoThread
  /\ pool' = NoEpoch
  /\ Go(p, "get_pool")
  /\ UNCHANGED <<gen, bumps, tables, poolLock, coldDeck, deckVars, queue, call, held,
                 todo, history, bounds>>

(* _cold_deck is assigned without a lock: whoever built from a pool read    *)
(* before this goes on to assign its own deck over it.                      *)
SetColdDeck(p) ==
  /\ At(p, "set_cold")
  /\ coldDeck' = held[p].epoch
  /\ torn' = (p \in beside /\ (torn \/ held[p].epoch < coldDeck))
  /\ beside' = (beside \ {p}) \union
                 {q \in Publishers \ {p} : pc[q] \in {"store_pool", "set_cold"}}
  /\ Hold(p, NoDeck)
  /\ Go(p, "bump_gen")
  /\ UNCHANGED <<gen, bumps, tables, poolVars, deckVars, queue, call, todo, asked,
                 ingested, counted, published, acks, failed, bounds>>

(* A publication raised, and both callers go on: before the bump, when the  *)
(* fetch raised after it stored stories or the cold deck could not be       *)
(* built; or after it, when a user could not be read, so that the users     *)
(* left get no warm.                                                        *)
PublishFails(p) ==
  /\ failures < MaxFailures
  /\ \/ pc[p] \in {"invalidate", "store_pool", "set_cold"}
     \/ At(p, "warm_cached") /\ todo[p] # {}
  /\ poolLock' = IF poolLock = p THEN NoThread ELSE poolLock
  /\ failures' = failures + 1
  /\ failed' = failed \union todo[p]
  /\ todo' = [todo EXCEPT ![p] = {}]
  /\ ingested' = [ingested EXCEPT ![p] = NoEpoch]
  /\ beside' = beside \ {p}
  /\ End(p)
  /\ UNCHANGED <<gen, bumps, tables, pool, coldDeck, deckVars, queue, asked,
                 counted, published, acks, torn, repeats, restarts>>

(* MUTANT of BumpGeneration: users a warm is running for are left out.      *)
BumpGenerationSkippingBusy(p) ==
  /\ At(p, "bump_gen")
  /\ gen' = gen + 1
  /\ todo' = [todo EXCEPT ![p] = Cached \ Queue!Busy]
  /\ published' = Newest(published, ingested[p])
  /\ Go(p, "warm_cached")
  /\ UNCHANGED <<bumps, tables, poolVars, coldDeck, deckVars, queue, call, held,
                 asked, ingested, counted, acks, failed, overlap, bounds>>

(* One critical section: every deck becomes stale, cached users are noted.  *)
BumpGeneration(p) ==
  /\ At(p, "bump_gen")
  /\ gen' = gen + 1
  /\ todo' = [todo EXCEPT ![p] = Cached]
  /\ published' = Newest(published, ingested[p])
  /\ Go(p, "warm_cached")
  /\ UNCHANGED <<bumps, tables, poolVars, coldDeck, deckVars, queue, call, held,
                 asked, ingested, counted, acks, failed, overlap, bounds>>

WarmCached(p) ==
  /\ At(p, "warm_cached")
  /\ \E u \in todo[p] :
       /\ todo' = [todo EXCEPT ![p] = @ \ {u}]
       /\ user' = [user EXCEPT ![p] = u]
       /\ CallTrigger(p, NoVersion, "warm_cached")
  /\ UNCHANGED <<gen, bumps, tables, poolVars, coldDeck, deckVars, queue, held,
                 history, bounds>>

EndPublish(p) ==
  /\ At(p, "warm_cached")
  /\ todo[p] = {}
  /\ ingested' = [ingested EXCEPT ![p] = NoEpoch]
  /\ End(p)
  /\ UNCHANGED <<gen, bumps, tables, poolVars, coldDeck, deckVars, queue, todo,
                 asked, counted, published, acks, failed, overlap, bounds>>

-----------------------------------------------------------------------------
(* MUTANT of Restart: versions may start below those already given out.     *)
RestartFromAnyTime ==
  /\ restarts < MaxRestarts
  /\ restarts' = restarts + 1
  /\ gen' \in BootTimes
  /\ bumps' = [u \in Users |-> 0]
  /\ pool' = epoch
  /\ poolLock' = NoThread
  /\ coldDeck' = epoch
  /\ decks' = [u \in Users |-> NoDeck]
  /\ builtAt' = [u \in Users |-> 0]
  /\ \E recent \in SUBSET {u \in Users : votes[u] # {}} :
       /\ Cardinality(recent) <= MaxStartup
       /\ pending' = [u \in Users |-> IF u \in recent THEN gen' ELSE NoVersion]
  /\ running' = [u \in Users |-> NoVersion]
  /\ pc' = [p \in Threads |-> "idle"]
  /\ back' = [p \in Threads |-> "idle"]
  /\ user' = [p \in Threads |-> NoUser]
  /\ ver' = [p \in Threads |-> NoVersion]
  /\ held' = [p \in Threads |-> NoDeck]
  /\ todo' = [p \in Publishers |-> {}]
  /\ asked' = [r \in Requests |-> Nothing]
  /\ ingested' = [p \in Publishers |-> NoEpoch]
  /\ failed' = {}
  /\ beside' = {}
  /\ torn' = FALSE
  /\ UNCHANGED <<tables, counted, published, acks, failures, repeats>>

(* The process dies and starts again: only the database is left.  Versions  *)
(* go on from the boot time in ms, a later one, which no version has passed *)
(* ("a process bumps far less than once per ms").  main builds the cold     *)
(* deck and warm_recent_users queues a few recent voters before requests    *)
(* are served.                                                              *)
Restart ==
  /\ restarts < MaxRestarts
  /\ restarts' = restarts + 1
  /\ gen' \in {t \in BootTimes : t > gen /\ \A u \in Users : t >= Current(u)}
  /\ bumps' = [u \in Users |-> 0]
  /\ pool' = epoch
  /\ poolLock' = NoThread
  /\ coldDeck' = epoch
  /\ decks' = [u \in Users |-> NoDeck]
  /\ builtAt' = [u \in Users |-> 0]
  /\ \E recent \in SUBSET {u \in Users : votes[u] # {}} :
       /\ Cardinality(recent) <= MaxStartup
       /\ pending' = [u \in Users |-> IF u \in recent THEN gen' ELSE NoVersion]
  /\ running' = [u \in Users |-> NoVersion]
  /\ pc' = [p \in Threads |-> "idle"]
  /\ back' = [p \in Threads |-> "idle"]
  /\ user' = [p \in Threads |-> NoUser]
  /\ ver' = [p \in Threads |-> NoVersion]
  /\ held' = [p \in Threads |-> NoDeck]
  /\ todo' = [p \in Publishers |-> {}]
  /\ asked' = [r \in Requests |-> Nothing]
  /\ ingested' = [p \in Publishers |-> NoEpoch]
  /\ failed' = {}
  /\ beside' = {}
  /\ torn' = FALSE
  /\ UNCHANGED <<tables, counted, published, acks, failures, repeats>>

VoteStep(r) == BumpUser(r) \/ AnswerRepeat(r) \/ Ack(r)
ReadStep(r) == ReadVotes(r) \/ DropDeck(r) \/ ServeCold(r) \/ PickDeck(r) \/ Serve(r)
WarmStep(w) ==
  \/ TakeJob(w) \/ CheckDeck(w) \/ LabelDeck(w) \/ ReadFeedback(w) \/ RankCold(w)
  \/ GetPool(w, "store") \/ StorePool(w, "store")
  \/ RankFails(w) \/ StoreDeck(w) \/ FinishJob(w)
PublishStep(p) ==
  \/ InvalidatePool(p) \/ GetPool(p, "set_cold") \/ StorePool(p, "set_cold")
  \/ SetColdDeck(p) \/ PublishFails(p) \/ BumpGeneration(p) \/ WarmCached(p)
  \/ EndPublish(p)

Next ==
  \/ \E r \in Requests : Upsert(r) \/ Clear(r) \/ Repeat(r)
  \/ \E r \in Requests, u \in Users : StartRead(r, u)
  \/ \E r \in Requests : VoteStep(r) \/ ReadStep(r)
  \/ \E w \in Workers : WarmStep(w)
  \/ \E p \in Publishers : Ingest(p) \/ PublishStep(p)
  \/ \E p \in Threads : TriggerWarm(p)
  \/ Restart

Spec == Init /\ [][Next]_vars

(* Threads that have work to do are scheduled, and a client that polls      *)
(* (the page and the TUI do) gets a request thread again and again.         *)
Fairness ==
  /\ \A p \in Threads : WF_vars(TriggerWarm(p))
  /\ \A r \in Requests : WF_vars(VoteStep(r) \/ ReadStep(r))
  /\ \A w \in Workers : SF_vars(WarmStep(w))
  /\ \A p \in Publishers : SF_vars(PublishStep(p))
  /\ \A u \in Users : SF_vars(\E r \in Requests : StartRead(r, u))

FairSpec == Spec /\ Fairness

-----------------------------------------------------------------------------
Deck == [version : Nat, saw : Nat, epoch : Nat]

Labels == {"idle", "trigger", "compare", "enqueue",
           "bump", "repeated", "ack",
           "votes", "drop", "cold", "pick", "serve",
           "check", "label", "rank", "rank_cold", "get_pool", "store_pool",
           "store", "finish",
           "invalidate", "set_cold", "bump_gen", "warm_cached"}

(* Types of every variable.                                                 *)
TypeOK ==
  /\ gen \in Versions
  /\ bumps \in [Users -> Nat]
  /\ votes \in [Users -> SUBSET Stories]
  /\ writes \in [Users -> Nat]
  /\ epoch \in Nat
  /\ pool \in Nat
  /\ poolLock \in Threads \union {NoThread}
  /\ coldDeck \in Nat
  /\ decks \in [Users -> Deck]
  /\ builtAt \in [Users -> Nat]
  /\ pending \in [Users -> Nat]
  /\ running \in [Users -> Nat]
  /\ pc \in [Threads -> Labels]
  /\ back \in [Threads -> {"idle", "ack", "serve", "finish", "warm_cached"}]
  /\ user \in [Threads -> Users \union {NoUser}]
  /\ ver \in [Threads -> Nat]
  /\ held \in [Threads -> Deck]
  /\ todo \in [Publishers -> SUBSET Users]
  /\ asked \in [Requests -> [counted : Nat, published : Nat]]
  /\ ingested \in [Publishers -> Nat]
  /\ counted \in [Users -> Nat]
  /\ published \in Nat
  /\ acks \in [Users -> SUBSET [target : Nat, write : Nat]]
  /\ failed \in SUBSET Users
  /\ beside \in SUBSET Publishers
  /\ torn \in BOOLEAN
  /\ failures \in Nat
  /\ repeats \in Nat
  /\ restarts \in Nat

(* A deck labelled with the current version was ranked from every vote      *)
(* whose bump that version counts, and from every story change a generation *)
(* bump announced: "ready" never means a deck that misses some of them.     *)
FreshDeckIsFresh ==
  \A u \in Users :
    decks[u].version = Current(u) =>
      decks[u].saw >= counted[u] /\ decks[u].epoch >= published

(* No deck, queued warm or running warm is ahead of the user's version: a   *)
(* label from the future would pass for fresh after the next vote.          *)
NoVersionAhead ==
  \A u \in Users :
    /\ decks[u].version <= Current(u)
    /\ pending[u] <= Current(u)
    /\ running[u] <= Current(u)

(* What a client was told to wait for contains its change, and for a repeat *)
(* the changes counted when it was answered, even after a restart.          *)
AckedVoteReachesDeck ==
  \A u \in Users : \A a \in acks[u] :
    decks[u].version >= a.target => decks[u].saw >= a.write

(* A version answered to a client is one the user's versions have reached,  *)
(* also after a restart: the client does not wait for what no deck gets.    *)
TargetsReachable ==
  \A u \in Users : \A a \in acks[u] : a.target <= Current(u)

(* A view picked as ready contains everything published before the read     *)
(* began, whichever branch of _deck_for_user picks it and however the two   *)
(* publishers interleave.  One exception: for a reader without votes, the   *)
(* cold deck may be one that a publisher built beside another stored over   *)
(* that one's newer deck (README, section 4).                               *)
ReadyViewIsFresh ==
  [][\A r \in Requests :
       ~At(r, "serve") /\ At(r, "serve")' /\ ViewReady(r)' =>
         /\ held'[r].saw >= asked[r].counted
         /\ \/ held'[r].epoch >= asked[r].published
            \/ At(r, "cold") /\ torn]_vars

(* A cached deck that is behind has its next warm on the way (queued, being *)
(* built, or about to be queued by the thread that made it stale), unless   *)
(* its last warm, or the publication that was to queue it, raised.  A bump  *)
(* nobody warms for, or a request dropped as covered by a job that read too *)
(* early, would leave it stale for good.                                    *)
WarmOnTheWay(u) ==
  \/ pending[u] # NoVersion
  \/ \E p \in Threads :
       /\ user[p] = u
       /\ \/ At(p, "trigger")
          \/ pc[p] \in {"compare", "enqueue"} /\ ver[p] > decks[u].version
  \/ \E p \in Publishers : u \in todo[p]
  \/ \E w \in Workers :
       /\ user[w] = u
       /\ \/ pc[w] \in {"label", "rank", "rank_cold", "get_pool", "store_pool", "store"}
          \/ At(w, "check") /\ ver[w] > decks[u].version

NoForgottenDeck ==
  \A u \in Cached \ failed :
    decks[u].version < Current(u) => WarmOnTheWay(u)

(* A user's deck is replaced only by one with a version at least as high;   *)
(* otherwise it goes entirely (eviction, votes cleared, restart).           *)
DeckNeverOlder ==
  [][\A u \in Users : decks'[u] # NoDeck => decks'[u].version >= decks[u].version]_vars

(* A voter whose client polls gets a deck at the current version (or clears *)
(* the votes): failed warms and dropped decks are made up for by reads.     *)
VoterGetsFreshDeck ==
  \A u \in Users :
    votes[u] # {} ~> (votes[u] = {} \/ decks[u].version = Current(u))
=============================================================================
