------------------------------ MODULE HnDupes ------------------------------
(***************************************************************************)
(* Which discussions are duplicates (pipeline/hn_dupes.py): the regen loop *)
(* hands the candidates to one coalescing worker thread, the resolver      *)
(* follows the links in a story's first comments through Firebase, and the *)
(* resolutions are stored.  Decks read them with canonical_outcomes.       *)
(* A link counts when the titles are alike; which titles are is data.      *)
(***************************************************************************)
EXTENDS Naturals, Sequences

CONSTANTS
  Stories,     \* HN stories
  NoStory,     \* what a story that duplicates none duplicates
  Candidates,  \* the HN stories of the candidate pool, all stored
  Sites,       \* what Hacker News may look like: an item per story
  Quiet,       \* MAX_SOURCE_DESCENDANTS
  NotKnown,    \* what a cache of the resolver holds of a story it lacks
  MaxSubmits,  \* bound on regenerations
  MaxMoves,    \* bound on changes of the site
  MaxExpiries, \* bound on entries of the caches and rows that expire
  MaxFaults    \* bound on refused requests, failed writes and restarts

\* A submission of Hacker News; links are those in its first comments.
Posts == [live : BOOLEAN, score : Nat, comments : Nat, links : SUBSET Stories]

ASSUME StoriesAssumption ==
  /\ Candidates \subseteq Stories
  /\ Sites \subseteq [Stories -> Posts]
  /\ NoStory \notin Stories
  /\ NotKnown \notin Stories \cup {NoStory} /\ NotKnown \notin Posts

VARIABLES
  site,      \* Hacker News
  stored,    \* stories with a row
  rows,      \* hn_dupe_resolutions: [status, target], or NotKnown
  due,       \* stories whose next_check_at has passed
  items,     \* _item_cache
  memo,      \* _canonical_cache: story, NoStory, or NotKnown
  pending,   \* _pending: the snapshot to be taken, {} for None
  active,    \* _active
  worker,    \* what the thread is at, "none" if there is none
  batch,     \* stories of its snapshot still to be resolved
  results,   \* outcomes that wait to be stored
  counts     \* how often the bounded things happened

caches == <<items, memo>>
thread == <<active, worker, batch, results>>
vars == <<site, stored, rows, due, caches, pending, thread, counts>>

Init ==
  /\ site \in Sites
  /\ stored = Candidates
  /\ rows = [s \in Stories |-> NotKnown]
  /\ due = Stories
  /\ items = [s \in Stories |-> NotKnown]
  /\ memo = [s \in Stories |-> NotKnown]
  /\ pending = {}
  /\ active = FALSE
  /\ worker = "none"
  /\ batch = {}
  /\ results = <<>>
  /\ counts = [what \in {"submits", "moves", "expiries", "faults"} |-> 0]

Count(what, bound) ==
  /\ counts[what] < bound
  /\ counts' = [counts EXCEPT ![what] = @ + 1]

-----------------------------------------------------------------------------
(* The worker.                                                              *)

\* submit: the newest snapshot replaces one that waits, and a thread is
\* started unless one is active.
Submit ==
  /\ Count("submits", MaxSubmits)
  /\ \E snapshot \in SUBSET Candidates \ {{}} : pending' = snapshot
  /\ active' = TRUE
  /\ worker' = IF active THEN worker ELSE "take"
  /\ UNCHANGED <<site, stored, rows, due, caches, batch, results>>

\* The thread takes the snapshot and reads which of its stories are due.
\* Which of those have too many comments already is the stories' rows'.
Take ==
  /\ worker = "take"
  /\ pending' = {}
  /\ batch' \in SUBSET (pending \cap stored \cap due)
  /\ worker' = "resolve"
  /\ UNCHANGED <<site, stored, rows, due, caches, active, results, counts>>

\* MUTANT of TakeOrEnd: the thread ends and leaves what came meanwhile.
EndAnyway ==
  /\ worker = "check"
  /\ active' = FALSE
  /\ worker' = "none"
  /\ UNCHANGED <<site, stored, rows, due, caches, pending, batch, results, counts>>

\* The batch is done: take the snapshot that came meanwhile, or end.
TakeOrEnd ==
  /\ worker = "check"
  /\ active' = (pending # {})
  /\ worker' = IF pending # {} THEN "take" ELSE "none"
  /\ UNCHANGED <<site, stored, rows, due, caches, pending, batch, results, counts>>

-----------------------------------------------------------------------------
(* The resolver, called by the threads of a pool.                           *)

\* _get_item: the cached item if there is one.
Item(s) == IF items[s] = NotKnown THEN site[s] ELSE items[s]

\* _target_is_stronger: more points or more comments.
Stronger(target, source) ==
  target.score > source.score \/ target.comments > source.comments

\* The live, stronger stories that the story's first comments link to.
Targets(s) ==
  IF Item(s).live /\ Item(s).comments <= Quiet
    THEN {t \in Item(s).links \ {s} : Item(t).live /\ Stronger(Item(t), Item(s))}
    ELSE {}

\* Of several the one with most comments, then most points.
Best(targets) ==
  {t \in targets : \A o \in targets :
     \/ Item(t).comments > Item(o).comments
     \/ Item(t).comments = Item(o).comments /\ Item(t).score >= Item(o).score}

\* Items that resolving a story reads.
Reads(s) ==
  IF memo[s] = NotKnown
    THEN {s} \cup IF Item(s).live /\ Item(s).comments <= Quiet THEN Item(s).links ELSE {}
    ELSE {memo[s]} \cap Stories

\* get_story: a target that has died meanwhile is retried later.
OutcomeOf(s, target) ==
  CASE target = NoStory -> [source |-> s, status |-> "no_match", target |-> NoStory]
    [] target # NoStory /\ Item(target).live ->
         [source |-> s, status |-> "canonical", target |-> target]
    [] target # NoStory /\ ~Item(target).live ->
         [source |-> s, status |-> "retry", target |-> NoStory]

\* The canonical story as the memo has it, or worked out.
Chosen(s) == IF memo[s] # NotKnown THEN {memo[s]}
             ELSE IF Targets(s) = {} THEN {NoStory} ELSE Best(Targets(s))

\* resolve answers from the memo or works it out and remembers it.
Resolve(s) ==
  /\ s \in batch
  /\ \E target \in Chosen(s) :
       /\ memo' = [memo EXCEPT ![s] = target]
       /\ results' = Append(results, OutcomeOf(s, target))
  /\ items' = [t \in Stories |-> IF t \in Reads(s) THEN Item(t) ELSE items[t]]
  /\ batch' = batch \ {s}
  /\ UNCHANGED <<site, stored, rows, due, pending, active, worker, counts>>

\* A request is refused or times out: retry.  What was read before it stays
\* cached, and the memo too if it was the read of the target for its story.
ResolveFails(s) ==
  /\ Count("faults", MaxFaults)
  /\ s \in batch
  /\ \E read \in SUBSET Reads(s) :
       items' = [t \in Stories |-> IF t \in read THEN Item(t) ELSE items[t]]
  /\ \/ UNCHANGED memo
     \/ \E target \in Chosen(s) \ {NoStory} : memo' = [memo EXCEPT ![s] = target]
  /\ results' = Append(results, [source |-> s, status |-> "retry", target |-> NoStory])
  /\ batch' = batch \ {s}
  /\ UNCHANGED <<site, stored, rows, due, pending, active, worker>>

\* MUTANT of StoreTarget: the resolution is written first.
StoreNothing ==
  /\ worker = "resolve" /\ results # <<>>
  /\ worker' = "row"
  /\ UNCHANGED <<site, stored, rows, due, caches, pending, active, batch, results, counts>>

\* "Persist target first": the story is upserted, then its resolution, in
\* transactions of their own, while other stories are still being resolved.
StoreTarget ==
  /\ worker = "resolve" /\ results # <<>>
  /\ stored' = stored \cup ({results[1].target} \ {NoStory})
  /\ worker' = "row"
  /\ UNCHANGED <<site, rows, due, caches, pending, active, batch, results, counts>>

\* next_check_at is in 30 days, a day, or 15 minutes.
StoreRow ==
  /\ worker = "row"
  /\ LET r == results[1]
     IN  /\ rows' = [rows EXCEPT ![r.source] = [status |-> r.status, target |-> r.target]]
         /\ due' = due \ {r.source}
  /\ results' = Tail(results)
  /\ worker' = "resolve"
  /\ UNCHANGED <<site, stored, caches, pending, active, batch, counts>>

\* A write raises: the outcomes are given up, but the pool resolves the rest
\* of the batch.
WriteFails ==
  /\ Count("faults", MaxFaults)
  /\ \/ worker = "resolve" /\ results # <<>>
     \/ worker = "row"
  /\ worker' = "failed"
  /\ UNCHANGED <<site, stored, rows, due, caches, pending, active, batch, results>>

\* Every story is resolved, and every outcome is stored or given up.
EndBatch ==
  /\ batch = {}
  /\ \/ worker = "resolve" /\ results = <<>>
     \/ worker = "failed"
  /\ results' = <<>>
  /\ worker' = "check"
  /\ UNCHANGED <<site, stored, rows, due, caches, pending, active, batch, counts>>

-----------------------------------------------------------------------------
(* Hacker News, the clocks, and a restart.                                  *)

Move ==
  /\ Count("moves", MaxMoves)
  /\ site' \in Sites
  /\ UNCHANGED <<stored, rows, due, caches, pending, thread>>

\* _ttl_seconds have passed since an entry was made, or its cache was full.
Expire(s) ==
  /\ Count("expiries", MaxExpiries)
  /\ \/ /\ items[s] # NotKnown
        /\ items' = [items EXCEPT ![s] = NotKnown]
        /\ UNCHANGED <<memo, due>>
     \/ /\ memo[s] # NotKnown
        /\ memo' = [memo EXCEPT ![s] = NotKnown]
        /\ UNCHANGED <<items, due>>
     \/ /\ s \notin due
        /\ due' = due \cup {s}
        /\ UNCHANGED caches
  /\ UNCHANGED <<site, stored, rows, pending, thread>>

\* The process dies; only the database is left.
Restart ==
  /\ Count("faults", MaxFaults)
  /\ items' = [s \in Stories |-> NotKnown]
  /\ memo' = [s \in Stories |-> NotKnown]
  /\ pending' = {}
  /\ active' = FALSE
  /\ worker' = "none"
  /\ batch' = {}
  /\ results' = <<>>
  /\ UNCHANGED <<site, stored, rows, due>>

Next ==
  \/ Submit \/ Take \/ TakeOrEnd
  \/ \E s \in Stories : Resolve(s) \/ ResolveFails(s) \/ Expire(s)
  \/ StoreTarget \/ StoreRow \/ EndBatch \/ WriteFails
  \/ Move \/ Restart

Spec == Init /\ [][Next]_vars

-----------------------------------------------------------------------------
Resolutions == [status : {"canonical", "no_match", "retry"}, target : Stories \cup {NoStory}]

Results == [source : Stories, status : {"canonical", "no_match", "retry"},
            target : Stories \cup {NoStory}]

TypeOK ==
  /\ site \in Sites
  /\ stored \subseteq Stories
  /\ rows \in [Stories -> Resolutions \cup {NotKnown}]
  /\ due \subseteq Stories
  /\ items \in [Stories -> Posts \cup {NotKnown}]
  /\ memo \in [Stories -> Stories \cup {NoStory, NotKnown}]
  /\ pending \subseteq Candidates
  /\ active \in BOOLEAN
  /\ worker \in {"none", "take", "resolve", "row", "failed", "check"}
  /\ batch \subseteq Stories
  /\ results \in Seq(Results)
  /\ counts \in [{"submits", "moves", "expiries", "faults"} -> Nat]

\* A snapshot that was submitted is never left without a thread to take it,
\* and while one is working no second is started.
NoSnapshotStranded ==
  /\ pending # {} => worker # "none"
  /\ active <=> worker # "none"

\* A resolution that names a canonical story can be shown from the database
\* alone, whatever write failed and whenever the process died.
CanonicalStored ==
  \A s \in Stories :
    rows[s] # NotKnown /\ rows[s].target # NoStory => rows[s].target \in stored
=============================================================================
