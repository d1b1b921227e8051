------------------------------- MODULE Client -------------------------------
(* The terminal reader (src/clients/tui): app.HNRerank with one server.      *)
(*                                                                          *)
(* The reader is one asyncio loop, so a step here is what runs between two  *)
(* awaits.  What interleaves is the user, the server and three kinds of     *)
(* request: the one feed request of the exclusive "refresh" worker, the one *)
(* neighbour prefetch, and the votes, sent one at a time under vote_lock.   *)
(* The server is abstract: its reads and votes are atomic here, Dashboard   *)
(* has the steps they are made of.  Rows carry no text, counts or ranks; the *)
(* four sorts show the same rows, and summaries are left out.                *)
EXTENDS Naturals, Sequences, FiniteSets, SequencesExt

CONSTANTS
  Stories,      \* stories the server has in every window
  Votable,      \* BOUND: stories the user votes on
  Windows,      \* models.WINDOWS
  NoWindow,     \* the window of a story never voted on
  FirstBoot,    \* version the server begins at
  Boots,        \* versions it may begin at again; none was in use before
  MaxRevisions, \* BOUND: votes and undos per story
  MaxSwitches,  \* BOUND: window and sort changes
  MaxFaults,    \* BOUND: requests that fail or are refused
  MaxRegens,    \* BOUND: regenerations, restarts and moved counts of the server
  MaxProfiles,  \* BOUND: profiles connected to
  MayQuit       \* BOUND: whether the user quits

ASSUME WindowsAssumption == NoWindow \notin Windows
ASSUME BootsAssumption == Boots \union {FirstBoot} \subseteq Nat \ {0}
ASSUME BoundsAssumption ==
  /\ {MaxRevisions, MaxSwitches, MaxFaults, MaxRegens, MaxProfiles} \subseteq Nat
  /\ MayQuit \in BOOLEAN

VARIABLES
  voted,      \* server: the profile's voted stories
  current,    \* server: the profile's version
  deck,       \* server: [version, saw], the votes it was ranked with
  api,        \* number of the profile connected; replies carry it
  settingUp,  \* setting_up
  window,     \* selected_window()
  open,       \* self.feed is not None; then it is feeds[window]
  feeds,      \* feeds: window -> Feed, or NoFeed; the deck on screen is here too
  uncached,   \* the deck on screen is not in the code's feeds: it was cleared
  attempts,   \* window_attempts
  rated, restored, history,   \* as in the code, by story
  voteWindow, \* vote_views: the window a story was voted in
  revision,   \* vote_revisions
  queue,      \* submits in vote_lock's order, the first holds the lock
  late,       \* votes given up by the reader that the server may still get
  errors,     \* _vote_errors: keys <<story, revision>>
  refresh,    \* the refresh worker's request, or NoRequest
  sortPending, \* _sort_refresh_pending
  prefetch,   \* prefetch_windows' request, or NoRequest
  quit,       \* "no", "waiting" (_quit_requested) or "exited"
  snapshot,   \* _quit_snapshot
  report,     \* quit_report
  acked,      \* history: keys the server confirmed, if a story's newest or in snapshot
  unsure,     \* history: stories where the last vote to arrive was not the newest
  known,      \* history: newest target acked while a deck was on screen
  switches, faults, regens    \* counted against their bounds

server == <<voted, current, deck>>
view == <<window, open, feeds, uncached, attempts>>
marks == <<rated, restored, history, voteWindow>>
voting == <<revision, queue, late, errors, acked, unsure>>
quitting == <<quit, snapshot, report>>
bounds == <<switches, faults, regens>>
vars == <<server, api, settingUp, view, marks, voting, refresh, sortPending,
          prefetch, quitting, known, bounds>>

Cold == [version |-> 0, saw |-> {}]
NoFeed == [profile |-> 0, version |-> 0, target |-> 0, ready |-> FALSE, rows |-> {}]
NoRequest == [profile |-> 0, window |-> NoWindow, newest |-> FALSE, reply |-> NoFeed]
Request(w) == [profile |-> api, window |-> w, newest |-> TRUE, reply |-> NoFeed]
Sent(request) == request # NoRequest /\ request.reply = NoFeed
Answered(request) == request # NoRequest /\ request.reply # NoFeed

Feed == IF open THEN feeds[window] ELSE NoFeed
Shown == Feed.rows \ rated
Key(vote) == <<vote.story, vote.revision>>
Pending == {Key(queue[i]) : i \in DOMAIN queue}
(* What the server does after the reader has exited is left out.            *)
Alive == quit # "exited"
Running == ~settingUp /\ Alive
Busy == refresh # NoRequest \/ queue # <<>>

Init ==
  /\ voted \in SUBSET (Stories \ Votable)
  /\ current = FirstBoot
  /\ deck = Cold
  /\ api = 1
  /\ settingUp = FALSE
  /\ window \in Windows
  /\ open = FALSE
  /\ feeds = [w \in Windows |-> NoFeed]
  /\ uncached = FALSE
  /\ attempts = {}
  /\ rated = {}
  /\ restored = {}
  /\ history = <<>>
  /\ voteWindow = [s \in Stories |-> NoWindow]
  /\ revision = [s \in Stories |-> 0]
  /\ queue = <<>>
  /\ late = {}
  /\ errors = {}
  /\ refresh = Request(window)
  /\ sortPending = FALSE
  /\ prefetch = NoRequest
  /\ quit = "no"
  /\ snapshot = {}
  /\ report = {}
  /\ acked = {}
  /\ unsure = {}
  /\ known = 0
  /\ switches = 0
  /\ faults = 0
  /\ regens = 0

-----------------------------------------------------------------------------
(* The server.                                                              *)

(* Handler._deck_for_user: with no votes the shared deck is current and the *)
(* user's own is dropped; voted stories are never served.                   *)
Served ==
  IF voted = {}
  THEN [profile |-> api, version |-> current, target |-> current, ready |-> TRUE,
        rows |-> Stories]
  ELSE [profile |-> api, version |-> deck.version, target |-> current,
        ready |-> deck.version >= current, rows |-> Stories \ (deck.saw \union voted)]
DeckRead == deck' = IF voted = {} THEN Cold ELSE deck

(* A feedback request.  Only a change moves the version.                    *)
After(vote) ==
  IF vote.action = "clear" THEN voted \ {vote.story} ELSE voted \union {vote.story}
Record(vote) ==
  /\ voted' = After(vote)
  /\ current' = IF voted' = voted THEN current ELSE current + 1
  /\ UNCHANGED deck

Rank ==
  /\ Alive
  /\ voted # {}
  /\ deck.version < current
  /\ deck' = [version |-> current, saw |-> voted]
  /\ UNCHANGED <<voted, current, api, settingUp, view, marks, voting, refresh,
                 sortPending, prefetch, quitting, known, bounds>>

Regen ==
  /\ Alive
  /\ regens < MaxRegens
  /\ regens' = regens + 1
  /\ current' = current + 1
  /\ UNCHANGED <<voted, deck, api, settingUp, view, marks, voting, refresh,
                 sortPending, prefetch, quitting, known, switches, faults>>

(* Versions and decks are in memory.  Boot times only grow, but a clock may *)
(* have been set back.  What readers were told before it means nothing now. *)
Restart ==
  /\ Alive
  /\ regens < MaxRegens
  /\ regens' = regens + 1
  /\ current' \in Boots
  /\ deck' = Cold
  /\ known' = 0
  /\ UNCHANGED <<voted, api, settingUp, view, marks, voting, refresh,
                 sortPending, prefetch, quitting, switches, faults>>

ServeRefresh ==
  /\ Alive
  /\ Sent(refresh)
  /\ refresh' = [refresh EXCEPT !.reply = Served]
  /\ DeckRead
  /\ UNCHANGED <<voted, current, api, settingUp, view, marks, voting, sortPending,
                 prefetch, quitting, known, bounds>>

(* A request of the profile before is of no interest to this one's server.  *)
ServePrefetch ==
  /\ Alive
  /\ Sent(prefetch)
  /\ prefetch' = [prefetch EXCEPT !.reply = [Served EXCEPT !.profile = prefetch.profile]]
  /\ IF prefetch.profile = api THEN DeckRead ELSE UNCHANGED deck
  /\ UNCHANGED <<voted, current, api, settingUp, view, marks, voting, refresh,
                 sortPending, quitting, known, bounds>>

(* The vote in flight reaches the server; target = 0 says it has not yet.   *)
ServeVote ==
  /\ Alive
  /\ queue # <<>>
  /\ Head(queue).target = 0
  /\ Record(Head(queue))
  /\ queue' = [queue EXCEPT ![1].target = current']
  /\ unsure' = unsure \ {Head(queue).story}
  /\ UNCHANGED <<api, settingUp, view, marks, revision, late, errors, acked, refresh,
                 sortPending, prefetch, quitting, known, bounds>>

(* A vote the reader has given up on reaches the server after all.          *)
ServeLate ==
  \E vote \in late :
    /\ Alive
    /\ Record(vote)
    /\ late' = late \ {vote}
    /\ unsure' = unsure \union {vote.story}
    /\ UNCHANGED <<api, settingUp, view, marks, revision, queue, errors, acked,
                   refresh, sortPending, prefetch, quitting, known, bounds>>

Server == Rank \/ Regen \/ Restart \/ ServeRefresh \/ ServePrefetch \/ ServeVote \/ ServeLate

-----------------------------------------------------------------------------
(* The reader's decks.                                                      *)

(* set_feed: the selected window's deck; caches of other versions go.       *)
SetFeed(feed) ==
  [w \in Windows |->
    IF w = window THEN feed
    ELSE IF feeds[w].version = feed.version THEN feeds[w] ELSE NoFeed]

(* restore_story: back into the deck of the window it was voted in.         *)
Restore(cached, stories) ==
  [w \in Windows |->
    IF cached[w] = NoFeed THEN NoFeed
    ELSE [cached[w] EXCEPT !.rows = @ \union {s \in stories : voteWindow[s] = w}]]

(* refresh_feed: exclusive, so a request in flight is forgotten.            *)
Refresh(w) == refresh' = Request(w)

(* _finish_sort_refresh: the one follow-up that a sort change asked for.    *)
FinishSortRefresh(w, isOpen) ==
  /\ sortPending' = FALSE
  /\ refresh' = IF sortPending /\ isOpen THEN Request(w) ELSE NoRequest

(* next_window_prefetch, for the deck and caches given.                     *)
Wanted(w, cached, tried) ==
  {x \in Windows \ {w} :
    /\ cached[x] = NoFeed \/ cached[x].version # cached[w].version
    /\ <<x, cached[w].version>> \notin tried}

(* The prefetch worker goes on with the next window, or stops.              *)
PrefetchNext(w, isOpen, cached) ==
  LET next == IF isOpen THEN Wanted(w, cached, attempts) ELSE {} IN
  IF next = {}
  THEN prefetch' = NoRequest /\ UNCHANGED attempts
  ELSE \E x \in next :
         /\ prefetch' = Request(x)
         /\ attempts' = attempts \union {<<x, cached[w].version>>}

(* schedule_window_prefetch: one worker at a time.                          *)
SchedulePrefetch(w, cached) ==
  IF prefetch # NoRequest
  THEN UNCHANGED <<prefetch, attempts>>
  ELSE PrefetchNext(w, TRUE, cached)

(* MUTANT of Fail: a vote that fails leaves no reason.                      *)
FailSilently(keys) == UNCHANGED errors

(* _vote_errors, of which the quit report reads those of its snapshot.       *)
Fail(keys) == errors' = errors \union (keys \intersect snapshot)

(* setup: summaries aside, the feed and vote workers are cancelled.  A vote *)
(* cancelled in flight may have reached the server or may yet.              *)
Setup(votes) ==
  /\ settingUp' = TRUE
  /\ sortPending' = FALSE
  /\ refresh' = NoRequest
  /\ queue' = <<>>
  /\ Fail({Key(votes[i]) : i \in DOMAIN votes})

(* A failed feed request is not retried, nor is the follow-up sent.         *)
FailRefresh ==
  /\ Running
  /\ refresh # NoRequest
  /\ faults < MaxFaults
  /\ faults' = faults + 1
  /\ refresh' = NoRequest
  /\ sortPending' = FALSE
  /\ UNCHANGED <<server, api, settingUp, view, marks, voting, prefetch, quitting,
                 known, switches, regens>>

RejectRefresh ==
  /\ Running
  /\ Sent(refresh)
  /\ faults < MaxFaults
  /\ api < MaxProfiles
  /\ faults' = faults + 1
  /\ Setup(queue)
  /\ UNCHANGED <<server, api, view, marks, revision, late, acked, unsure,
                 prefetch, quitting, known, switches, regens>>

(* A deck lands: restored keeps the undone rows it does not carry; they are *)
(* inserted again as long as ranking is behind.                             *)
ShowReply(feed) ==
  /\ restored' = restored \ feed.rows
  /\ open' = TRUE
  /\ uncached' = FALSE
  /\ LET set == SetFeed(feed)
         shown == IF feed.ready THEN set ELSE Restore(set, restored')
     IN  /\ feeds' = shown
         /\ SchedulePrefetch(window, shown)
  /\ FinishSortRefresh(window, TRUE)

(* The selection moved on to a cached window meanwhile: keep it only as a   *)
(* cache entry of the version on screen.                                    *)
KeepReply(w, feed) ==
  /\ feeds' = IF open /\ feed.version = Feed.version
              THEN [feeds EXCEPT ![w] = feed] ELSE feeds
  /\ FinishSortRefresh(window, open)
  /\ UNCHANGED <<open, uncached, restored, prefetch, attempts>>

(* MUTANT of DropReply: a discarded reply sends no follow-up.               *)
DropReplyOnly ==
  /\ refresh' = NoRequest
  /\ UNCHANGED <<sortPending, open, feeds, uncached, restored, prefetch, attempts>>

DropReply ==
  /\ FinishSortRefresh(window, open)
  /\ UNCHANGED <<open, feeds, uncached, restored, prefetch, attempts>>

(* MUTANT of Obsolete: only the profile is compared.                        *)
ObsoleteProfile == refresh.profile # api

Obsolete == refresh.profile # api \/ ~refresh.newest

ReceiveRefresh ==
  /\ Running
  /\ Answered(refresh)
  /\ IF Obsolete THEN DropReply
     ELSE IF refresh.window # window THEN KeepReply(refresh.window, refresh.reply)
     ELSE ShowReply(refresh.reply)
  /\ UNCHANGED <<server, api, settingUp, window, rated, history, voteWindow, voting,
                 quitting, known, bounds>>

(* MUTANT of Accepts: the answer of the profile before is taken.            *)
AcceptsAny(request) ==
  /\ request.newest
  /\ open
  /\ request.reply.version = Feed.version
  /\ request.window # window
  /\ feeds[request.window] = NoFeed

(* prefetch_windows: a late answer is only ever a cache entry of the        *)
(* version on screen, and of the generation of the caches it was sent in.   *)
Accepts(request) ==
  /\ request.profile = api
  /\ request.newest
  /\ open
  /\ request.reply.version = Feed.version
  /\ request.window # window
  /\ feeds[request.window] = NoFeed

ReceivePrefetch ==
  /\ Alive
  /\ Answered(prefetch)
  /\ LET cached == IF Accepts(prefetch)
                   THEN [feeds EXCEPT ![prefetch.window] = prefetch.reply] ELSE feeds
     IN  /\ feeds' = cached
         /\ PrefetchNext(window, open, cached)
  /\ UNCHANGED <<server, api, settingUp, window, open, uncached, marks, voting, refresh,
                 sortPending, quitting, known, bounds>>

FailPrefetch ==
  /\ Alive
  /\ prefetch # NoRequest
  /\ faults < MaxFaults
  /\ faults' = faults + 1
  /\ PrefetchNext(window, open, feeds)
  /\ UNCHANGED <<server, api, settingUp, window, open, feeds, uncached, marks, voting,
                 refresh, sortPending, quitting, known, switches, regens>>

(* MUTANT of Newer: lower versions are taken for old answers.               *)
NewerOnly ==
  LET feed == Feed IN
  IF feed.ready THEN Served.target > feed.version ELSE Served.version >= feed.target

(* poll_feed_version, request and answer in one step: an answer is only     *)
(* used if the deck on screen is the one it was asked for and no request    *)
(* began meanwhile.  A deck that is current waits for any other version, a  *)
(* stale one for its target, or for a version below it: a restart.          *)
Newer ==
  LET feed == Feed
      wanted == IF feed.ready THEN feed.version ELSE feed.target
  IN  IF feed.ready
      THEN Served.target # feed.version
      ELSE Served.version >= wanted \/ Served.target < wanted

(* The counts of comments moved: every cached deck goes, the one on screen  *)
(* from the cache too, and a prefetch under way is of the generation before. *)
ForgetDecks ==
  /\ regens < MaxRegens
  /\ regens' = regens + 1
  /\ feeds' = [w \in Windows |-> IF w = window THEN feeds[w] ELSE NoFeed]
  /\ uncached' = TRUE
  /\ attempts' = {}
  /\ prefetch' = IF prefetch = NoRequest THEN prefetch ELSE [prefetch EXCEPT !.newest = FALSE]

(* A poll that asks for the feed again.                                     *)
Reload ==
  /\ Running
  /\ open
  /\ ~Busy
  /\ Refresh(window)
  /\ DeckRead
  /\ UNCHANGED <<voted, current, api, settingUp, window, open, marks, voting,
                 sortPending, quitting, known, switches, faults>>

(* The server has another deck; the counts may have moved as well.          *)
Poll ==
  /\ Newer
  /\ Reload
  /\ ForgetDecks \/ UNCHANGED <<feeds, uncached, attempts, prefetch, regens>>

(* Only counts moved: the same deck, fetched again.                         *)
PollCounts ==
  /\ ~Newer
  /\ Reload
  /\ ForgetDecks

-----------------------------------------------------------------------------
(* Votes.                                                                   *)

(* apply_vote and apply_undo, what the screen shows before the server knows. *)
ApplyVote(s) ==
  /\ rated' = rated \union {s}
  /\ restored' = restored \ {s}
  /\ history' = Append(history, s)
  /\ voteWindow' = IF open THEN [voteWindow EXCEPT ![s] = window] ELSE voteWindow
  /\ UNCHANGED feeds

(* list.remove, of a story that may not be there.                           *)
Without(list, s) ==
  LET first == CHOOSE i \in DOMAIN list : list[i] = s /\ \A j \in 1..(i - 1) : list[j] # s
  IN  IF \E i \in DOMAIN list : list[i] = s THEN RemoveAt(list, first) ELSE list

ApplyUndo(s) ==
  /\ rated' = rated \ {s}
  /\ restored' = restored \union {s}
  /\ history' = Without(history, s)
  /\ feeds' = [w \in Windows |->
                IF uncached /\ w = window THEN feeds[w] ELSE Restore(feeds, {s})[w]]
  /\ UNCHANGED voteWindow

(* submit, up to the lock.                                                  *)
Submit(s, action) ==
  /\ revision[s] < MaxRevisions
  /\ revision' = [revision EXCEPT ![s] = @ + 1]
  /\ queue' = Append(queue, [story |-> s, action |-> action,
                             revision |-> revision[s] + 1, target |-> 0])
  /\ acked' = {key \in acked : key[1] # s}

UserVote ==
  \E s \in Shown \intersect Votable :
    /\ ~settingUp
    /\ quit = "no"
    /\ ApplyVote(s)
    /\ Submit(s, "vote")
    /\ UNCHANGED <<server, api, settingUp, window, open, uncached, attempts, late, errors,
                   unsure, refresh, sortPending, prefetch, quitting, known, bounds>>

UserUndo ==
  /\ ~settingUp
  /\ quit = "no"
  /\ history # <<>>
  /\ ApplyUndo(Last(history))
  /\ Submit(Last(history), "clear")
  /\ UNCHANGED <<server, api, settingUp, window, open, uncached, attempts, late, errors,
                 unsure, refresh, sortPending, prefetch, quitting, known, bounds>>

(* MUTANT of Latest: every failed vote is taken back.                       *)
LatestOrNot(vote) == TRUE

Latest(vote) == revision[vote.story] = vote.revision

(* The answer: the deck on screen now waits for the target, and no feed     *)
(* request sent so far may replace it.                                      *)
AckVote ==
  /\ Running
  /\ queue # <<>>
  /\ Head(queue).target > 0
  /\ queue' = Tail(queue)
  /\ acked' = IF Latest(Head(queue)) \/ quit = "waiting"
              THEN acked \union {Key(Head(queue))} ELSE acked
  /\ LET target == Head(queue).target IN
     IF open /\ target > Feed.version
     THEN /\ feeds' = SetFeed([Feed EXCEPT !.target = target, !.ready = FALSE])
          /\ uncached' = FALSE
          /\ refresh' = [refresh EXCEPT !.newest = FALSE]
          /\ known' = IF known < target /\ target <= current THEN target ELSE known
     ELSE UNCHANGED <<feeds, uncached, refresh, known>>
  /\ UNCHANGED <<server, api, settingUp, window, open, attempts, marks, revision, late,
                 errors, unsure, sortPending, prefetch, quitting, bounds>>

(* No answer, or an error.  Only the newest choice is taken back; the vote  *)
(* is never sent again, and one that had not arrived may still.             *)
FailVote ==
  /\ Running
  /\ queue # <<>>
  /\ faults < MaxFaults
  /\ faults' = faults + 1
  /\ LET vote == Head(queue) IN
     /\ queue' = Tail(queue)
     /\ Fail({Key(vote)})
     /\ late' \in {late} \union (IF vote.target = 0 THEN {late \union {vote}} ELSE {})
     /\ IF ~Latest(vote) THEN UNCHANGED <<marks, feeds>>
        ELSE IF vote.action = "clear" THEN ApplyVote(vote.story)
        ELSE ApplyUndo(vote.story)
  /\ UNCHANGED <<server, api, settingUp, window, open, uncached, attempts, revision, acked,
                 unsure, refresh, sortPending, prefetch, quitting, known, switches, regens>>

(* The token is refused: setup cancels the votes behind this one too.       *)
RejectVote ==
  /\ Running
  /\ queue # <<>>
  /\ Head(queue).target = 0
  /\ faults < MaxFaults
  /\ api < MaxProfiles
  /\ faults' = faults + 1
  /\ Setup(queue)
  /\ UNCHANGED <<server, api, view, marks, revision, late, acked, unsure,
                 prefetch, quitting, known, switches, regens>>

(* connected, to another profile: the server's state is that profile's.     *)
Connected ==
  /\ settingUp
  /\ Alive
  /\ settingUp' = FALSE
  /\ api' = api + 1
  /\ voted' \in SUBSET (Stories \ Votable)
  /\ deck' = Cold
  /\ open' = FALSE
  /\ feeds' = [w \in Windows |-> NoFeed]
  /\ uncached' = FALSE
  /\ attempts' = {}
  /\ rated' = {}
  /\ restored' = {}
  /\ history' = <<>>
  /\ voteWindow' = [s \in Stories |-> NoWindow]
  /\ late' = {}
  /\ unsure' = Stories
  /\ known' = 0
  /\ refresh' = [Request(window) EXCEPT !.profile = api']
  /\ UNCHANGED <<current, window, revision, queue, errors, acked, sortPending, prefetch,
                 quitting, bounds>>

-----------------------------------------------------------------------------
(* The user.                                                                *)

(* The cache without the deck on screen, if that is not in it.              *)
InCache == IF uncached THEN [feeds EXCEPT ![window] = NoFeed] ELSE feeds

(* show_window.                                                             *)
SwitchWindow ==
  \E w \in Windows \ {window} :
    /\ ~settingUp
    /\ Alive
    /\ switches < MaxSwitches
    /\ switches' = switches + 1
    /\ window' = w
    /\ uncached' = FALSE
    /\ IF open /\ feeds[w] # NoFeed /\ feeds[w].version = Feed.version
       THEN LET cached == [InCache EXCEPT ![w].target = Feed.target, ![w].ready = Feed.ready]
            IN  /\ feeds' = cached
                /\ SchedulePrefetch(w, cached)
                /\ UNCHANGED <<open, refresh>>
       ELSE /\ open' = FALSE
            /\ Refresh(w)
            /\ feeds' = InCache
            /\ UNCHANGED <<prefetch, attempts>>
    /\ UNCHANGED <<server, api, settingUp, marks, voting, sortPending, quitting, known,
                   faults, regens>>

(* A sort change, which shows at once and refreshes behind it.              *)
SwitchSort ==
  /\ ~settingUp
  /\ Alive
  /\ switches < MaxSwitches
  /\ switches' = switches + 1
  /\ IF refresh # NoRequest
     THEN sortPending' = TRUE /\ UNCHANGED refresh
     ELSE Refresh(window) /\ UNCHANGED sortPending
  /\ UNCHANGED <<server, api, settingUp, view, marks, voting, prefetch, quitting,
                 known, faults, regens>>

(* action_quit: the votes under way are given QUIT_WAIT_SECONDS.            *)
Quit ==
  /\ MayQuit
  /\ ~settingUp
  /\ quit = "no"
  /\ quit' = "waiting"
  /\ snapshot' = Pending
  /\ UNCHANGED <<server, api, settingUp, view, marks, voting, refresh, sortPending,
                 prefetch, report, known, bounds>>

(* The votes are done, the time is up, or q was pressed again.              *)
Exit ==
  /\ quit = "waiting"
  /\ quit' = "exited"
  /\ report' = {key \in snapshot : key \in Pending \/ key \in errors}
  /\ UNCHANGED <<server, api, settingUp, view, marks, voting, refresh, sortPending,
                 prefetch, snapshot, known, bounds>>

User == UserVote \/ UserUndo \/ SwitchWindow \/ SwitchSort \/ Quit \/ Exit \/ Connected
Receive == ReceiveRefresh \/ ReceivePrefetch \/ AckVote \/ Poll \/ PollCounts
Fault == FailRefresh \/ RejectRefresh \/ FailPrefetch \/ FailVote \/ RejectVote

Next == Server \/ User \/ Receive \/ Fault
Spec == Init /\ [][Next]_vars
(* The server ranks and answers; the poll timer runs every minute and finds *)
(* the reader in the list again and again; answers are taken.               *)
Fairness ==
  /\ WF_vars(Rank)
  /\ WF_vars(ServeRefresh)
  /\ WF_vars(ServeVote)
  /\ WF_vars(ReceiveRefresh)
  /\ WF_vars(AckVote)
  /\ WF_vars(Poll)
FairSpec == Spec /\ Fairness

-----------------------------------------------------------------------------
(* The types of the variables.  history lists a story once.                 *)
FeedType ==
  [profile : Nat, version : Nat, target : Nat, ready : BOOLEAN, rows : SUBSET Stories]
RequestType ==
  [profile : Nat, window : Windows \union {NoWindow}, newest : BOOLEAN, reply : FeedType]
Keys == Stories \X Nat
VoteType ==
  [story : Stories, action : {"vote", "clear"}, revision : Nat, target : Nat]

TypeOK ==
  /\ voted \subseteq Stories
  /\ current \in Nat
  /\ deck \in [version : Nat, saw : SUBSET Stories]
  /\ api \in Nat
  /\ settingUp \in BOOLEAN
  /\ window \in Windows
  /\ open \in BOOLEAN
  /\ feeds \in [Windows -> FeedType]
  /\ uncached \in BOOLEAN
  /\ attempts \subseteq Windows \X Nat
  /\ {rated, restored, unsure} \subseteq SUBSET Stories
  /\ history \in Seq(Stories) /\ IsInjective(history)
  /\ voteWindow \in [Stories -> Windows \union {NoWindow}]
  /\ revision \in [Stories -> Nat]
  /\ queue \in Seq(VoteType)
  /\ late \subseteq VoteType
  /\ {errors, snapshot, report, acked} \subseteq SUBSET Keys
  /\ {refresh, prefetch} \subseteq RequestType
  /\ sortPending \in BOOLEAN
  /\ quit \in {"no", "waiting", "exited"}
  /\ {known, switches, faults, regens} \subseteq Nat

-----------------------------------------------------------------------------
(* The newest vote or undo of a story was confirmed, and no earlier one     *)
(* that had been given up reached the server after it.                      *)
Confirmed(s) ==
  revision[s] > 0 /\ <<s, revision[s]>> \in acked /\ s \notin unsure

(* However votes, undos and failures follow each other, the screen and the  *)
(* server agree on a story whose newest choice was confirmed: an earlier    *)
(* request that failed never takes a later choice back, and the server had  *)
(* them in the order they were made.                                        *)
ScreenAgrees == \A s \in Stories : Confirmed(s) => (s \in rated <=> s \in voted)

(* A vote acknowledged over a deck is never forgotten: a deck on screen has *)
(* it, or is marked stale and waits for it, also after a reply that was     *)
(* requested before the acknowledgement, a poll or a change of window.      *)
AckNotForgotten ==
  open => Feed.version >= known \/ (~Feed.ready /\ Feed.target >= known)

(* The follow-up that a sort change queued behind a feed request is sent or *)
(* dropped when that request ends, whichever way it ends.                   *)
NoStrandedFollowUp == sortPending => refresh # NoRequest

(* Every deck in the cache is this profile's, and of the version on screen: *)
(* a prefetch outlives a change of profile or deck, its answer does not.    *)
CachesMatch ==
  \A w \in Windows : feeds[w] # NoFeed =>
    feeds[w].profile = api /\ (open => feeds[w].version = Feed.version)

(* The lines printed on exit name exactly the votes under way at q that the *)
(* server did not confirm.                                                  *)
ReportExact ==
  quit = "exited" => \A key \in snapshot : key \in report <=> key \notin acked

(* A stale deck on screen is replaced by a current one without the user's   *)
(* doing, also when the server restarted with lower versions, unless the    *)
(* user leaves it: by quitting, by signing in again, or for another window. *)
StaleDeckReplaced ==
  (open /\ ~Feed.ready) ~> (~open \/ Feed.ready \/ settingUp \/ quit # "no")

=============================================================================
