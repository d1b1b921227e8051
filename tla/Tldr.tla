-------------------------------- MODULE Tldr --------------------------------
(* /api/tldr-detail and the TLDR prefetch: summaries generated by an LLM,   *)
(* one flight per story (single_flight.SingleFlight), a limit on concurrent *)
(* generations and one cached summary per story.                            *)
(*                                                                          *)
(* A story's text is abstracted to a version: `live` is what the source has *)
(* now, `row` what the stories table has, `text` what a thread read.  A     *)
(* cache key stands for the version it was computed from.  Every tap and    *)
(* every prefetched story is a thread that runs once, and a thread leads at *)
(* most one flight, so a flight is named by its leader.  Stories are HN     *)
(* stories: for another source a forced tap may go on without a fetch.      *)
EXTENDS Naturals, FiniteSets

CONSTANTS
  Stories,      \* story ids
  Taps,         \* request threads
  Prefetches,   \* _prefetch_one coroutines
  NoFlight,     \* no flight, no story
  Slots,        \* config.tldr_max_concurrent_generations
  MaxLive,      \* BOUND: versions of a story's text
  MaxFailures   \* BOUND: LLM calls that fail, generations that raise, prewarms
                \*        that store an older text

ASSUME ThreadsAssumption ==
  /\ Taps \intersect Prefetches = {}
  /\ NoFlight \notin Taps \union Prefetches \union Stories
ASSUME SlotsAssumption == Slots \in Nat
ASSUME BoundsAssumption ==
  MaxLive \in Nat \ {0} /\ MaxFailures \in Nat

VARIABLES
  live,      \* story -> version its source has
  row,       \* stories table: story -> version stored
  cache,     \* tldr_cache: story -> version summarized, or NoText
  cooling,   \* llm_limiter: the provider cooldown is on
  table,     \* SingleFlight._flights: story -> flight, or NoFlight
  landed,    \* flights whose _done is set
  value,     \* Flight._value: flight -> reply
  followup,  \* Flight._followup: flight -> flight, or NoFlight
  slots,     \* _tldr_generations
  pc,        \* thread -> where it is
  story,     \* thread -> its story
  forced,    \* thread -> force_refresh; for a flight, Flight.forced
  refresh,   \* thread -> the gates ask for hydration
  flight,    \* thread -> its `flight`: the one it leads or waits for
  joined,    \* thread -> its `joined`: the flight it waited for first
  text,      \* thread -> version it read or fetched
  reply,     \* thread -> its reply
  hasSlot,   \* threads whose request holds a generation slot
  asked,     \* history: thread -> live version when it started
  fetched,   \* history: thread -> live version it fetched, or NoText
  newest,    \* history: story -> newest version its row has had
  misled,    \* history: prefetches that read a row older than it had been
  failures   \* failures so far (bounded)

stored == <<live, row, cache>>
flights == <<table, landed, value, followup>>
request == <<story, forced, refresh>>
mine == <<flight, joined>>
history == <<asked, fetched, newest, misled>>
vars == <<stored, cooling, flights, slots, pc, request, mine, text, reply,
          hasSlot, history, failures>>

Threads == Taps \union Prefetches
NoText == 0
Versions == 1..MaxLive

(* What a client is told: a summary of a version's text, a summary that may *)
(* be older than the text, a refusal to retry later, or an error.           *)
Summary(v) == [kind |-> "summary", of |-> v]
Stale == [kind |-> "stale", of |-> NoText]
Refused == [kind |-> "refused", of |-> NoText]
Unfinished == [kind |-> "unfinished", of |-> NoText]
NoReply == [kind |-> "none", of |-> NoText]

Init ==
  /\ live = [s \in Stories |-> 1]
  /\ row = live
  /\ cache = [s \in Stories |-> NoText]
  /\ cooling = FALSE
  /\ table = [s \in Stories |-> NoFlight]
  /\ landed = {}
  /\ value = [t \in Threads |-> NoReply]
  /\ followup = [t \in Threads |-> NoFlight]
  /\ slots = 0
  /\ pc = [t \in Threads |-> "idle"]
  /\ story = [t \in Threads |-> NoFlight]
  /\ forced = [t \in Threads |-> FALSE]
  /\ refresh = [t \in Threads |-> FALSE]
  /\ flight = [t \in Threads |-> NoFlight]
  /\ joined = flight
  /\ text = [t \in Threads |-> NoText]
  /\ reply = [t \in Threads |-> NoReply]
  /\ hasSlot = {}
  /\ asked = [t \in Threads |-> NoText]
  /\ fetched = [t \in Threads |-> NoText]
  /\ newest = row
  /\ misled = {}
  /\ failures = 0

-----------------------------------------------------------------------------
At(t, label) == pc[t] = label
Go(t, label) == pc' = [pc EXCEPT ![t] = label]
Cached(t) == cache[story[t]] = text[t]

(* The thread is done with its work and has `answer`, next at `label`.      *)
Answer(t, answer, label) ==
  /\ Go(t, label)
  /\ reply' = [reply EXCEPT ![t] = answer]

(* _stale_tldr_fallback: any cached summary rather than a refusal.          *)
Fallback(t) == IF cache[story[t]] # NoText THEN Stale ELSE Refused

(* The request or coroutine ends; of its locals, those a property or a      *)
(* waiter still asks about are kept.                                        *)
End(t, answer) ==
  /\ Answer(t, IF forced[t] THEN answer ELSE NoReply, "over")
  /\ text' = [text EXCEPT ![t] = NoText]
  /\ refresh' = [refresh EXCEPT ![t] = FALSE]

Start(t, s, force) ==
  /\ At(t, "idle")
  /\ Go(t, "gates")
  /\ story' = [story EXCEPT ![t] = s]
  /\ forced' = [forced EXCEPT ![t] = force]
  /\ text' = [text EXCEPT ![t] = row[s]]
  /\ asked' = [asked EXCEPT ![t] = IF force THEN live[s] ELSE NoText]
  /\ UNCHANGED <<stored, cooling, flights, slots, refresh, mine, reply, hasSlot,
                 fetched, newest, misled, failures>>

(* _handle_flask_tldr_detail up to its gates.                               *)
Tap(t) == \E s \in Stories, force \in BOOLEAN : Start(t, s, force)

(* The gates: cached text, provider cooldown, session.  Whether an active   *)
(* or empty thread, or growth found by a probe, turns a cache hit into a    *)
(* refresh depends on clocks and counts: either may be.                     *)
ServeCached(t) ==
  /\ Cached(t)
  /\ ~forced[t]
  /\ End(t, Summary(text[t]))

CoolDown(t) ==
  /\ cooling
  /\ End(t, Fallback(t))

NoSession(t) ==
  /\ ~cooling
  /\ End(t, Fallback(t))

GoOn(t, wants) ==
  /\ ~cooling
  /\ ~Cached(t) \/ forced[t] \/ wants
  /\ refresh' = [refresh EXCEPT ![t] = wants]
  /\ Go(t, "join")
  /\ UNCHANGED <<text, reply>>

Gates(t) ==
  /\ At(t, "gates")
  /\ \/ ServeCached(t) \/ CoolDown(t) \/ NoSession(t)
     \/ \E wants \in BOOLEAN : GoOn(t, wants)
  /\ UNCHANGED <<stored, cooling, flights, slots, story, forced, mine, hasSlot,
                 history, failures>>

-----------------------------------------------------------------------------
(* MUTANT of Waited: a wait that timed out goes on to generate by itself.   *)
WaitedThenLeads(t, result) ==
  /\ At(t, "wait")
  /\ \/ result = NoReply /\ Go(t, "slot") /\ UNCHANGED <<reply, text, refresh>>
     \/ result # NoReply /\ End(t, result)
  /\ UNCHANGED <<stored, cooling, flights, slots, story, forced, mine, hasSlot,
                 history, failures>>

(* MUTANT of Waited: a forced tap takes an ordinary flight's answer.        *)
WaitedIsEnough(t, result) ==
  /\ At(t, "wait")
  /\ End(t, IF result = NoReply THEN Unfinished ELSE result)
  /\ UNCHANGED <<stored, cooling, flights, slots, story, forced, mine, hasSlot,
                 history, failures>>

(* SingleFlight.join_or_lead.                                               *)
Join(t) ==
  LET s == story[t]
  IN  /\ At(t, "join")
      /\ \/ /\ table[s] = NoFlight
            /\ table' = [table EXCEPT ![s] = t]
            /\ flight' = [flight EXCEPT ![t] = t]
            /\ Go(t, "slot")
            /\ UNCHANGED joined
         \/ /\ table[s] # NoFlight
            /\ flight' = [flight EXCEPT ![t] = table[s]]
            /\ joined' = [joined EXCEPT ![t] = table[s]]
            /\ Go(t, "wait")
            /\ UNCHANGED table
      /\ UNCHANGED <<stored, cooling, landed, value, followup, slots, request, text,
                     reply, hasSlot, history, failures>>

(* Flight.wait returned `result`.  A forced tap that waited for an ordinary *)
(* flight asks for the follow-up; anybody else has its answer.              *)
Waited(t, result) ==
  /\ At(t, "wait")
  /\ \/ /\ forced[t]
        /\ ~forced[flight[t]]
        /\ Go(t, "follow")
        /\ UNCHANGED <<reply, text, refresh>>
     \/ /\ ~forced[t] \/ forced[flight[t]]
        /\ End(t, IF result = NoReply THEN Unfinished ELSE result)
  /\ UNCHANGED <<stored, cooling, flights, slots, story, forced, mine, hasSlot,
                 history, failures>>

Woken(t) == flight[t] \in landed /\ Waited(t, value[flight[t]])
TimedOut(t) == Waited(t, NoReply)

(* SingleFlight.followup_or_lead.  An ordinary flight on the key is not     *)
(* joined: the tap reports that it did not finish.                          *)
ShareFollowup(t) ==
  /\ followup[joined[t]] # NoFlight
  /\ flight' = [flight EXCEPT ![t] = followup[joined[t]]]
  /\ Go(t, "wait")
  /\ UNCHANGED <<table, followup, reply, text, refresh>>

ShareForced(t) ==
  LET current == table[story[t]]
  IN  /\ followup[joined[t]] = NoFlight
      /\ current # NoFlight
      /\ forced[current]
      /\ followup' = [followup EXCEPT ![joined[t]] = current]
      /\ flight' = [flight EXCEPT ![t] = current]
      /\ Go(t, "wait")
      /\ UNCHANGED <<table, reply, text, refresh>>

GiveUp(t) ==
  LET current == table[story[t]]
  IN  /\ followup[joined[t]] = NoFlight
      /\ current # NoFlight
      /\ ~forced[current]
      /\ End(t, Unfinished)
      /\ UNCHANGED <<table, followup, flight>>

LeadFollowup(t) ==
  /\ followup[joined[t]] = NoFlight
  /\ table[story[t]] = NoFlight
  /\ followup' = [followup EXCEPT ![joined[t]] = t]
  /\ table' = [table EXCEPT ![story[t]] = t]
  /\ flight' = [flight EXCEPT ![t] = t]
  /\ Go(t, "slot")
  /\ UNCHANGED <<reply, text, refresh>>

Follow(t) ==
  /\ At(t, "follow")
  /\ ShareFollowup(t) \/ ShareForced(t) \/ GiveUp(t) \/ LeadFollowup(t)
  /\ UNCHANGED <<stored, cooling, landed, value, slots, story, forced, joined,
                 hasSlot, history, failures>>

-----------------------------------------------------------------------------
(* _generate_tldr_reply.                                                    *)
TakeSlot(t) ==
  /\ At(t, "slot")
  /\ \/ /\ slots < Slots
        /\ slots' = slots + 1
        /\ hasSlot' = hasSlot \union {t}
        /\ Go(t, "quota")
        /\ UNCHANGED reply
     \/ /\ slots >= Slots
        /\ Answer(t, Fallback(t), "land")
        /\ UNCHANGED <<slots, hasSlot>>
  /\ UNCHANGED <<stored, cooling, flights, request, mine, text, history, failures>>

(* The quota's windows are FixedWindowLimiter's: either answer may come.    *)
Quota(t) ==
  /\ At(t, "quota")
  /\ \/ Answer(t, Fallback(t), "land")
     \/ /\ forced[t] \/ refresh[t]
        /\ Go(t, "fetch")
        /\ UNCHANGED reply
     \/ /\ ~forced[t]
        /\ ~refresh[t]
        /\ Go(t, "check")
        /\ UNCHANGED reply
  /\ UNCHANGED <<stored, cooling, flights, slots, request, mine, text, hasSlot,
                 history, failures>>

(* fetch_story: the source answers, and what it sent is stored and used;    *)
(* or it does not, which ends a forced tap.                                 *)
Fetch(t) ==
  LET s == story[t]
  IN  /\ At(t, "fetch")
      /\ \/ /\ row' = [row EXCEPT ![s] = live[s]]
            /\ text' = [text EXCEPT ![t] = live[s]]
            /\ fetched' = [fetched EXCEPT ![t] = live[s]]
            /\ newest' = [newest EXCEPT ![s] = live[s]]
            /\ Go(t, "check")
            /\ UNCHANGED reply
         \/ /\ forced[t]
            /\ Answer(t, Fallback(t), "land")
            /\ UNCHANGED <<row, text, fetched, newest>>
         \/ /\ ~forced[t]
            /\ Go(t, "check")
            /\ UNCHANGED <<row, text, fetched, newest, reply>>
      /\ UNCHANGED <<live, cache, cooling, flights, slots, request, mine, hasSlot,
                     asked, misled, failures>>

Reread(t) ==
  LET s == story[t]
  IN  /\ At(t, "reread")
      /\ text' = [text EXCEPT ![t] = row[s]]
      /\ misled' = IF row[s] < newest[s] THEN misled \union {t} ELSE misled
      /\ Go(t, "check")
      /\ UNCHANGED <<stored, cooling, flights, slots, request, mine, reply, hasSlot,
                     asked, fetched, newest, failures>>

(* A summary of this very text may have been cached meanwhile.              *)
CheckCache(t) ==
  /\ At(t, "check")
  /\ \/ /\ Cached(t)
        /\ ~forced[t]
        /\ Answer(t, IF t \in Taps THEN Summary(text[t]) ELSE NoReply, "land")
     \/ /\ ~Cached(t) \/ forced[t]
        /\ Go(t, "llm")
        /\ UNCHANGED reply
  /\ UNCHANGED <<stored, cooling, flights, slots, request, mine, text, hasSlot,
                 history, failures>>

(* generate_detailed_tldr: a summary; half of one, or the word that there   *)
(* is nothing to summarize, which is not cached; or a failure, which may    *)
(* start the provider cooldown.                                             *)
Generated(t) ==
  /\ Answer(t, Summary(text[t]), "land")
  /\ cache' = [cache EXCEPT ![story[t]] = text[t]]
  /\ UNCHANGED <<cooling, failures>>

Half(t) ==
  /\ Answer(t, Summary(text[t]), "land")
  /\ UNCHANGED <<cache, cooling, failures>>

LlmFails(t) ==
  /\ failures < MaxFailures
  /\ failures' = failures + 1
  /\ cooling' \in {cooling, TRUE}
  /\ Answer(t, Fallback(t), "land")
  /\ UNCHANGED cache

CallLlm(t) ==
  /\ At(t, "llm")
  /\ Generated(t) \/ Half(t) \/ LlmFails(t)
  /\ UNCHANGED <<live, row, flights, slots, request, mine, text, hasSlot, history>>

Leading == {"slot", "quota", "fetch", "reread", "check", "llm", "land"}

(* Anything in the generation raised: the finally block still lands it.     *)
Raise(t) ==
  /\ pc[t] \in Leading \ {"land"}
  /\ failures < MaxFailures
  /\ failures' = failures + 1
  /\ Answer(t, NoReply, "land")
  /\ UNCHANGED <<stored, cooling, flights, slots, request, mine, text, hasSlot, history>>

(* MUTANT of Teardown: a request that never got a slot gives one back.      *)
TeardownAlways(t) ==
  /\ At(t, "teardown")
  /\ End(t, reply[t])
  /\ hasSlot' = hasSlot \ {t}
  /\ slots' = IF slots > 0 THEN slots - 1 ELSE slots
  /\ UNCHANGED <<stored, cooling, flights, story, forced, mine, history, failures>>

(* SingleFlight.land: the value is set and the key released, then the       *)
(* waiters are woken.                                                       *)
Land(t) ==
  /\ At(t, "land")
  /\ value' = [value EXCEPT ![t] = reply[t]]
  /\ table' = [table EXCEPT ![story[t]] = IF @ = t THEN NoFlight ELSE @]
  /\ Go(t, "announce")
  /\ UNCHANGED <<stored, cooling, landed, followup, slots, request, mine, text,
                 reply, hasSlot, history, failures>>

(* MUTANT of Announce: only a flight with a result wakes its waiters.       *)
AnnounceResult(t) ==
  /\ At(t, "announce")
  /\ landed' = IF reply[t] = NoReply THEN landed ELSE landed \union {t}
  /\ Go(t, "teardown")
  /\ UNCHANGED <<stored, cooling, table, value, followup, slots, request, mine,
                 text, reply, hasSlot, history, failures>>

Announce(t) ==
  /\ At(t, "announce")
  /\ landed' = landed \union {t}
  /\ Go(t, "teardown")
  /\ UNCHANGED <<stored, cooling, table, value, followup, slots, request, mine,
                 text, reply, hasSlot, history, failures>>

(* release_tldr_generation, as the request ends.                            *)
Teardown(t) ==
  /\ At(t, "teardown")
  /\ End(t, reply[t])
  /\ hasSlot' = hasSlot \ {t}
  /\ slots' = IF t \in hasSlot /\ slots > 0 THEN slots - 1 ELSE slots
  /\ UNCHANGED <<stored, cooling, flights, story, forced, mine, history, failures>>

TapStep(t) ==
  \/ Gates(t) \/ Join(t) \/ Woken(t) \/ Follow(t) \/ TakeSlot(t) \/ Quota(t)
  \/ Fetch(t) \/ CheckCache(t) \/ CallLlm(t) \/ Land(t) \/ Announce(t)
  \/ Teardown(t)

-----------------------------------------------------------------------------
(* _prefetch_one: skips a story with a cached summary, leads only a free    *)
(* key, and reads the story again once it leads.                            *)
Prefetch(t) == ~cooling /\ \E s \in Stories : Start(t, s, FALSE)

SkipCached(t) ==
  /\ At(t, "gates")
  /\ \/ Cached(t) /\ End(t, NoReply)
     \/ ~Cached(t) /\ Go(t, "join") /\ UNCHANGED <<reply, text, refresh>>
  /\ UNCHANGED <<stored, cooling, flights, slots, story, forced, mine, hasSlot,
                 history, failures>>

(* MUTANT of TryLead: the story is not read again.                          *)
TryLeadOnly(t) ==
  LET s == story[t]
  IN  /\ At(t, "join")
      /\ \/ /\ table[s] = NoFlight
            /\ table' = [table EXCEPT ![s] = t]
            /\ Go(t, "check")
            /\ UNCHANGED <<reply, text, refresh>>
         \/ /\ table[s] # NoFlight
            /\ End(t, NoReply)
            /\ UNCHANGED table
      /\ UNCHANGED <<stored, cooling, landed, value, followup, slots, story, forced,
                     mine, hasSlot, history, failures>>

TryLead(t) ==
  LET s == story[t]
  IN  /\ At(t, "join")
      /\ \/ /\ table[s] = NoFlight
            /\ table' = [table EXCEPT ![s] = t]
            /\ Go(t, "reread")
            /\ UNCHANGED <<reply, text, refresh>>
         \/ /\ table[s] # NoFlight
            /\ End(t, NoReply)
            /\ UNCHANGED table
      /\ UNCHANGED <<stored, cooling, landed, value, followup, slots, story, forced,
                     mine, hasSlot, history, failures>>

PrefetchStep(t) ==
  \/ SkipCached(t) \/ TryLead(t) \/ Reread(t) \/ CheckCache(t) \/ CallLlm(t)
  \/ Land(t) \/ Announce(t) \/ Teardown(t)

-----------------------------------------------------------------------------
(* The discussion goes on; the provider cooldown ends.                      *)
Grow ==
  /\ \E s \in Stories : live[s] < MaxLive /\ live' = [live EXCEPT ![s] = @ + 1]
  /\ UNCHANGED <<row, cache, cooling, flights, slots, pc, request, mine, text,
                 reply, hasSlot, history, failures>>

(* prewarm_top_stories stores what ClickHouse has, which lags the source:   *)
(* possibly an older text than the row's.                                   *)
Prewarm ==
  /\ \E s \in Stories, v \in Versions :
       /\ v <= live[s]
       /\ \/ row[s] < v /\ UNCHANGED failures
          \/ v < row[s] /\ failures < MaxFailures /\ failures' = failures + 1
       /\ row' = [row EXCEPT ![s] = v]
       /\ newest' = [newest EXCEPT ![s] = IF v > @ THEN v ELSE @]
  /\ UNCHANGED <<live, cache, cooling, flights, slots, pc, request, mine, text,
                 reply, hasSlot, asked, fetched, misled>>

Thaw ==
  /\ cooling
  /\ cooling' = FALSE
  /\ UNCHANGED <<stored, flights, slots, pc, request, mine, text, reply, hasSlot,
                 history, failures>>

Next ==
  \/ \E t \in Taps : Tap(t) \/ TapStep(t) \/ TimedOut(t)
  \/ \E t \in Prefetches : Prefetch(t) \/ PrefetchStep(t)
  \/ \E t \in Threads : Raise(t)
  \/ Grow
  \/ Prewarm
  \/ Thaw

Spec == Init /\ [][Next]_vars

-----------------------------------------------------------------------------
Reply == [kind : {"none", "summary", "stale", "refused", "unfinished"},
          of : Versions \union {NoText}]
Flights == Threads \union {NoFlight}

(* Types of every variable.                                                 *)
TypeOK ==
  /\ live \in [Stories -> Versions]
  /\ row \in [Stories -> Versions]
  /\ cache \in [Stories -> Versions \union {NoText}]
  /\ cooling \in BOOLEAN
  /\ table \in [Stories -> Flights]
  /\ landed \in SUBSET Threads
  /\ value \in [Threads -> Reply]
  /\ followup \in [Threads -> Flights]
  /\ slots \in 0..Slots
  /\ pc \in [Threads -> Leading \union {"idle", "gates", "join", "wait", "follow",
                                        "announce", "teardown", "over"}]
  /\ story \in [Threads -> Stories \union {NoFlight}]
  /\ forced \in [Threads -> BOOLEAN]
  /\ refresh \in [Threads -> BOOLEAN]
  /\ flight \in [Threads -> Flights]
  /\ joined \in [Threads -> Flights]
  /\ text \in [Threads -> Versions \union {NoText}]
  /\ reply \in [Threads -> Reply]
  /\ hasSlot \in SUBSET Taps
  /\ asked \in [Threads -> Versions \union {NoText}]
  /\ fetched \in [Threads -> Versions \union {NoText}]
  /\ newest \in [Stories -> Versions]
  /\ misled \in SUBSET Prefetches
  /\ failures \in 0..MaxFailures

(* "One generation per story": whoever is generating holds the story's key, *)
(* so no two LLM calls or cache writes for it overlap; and a key that is    *)
(* held has a leader on its way to land it, so no story is locked for good. *)
OneGenerationPerStory ==
  \A s \in Stories :
    /\ \A t \in Threads : pc[t] \in Leading /\ story[t] = s => table[s] = t
    /\ table[s] # NoFlight => pc[table[s]] \in Leading /\ story[table[s]] = s

(* Every slot that is counted will be given back by the request holding it. *)
SlotsBalanced ==
  /\ slots = Cardinality(hasSlot)
  /\ \A t \in hasSlot : pc[t] \in Leading \union {"announce", "teardown"}

(* A forced tap is never given the summary an ordinary flight made: what it *)
(* gets was made after a forced flight's own fetch, and if it had waited    *)
(* for an ordinary flight first, that fetch began after the tap had come.   *)
ForcedReplyIsFresh ==
  \A t \in Taps :
    forced[t] /\ reply[t].kind = "summary" =>
      /\ forced[flight[t]]
      /\ fetched[flight[t]] # NoText
      /\ joined[t] # NoFlight /\ ~forced[joined[t]] => fetched[flight[t]] >= asked[t]

(* A tap that waits will be woken: its flight has landed or its leader is  *)
(* still to land it, whatever the generation came to.                       *)
WaiterWillWake ==
  \A t \in Taps :
    At(t, "wait") =>
      \/ flight[t] \in landed
      \/ pc[flight[t]] \in Leading \union {"announce"}

(* "Never regenerate from stale input over a fresh row": a prefetch does    *)
(* not replace a story's cached summary by one of an older text.  It does   *)
(* only if it was misled: a prewarm had put an older text in the row by the *)
(* time the prefetch read the row again.                                    *)
PrefetchNeverOlder ==
  [][\A p \in Prefetches :
       At(p, "llm") /\ pc'[p] # "llm" =>
         cache'[story[p]] >= cache[story[p]] \/ p \in misled]_vars
=============================================================================
