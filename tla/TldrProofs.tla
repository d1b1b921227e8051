----------------------------- MODULE TldrProofs -----------------------------
(***************************************************************************)
(* What holds of the summaries for any number of stories, request threads, *)
(* prefetches and generation slots, and however often the provider fails.  *)
(***************************************************************************)
EXTENDS Tldr, FiniteSetTheorems, TLAPS

\* A thread that has begun knows its story, one that waits has a flight it
\* joined, and only taps force a refresh.
Placed ==
  /\ \A t \in Threads : pc[t] # "idle" => story[t] \in Stories
  /\ \A t \in Threads : pc[t] \in {"wait", "follow"} => joined[t] # NoFlight
  /\ \A t \in Prefetches : ~forced[t]

Typed == TypeOK /\ Placed

-----------------------------------------------------------------------------
LEMMA Constants ==
  /\ Versions \subseteq Nat /\ NoText \notin Versions /\ NoText = 0 /\ 1 \in Versions
  /\ MaxLive \in Nat /\ MaxFailures \in Nat /\ Slots \in Nat
  /\ NoFlight \notin Threads /\ NoFlight \notin Stories
  /\ Taps \subseteq Threads /\ Prefetches \subseteq Threads
  /\ \A t \in Threads : t \notin Taps => t \in Prefetches
BY ThreadsAssumption, SlotsAssumption, BoundsAssumption DEF Versions, NoText, Threads

LEMMA RepliesDiffer ==
  /\ NoReply \in Reply /\ Stale \in Reply /\ Refused \in Reply /\ Unfinished \in Reply
  /\ \A v \in Versions \union {NoText} : Summary(v) \in Reply
  /\ \A v : Summary(v).kind = "summary" /\ Summary(v) # NoReply
  /\ \A t : Fallback(t) \in {Stale, Refused}
  /\ \A r \in {NoReply, Stale, Refused, Unfinished} : r.kind # "summary"
  /\ NoReply \notin {Stale, Refused, Unfinished}
BY DEF Reply, NoReply, Stale, Refused, Unfinished, Summary, Fallback

LEMMA InitTyped == Init => Typed
<1> SUFFICES ASSUME Init PROVE Typed
  OBVIOUS
<1> USE Constants, RepliesDiffer DEF Init
<1>1. /\ live \in [Stories -> Versions] /\ row \in [Stories -> Versions]
  OBVIOUS
<1>2. /\ value \in [Threads -> Reply] /\ reply \in [Threads -> Reply]
      /\ cache \in [Stories -> Versions \union {NoText}]
      /\ table \in [Stories -> Flights]
  BY DEF Flights
<1>3. /\ followup \in [Threads -> Flights] /\ flight \in [Threads -> Flights]
      /\ joined \in [Threads -> Flights]
      /\ story \in [Threads -> Stories \union {NoFlight}]
      /\ forced \in [Threads -> BOOLEAN] /\ refresh \in [Threads -> BOOLEAN]
  BY DEF Flights
<1>4. /\ text \in [Threads -> Versions \union {NoText}]
      /\ asked \in [Threads -> Versions \union {NoText}]
      /\ fetched \in [Threads -> Versions \union {NoText}]
      /\ pc \in [Threads -> Leading \union {"idle", "gates", "join", "wait", "follow",
                                        "announce", "teardown", "over"}]
  BY DEF Leading
<1>5. /\ landed \subseteq Threads /\ hasSlot \subseteq Taps
      /\ slots \in 0..Slots /\ failures \in 0..MaxFailures
  OBVIOUS
<1>6. cooling \in BOOLEAN /\ newest \in [Stories -> Versions] /\ misled \subseteq Prefetches
  OBVIOUS
<1>7. TypeOK
  BY <1>1, <1>2, <1>3, <1>4, <1>5, <1>6 DEF TypeOK
<1> QED
  BY <1>7 DEF Typed, Placed

LEMMA StartTyped ==
  ASSUME Typed, NEW t \in Threads, NEW s \in Stories, NEW force \in BOOLEAN,
         t \in Prefetches => ~force, Start(t, s, force)
  PROVE  Typed'
BY Constants DEF Typed, TypeOK, Placed, Start, At, Go, stored, flights, mine, Flights

\* A thread that has begun goes on to a label, possibly with an answer.
LEMMA GoTyped ==
  ASSUME Typed, NEW t \in Threads, NEW to, Go(t, to), pc[t] # "idle",
         to \in Leading \union {"join", "wait", "follow", "announce", "teardown", "over"},
         UNCHANGED <<story, forced, asked>>,
         row' \in [Stories -> Versions], live' \in [Stories -> Versions],
         cache' \in [Stories -> Versions \union {NoText}], cooling' \in BOOLEAN,
         table' \in [Stories -> Flights], landed' \subseteq Threads,
         value' \in [Threads -> Reply], followup' \in [Threads -> Flights],
         slots' \in 0..Slots, hasSlot' \subseteq Taps,
         refresh' \in [Threads -> BOOLEAN],
         flight' \in [Threads -> Flights], joined' \in [Threads -> Flights],
         to \in {"wait", "follow"} => joined'[t] # NoFlight,
         \A u \in Threads \ {t} : joined'[u] = joined[u],
         text' \in [Threads -> Versions \union {NoText}],
         reply' \in [Threads -> Reply],
         fetched' \in [Threads -> Versions \union {NoText}],
         newest' \in [Stories -> Versions], misled' \subseteq Prefetches,
         failures' \in 0..MaxFailures
  PROVE  Typed'
<1>1. pc' \in [Threads -> Leading \union {"idle", "gates", "join", "wait", "follow",
                                        "announce", "teardown", "over"}]
  BY DEF Typed, TypeOK, Go
<1>2. TypeOK'
  BY <1>1 DEF Typed, TypeOK
<1>3. Placed'
  BY DEF Typed, TypeOK, Placed, Go
<1> QED
  BY <1>2, <1>3 DEF Typed

LEMMA EndTyped ==
  ASSUME Typed, NEW t \in Threads, NEW answer \in Reply, pc[t] # "idle", End(t, answer),
         UNCHANGED <<stored, cooling, flights, story, forced, mine, history, failures>>,
         slots' \in 0..Slots, hasSlot' \subseteq Taps
  PROVE  Typed'
<1>1. /\ reply' \in [Threads -> Reply]
      /\ text' \in [Threads -> Versions \union {NoText}]
      /\ refresh' \in [Threads -> BOOLEAN]
  BY Constants, RepliesDiffer DEF End, Answer, Typed, TypeOK
<1>2. Go(t, "over")
  BY DEF End, Answer
<1> QED
  BY <1>1, <1>2, GoTyped DEF Typed, TypeOK, stored, flights, mine, history

LEMMA GatesTyped == ASSUME Typed, NEW t \in Taps, Gates(t) PROVE Typed'
<1> USE Constants, RepliesDiffer
<1>0. pc[t] # "idle" /\ text[t] \in Versions \union {NoText} /\ t \in Threads
  BY DEF Gates, At, Typed, TypeOK
<1>1. CASE \E answer \in Reply : End(t, answer)
  BY <1>0, <1>1, EndTyped DEF Gates, Typed, TypeOK
<1>2. CASE \E wants \in BOOLEAN : GoOn(t, wants)
  <2>1. Go(t, "join") /\ refresh' \in [Threads -> BOOLEAN] /\ UNCHANGED <<text, reply>>
    BY <1>2 DEF GoOn, Typed, TypeOK
  <2> QED
    BY <1>0, <2>1, GoTyped DEF Gates, Typed, TypeOK, stored, flights, mine, history
<1> QED
  BY <1>0, <1>1, <1>2 DEF Gates, ServeCached, CoolDown, NoSession

LEMMA JoinTyped == ASSUME Typed, NEW t \in Taps, Join(t) PROVE Typed'
<1>1. PICK to \in {"slot", "wait"} : Go(t, to)
  BY DEF Join
<1>2. /\ table' \in [Stories -> Flights] /\ flight' \in [Threads -> Flights]
      /\ joined' \in [Threads -> Flights] /\ pc[t] # "idle"
      /\ to = "wait" => joined'[t] # NoFlight
      /\ \A u \in Threads \ {t} : joined'[u] = joined[u]
  BY <1>1, Constants DEF Join, Typed, TypeOK, Placed, Flights, At, Go
<1> QED
  BY <1>1, <1>2, Constants, GoTyped
     DEF Join, Typed, TypeOK, Leading, stored, request, history

LEMMA WaitedTyped == ASSUME Typed, NEW t \in Taps, NEW r \in Reply, Waited(t, r) PROVE Typed'
<1>0. pc[t] # "idle" /\ t \in Threads /\ joined[t] # NoFlight
  BY Constants DEF Waited, At, Typed, Placed
<1>1. CASE Go(t, "follow") /\ UNCHANGED <<reply, text, refresh>>
  BY <1>0, <1>1, GoTyped DEF Waited, Typed, TypeOK, stored, flights, mine, history
<1>2. CASE \E answer \in Reply : End(t, answer)
  BY <1>0, <1>2, EndTyped DEF Waited, Typed, TypeOK
<1> QED
  BY <1>1, <1>2, RepliesDiffer DEF Waited

LEMMA FollowTyped == ASSUME Typed, NEW t \in Taps, Follow(t) PROVE Typed'
<1>0. pc[t] # "idle" /\ t \in Threads /\ joined[t] \in Threads
  BY Constants DEF Follow, At, Typed, TypeOK, Placed, Flights
<1> USE <1>0, Constants, RepliesDiffer
<1>1. CASE ShareFollowup(t)
  <2>1. flight' \in [Threads -> Flights] /\ Go(t, "wait")
    BY <1>1 DEF ShareFollowup, Typed, TypeOK, Flights
  <2> QED
    BY <1>1, <2>1, GoTyped DEF ShareFollowup, Follow, Typed, TypeOK, stored, history
<1>2. CASE ShareForced(t)
  <2>1. flight' \in [Threads -> Flights] /\ followup' \in [Threads -> Flights] /\ Go(t, "wait")
    BY <1>2 DEF ShareForced, Typed, TypeOK, Placed, Flights, Follow, At
  <2> QED
    BY <1>2, <2>1, GoTyped DEF ShareForced, Follow, Typed, TypeOK, stored, history
<1>3. CASE GiveUp(t)
  BY <1>3, EndTyped DEF GiveUp, Follow, Typed, TypeOK, flights, mine
<1>4. CASE LeadFollowup(t)
  <2>1. /\ flight' \in [Threads -> Flights] /\ followup' \in [Threads -> Flights]
        /\ table' \in [Stories -> Flights] /\ Go(t, "slot")
    BY <1>4 DEF LeadFollowup, Typed, TypeOK, Placed, Flights, Follow, At
  <2> QED
    BY <1>4, <2>1, GoTyped DEF LeadFollowup, Follow, Leading, Typed, TypeOK, stored, history
<1> QED
  BY <1>1, <1>2, <1>3, <1>4 DEF Follow

LEMMA TakeSlotTyped == ASSUME Typed, NEW t \in Taps, TakeSlot(t) PROVE Typed'
<1>1. PICK to \in {"quota", "land"} : Go(t, to)
  BY DEF TakeSlot, Answer
<1>2. /\ slots' \in 0..Slots /\ hasSlot' \subseteq Taps /\ reply' \in [Threads -> Reply]
      /\ pc[t] # "idle"
  BY Constants, RepliesDiffer DEF TakeSlot, Answer, Typed, TypeOK, At
<1> QED
  BY <1>1, <1>2, Constants, GoTyped
     DEF TakeSlot, Typed, TypeOK, Leading, stored, flights, request, mine, history

LEMMA QuotaTyped == ASSUME Typed, NEW t \in Taps, Quota(t) PROVE Typed'
<1>1. PICK to \in {"fetch", "check", "land"} : Go(t, to)
  BY DEF Quota, Answer
<1>2. reply' \in [Threads -> Reply] /\ pc[t] # "idle"
  BY RepliesDiffer DEF Quota, Answer, Typed, TypeOK, At
<1> QED
  BY <1>1, <1>2, Constants, GoTyped
     DEF Quota, Typed, TypeOK, Leading, stored, flights, request, mine, history

LEMMA FetchTyped == ASSUME Typed, NEW t \in Taps, Fetch(t) PROVE Typed'
<1>1. PICK to \in {"check", "land"} : Go(t, to)
  BY DEF Fetch, Answer
<1>2. /\ reply' \in [Threads -> Reply] /\ pc[t] # "idle"
      /\ row' \in [Stories -> Versions] /\ text' \in [Threads -> Versions \union {NoText}]
      /\ fetched' \in [Threads -> Versions \union {NoText}]
      /\ newest' \in [Stories -> Versions]
  BY Constants, RepliesDiffer DEF Fetch, Answer, Typed, TypeOK, Placed, At
<1> QED
  BY <1>1, <1>2, Constants, GoTyped
     DEF Fetch, Typed, TypeOK, Leading, flights, request, mine

LEMMA RereadTyped == ASSUME Typed, NEW t \in Prefetches, Reread(t) PROVE Typed'
<1>1. /\ text' \in [Threads -> Versions \union {NoText}] /\ pc[t] # "idle"
      /\ misled' \subseteq Prefetches
  BY Constants DEF Reread, Typed, TypeOK, Placed, At
<1> QED
  BY <1>1, Constants, GoTyped
     DEF Reread, Typed, TypeOK, Leading, stored, flights, request, mine, history

LEMMA CheckCacheTyped == ASSUME Typed, NEW t \in Threads, CheckCache(t) PROVE Typed'
<1>1. PICK to \in {"llm", "land"} : Go(t, to)
  BY DEF CheckCache, Answer
<1>2. pc[t] # "idle"
  BY DEF CheckCache, At
<1>3. reply' \in [Threads -> Reply]
  <2>1. (IF t \in Taps THEN Summary(text[t]) ELSE NoReply) \in Reply
    BY RepliesDiffer DEF Typed, TypeOK
  <2>2. reply' = reply \/ reply' = [reply EXCEPT ![t] = IF t \in Taps THEN Summary(text[t])
                                                       ELSE NoReply]
    BY DEF CheckCache, Answer
  <2> QED
    BY <2>1, <2>2 DEF Typed, TypeOK
<1> QED
  BY <1>1, <1>2, <1>3, GoTyped
     DEF CheckCache, Typed, TypeOK, Leading, stored, flights, request, mine, history

LEMMA CallLlmTyped == ASSUME Typed, NEW t \in Threads, CallLlm(t) PROVE Typed'
<1>0. /\ Go(t, "land") /\ pc[t] # "idle" /\ story[t] \in Stories
      /\ text[t] \in Versions \union {NoText} /\ Summary(text[t]) \in Reply
      /\ Fallback(t) \in Reply
  BY RepliesDiffer DEF CallLlm, Generated, Half, LlmFails, Answer, Typed, TypeOK, Placed, At
<1>1. CASE Generated(t)
  <2>1. reply' \in [Threads -> Reply] /\ cache' \in [Stories -> Versions \union {NoText}]
    BY <1>0, <1>1 DEF Generated, Answer, Typed, TypeOK
  <2> QED
    BY <1>0, <1>1, <2>1, GoTyped
       DEF CallLlm, Generated, Typed, TypeOK, Leading, flights, request, mine, history
<1>2. CASE Half(t)
  <2>1. reply' \in [Threads -> Reply]
    BY <1>0, <1>2 DEF Half, Answer, Typed, TypeOK
  <2> QED
    BY <1>0, <1>2, <2>1, GoTyped
       DEF CallLlm, Half, Typed, TypeOK, Leading, flights, request, mine, history
<1>3. CASE LlmFails(t)
  <2>1. cooling' \in BOOLEAN
    BY <1>3 DEF LlmFails, Typed, TypeOK
  <2>2. reply' \in [Threads -> Reply] /\ failures' \in 0..MaxFailures
    BY <1>0, <1>3, Constants DEF LlmFails, Answer, Typed, TypeOK
  <2> QED
    BY <1>0, <1>3, <2>1, <2>2, GoTyped
       DEF CallLlm, LlmFails, Typed, TypeOK, Leading, flights, request, mine, history
<1> QED
  BY <1>1, <1>2, <1>3 DEF CallLlm

LEMMA RaiseTyped == ASSUME Typed, NEW t \in Threads, Raise(t) PROVE Typed'
<1>1. /\ reply' \in [Threads -> Reply] /\ pc[t] # "idle" /\ failures' \in 0..MaxFailures
      /\ Go(t, "land")
  BY Constants, RepliesDiffer DEF Raise, Answer, Typed, TypeOK, Leading
<1> QED
  BY <1>1, GoTyped
     DEF Raise, Typed, TypeOK, Leading, stored, flights, request, mine, history

LEMMA LandTyped == ASSUME Typed, NEW t \in Threads, Land(t) PROVE Typed'
<1>1. /\ value' \in [Threads -> Reply] /\ pc[t] # "idle" /\ Go(t, "announce")
      /\ table' \in [Stories -> Flights]
  BY Constants DEF Land, Typed, TypeOK, Placed, At, Flights
<1> QED
  BY <1>1, GoTyped DEF Land, Typed, TypeOK, stored, request, mine, history

LEMMA AnnounceTyped == ASSUME Typed, NEW t \in Threads, Announce(t) PROVE Typed'
<1>1. landed' \subseteq Threads /\ pc[t] # "idle"
  BY DEF Announce, Typed, TypeOK, At
<1> QED
  BY <1>1, GoTyped DEF Announce, Typed, TypeOK, stored, request, mine, history

LEMMA TeardownTyped == ASSUME Typed, NEW t \in Threads, Teardown(t) PROVE Typed'
<1>1. slots' \in 0..Slots /\ hasSlot' \subseteq Taps /\ pc[t] # "idle" /\ reply[t] \in Reply
  BY Constants DEF Teardown, Typed, TypeOK, At
<1> QED
  BY <1>1, EndTyped DEF Teardown

LEMMA SkipCachedTyped == ASSUME Typed, NEW t \in Prefetches, SkipCached(t) PROVE Typed'
<1>0. pc[t] # "idle" /\ t \in Threads
  BY Constants DEF SkipCached, At
<1>1. CASE End(t, NoReply)
  BY <1>0, <1>1, RepliesDiffer, EndTyped DEF SkipCached, Typed, TypeOK
<1>2. CASE Go(t, "join") /\ UNCHANGED <<reply, text, refresh>>
  BY <1>0, <1>2, GoTyped DEF SkipCached, Typed, TypeOK, stored, flights, mine, history
<1> QED
  BY <1>1, <1>2 DEF SkipCached

LEMMA TryLeadTyped == ASSUME Typed, NEW t \in Prefetches, TryLead(t) PROVE Typed'
<1>0. pc[t] # "idle" /\ t \in Threads
  BY Constants DEF TryLead, At
<1>1. CASE End(t, NoReply) /\ UNCHANGED table
  BY <1>0, <1>1, RepliesDiffer, EndTyped DEF TryLead, Typed, TypeOK, flights, mine
<1>2. CASE Go(t, "reread") /\ table' = [table EXCEPT ![story[t]] = t] /\ UNCHANGED <<reply, text, refresh>>
  <2>1. table' \in [Stories -> Flights]
    BY <1>0, <1>2 DEF Typed, TypeOK, Flights
  <2> QED
    BY <1>0, <1>2, <2>1, GoTyped DEF TryLead, Typed, TypeOK, Leading, stored, mine, history
<1> QED
  BY <1>1, <1>2 DEF TryLead

LEMMA SourceTyped == ASSUME Typed, Grow \/ Prewarm \/ Thaw \/ UNCHANGED vars PROVE Typed'
<1>1. CASE Grow
  BY <1>1, Constants DEF Grow, Typed, TypeOK, Placed, flights, request, mine, history, Versions
<1>2. CASE Prewarm
  <2>1. failures' \in 0..MaxFailures
    BY <1>2, Constants DEF Prewarm, Typed, TypeOK
  <2> QED
    BY <1>2, <2>1 DEF Prewarm, Typed, TypeOK, Placed, flights, request, mine
<1>3. CASE Thaw
  BY <1>3 DEF Thaw, Typed, TypeOK, Placed, stored, flights, request, mine, history
<1>4. CASE UNCHANGED vars
  BY <1>4 DEF vars, Typed, TypeOK, Placed, stored, flights, request, mine, history
<1> QED
  BY <1>1, <1>2, <1>3, <1>4

LEMMA StepTyped == ASSUME Typed, [Next]_vars PROVE Typed'
<1> USE Constants
<1>1. ASSUME NEW t \in Taps, Tap(t) \/ TapStep(t) \/ TimedOut(t) PROVE Typed'
  <2>1. CASE Tap(t)
    BY <2>1, StartTyped, ThreadsAssumption DEF Tap
  <2>2. CASE Woken(t)
    <3>1. flight[t] \in Threads
      BY <2>2 DEF Woken, Typed, TypeOK
    <3> QED
      BY <2>2, <3>1, WaitedTyped DEF Woken, Typed, TypeOK
  <2>3. CASE TimedOut(t)
    BY <2>3, WaitedTyped, RepliesDiffer DEF TimedOut
  <2> QED
    BY <1>1, <2>1, <2>2, <2>3, GatesTyped, JoinTyped, FollowTyped, TakeSlotTyped, QuotaTyped,
       FetchTyped, CheckCacheTyped, CallLlmTyped, LandTyped, AnnounceTyped, TeardownTyped
       DEF TapStep
<1>2. ASSUME NEW t \in Prefetches, Prefetch(t) \/ PrefetchStep(t) PROVE Typed'
  <2>1. CASE Prefetch(t)
    BY <2>1, StartTyped DEF Prefetch
  <2> QED
    BY <1>2, <2>1, SkipCachedTyped, TryLeadTyped, RereadTyped, CheckCacheTyped, CallLlmTyped,
       LandTyped, AnnounceTyped, TeardownTyped DEF PrefetchStep
<1>3. ASSUME NEW t \in Threads, Raise(t) PROVE Typed'
  BY <1>3, RaiseTyped
<1> QED
  BY <1>1, <1>2, <1>3, SourceTyped DEF Next

-----------------------------------------------------------------------------
(***************************************************************************)
(* One generation per story.                                               *)
(***************************************************************************)

\* A thread goes on, and its story's key is held by a leader as before.
LEMMA KeyKept ==
  ASSUME Typed, OneGenerationPerStory, NEW t \in Threads, NEW to, Go(t, to),
         pc[t] \in Leading <=> to \in Leading, UNCHANGED <<story, table>>
  PROVE  OneGenerationPerStory'
BY Constants DEF Typed, TypeOK, Placed, OneGenerationPerStory, Go, Flights

\* A thread takes its story's free key and leads.
LEMMA KeyTaken ==
  ASSUME Typed, OneGenerationPerStory, NEW t \in Threads, NEW to \in Leading, Go(t, to),
         pc[t] # "idle", pc[t] \notin Leading, UNCHANGED story,
         table[story[t]] = NoFlight, table' = [table EXCEPT ![story[t]] = t]
  PROVE  OneGenerationPerStory'
BY Constants DEF Typed, TypeOK, Placed, OneGenerationPerStory, Go, Flights

LEMMA StepOneGeneration ==
  ASSUME Typed, OneGenerationPerStory, [Next]_vars PROVE OneGenerationPerStory'
<1> USE Constants DEF Leading
<1>1. ASSUME NEW t \in Threads, NEW s \in Stories, NEW force \in BOOLEAN, Start(t, s, force)
      PROVE  OneGenerationPerStory'
  BY <1>1 DEF Start, At, Go, flights, Typed, TypeOK, Placed, OneGenerationPerStory, Flights
<1>2. ASSUME NEW t \in Taps,
             Gates(t) \/ Woken(t) \/ TimedOut(t)
      PROVE  OneGenerationPerStory'
  <2>1. PICK to \in {"join", "follow", "over"} : Go(t, to)
    BY <1>2 DEF Gates, ServeCached, CoolDown, NoSession, GoOn, Woken, TimedOut, Waited, End, Answer
  <2> QED
    BY <1>2, <2>1, KeyKept DEF Gates, Woken, TimedOut, Waited, At, flights
<1>3. ASSUME NEW t \in Taps, Join(t) PROVE OneGenerationPerStory'
  <2>1. CASE table[story[t]] = NoFlight
    BY <1>3, <2>1, KeyTaken DEF Join, At, request
  <2>2. CASE table[story[t]] # NoFlight
    BY <1>3, <2>2, KeyKept DEF Join, At, request
  <2> QED
    BY <2>1, <2>2
<1>4. ASSUME NEW t \in Taps, Follow(t) PROVE OneGenerationPerStory'
  <2>1. CASE LeadFollowup(t)
    BY <1>4, <2>1, KeyTaken DEF LeadFollowup, Follow, At
  <2>2. CASE ~ LeadFollowup(t)
    <3>1. PICK to \in {"wait", "over"} : Go(t, to) /\ UNCHANGED table
      BY <1>4, <2>2 DEF ShareFollowup, ShareForced, GiveUp, Follow, End, Answer
    <3> QED
      BY <1>4, <3>1, KeyKept DEF Follow, At
  <2> QED
    BY <2>1, <2>2
<1>5. ASSUME NEW t \in Threads,
             TakeSlot(t) \/ Quota(t) \/ Fetch(t) \/ Reread(t) \/ CheckCache(t) \/ CallLlm(t) \/ Raise(t)
      PROVE  OneGenerationPerStory'
  <2>1. PICK to \in Leading : Go(t, to)
    BY <1>5 DEF TakeSlot, Quota, Fetch, Reread, CheckCache, CallLlm, Generated, Half, LlmFails,
       Raise, Answer
  <2> QED
    BY <1>5, <2>1, KeyKept DEF TakeSlot, Quota, Fetch, Reread, CheckCache, CallLlm, Raise, At,
       flights, request
<1>6. ASSUME NEW t \in Threads, Land(t) PROVE OneGenerationPerStory'
  BY <1>6 DEF Land, At, Go, request, Typed, TypeOK, Placed, OneGenerationPerStory, Flights
<1>7. ASSUME NEW t \in Threads, Announce(t) \/ Teardown(t) PROVE OneGenerationPerStory'
  <2>1. PICK to \in {"teardown", "over"} : Go(t, to)
    BY <1>7 DEF Announce, Teardown, End, Answer
  <2> QED
    BY <1>7, <2>1, KeyKept DEF Announce, Teardown, At, flights, request
<1>8. ASSUME NEW t \in Prefetches, SkipCached(t) PROVE OneGenerationPerStory'
  <2>1. PICK to \in {"join", "over"} : Go(t, to)
    BY <1>8 DEF SkipCached, End, Answer
  <2> QED
    BY <1>8, <2>1, KeyKept DEF SkipCached, At, flights
<1>9. ASSUME NEW t \in Prefetches, TryLead(t) PROVE OneGenerationPerStory'
  <2>1. CASE table[story[t]] = NoFlight
    BY <1>9, <2>1, KeyTaken DEF TryLead, At
  <2>2. CASE table[story[t]] # NoFlight
    BY <1>9, <2>2, KeyKept DEF TryLead, At, End, Answer
  <2> QED
    BY <2>1, <2>2
<1>10. ASSUME Grow \/ Prewarm \/ Thaw \/ UNCHANGED vars PROVE OneGenerationPerStory'
  BY <1>10 DEF Grow, Prewarm, Thaw, vars, request, flights, OneGenerationPerStory
<1> QED
  BY <1>1, <1>2, <1>3, <1>4, <1>5, <1>6, <1>7, <1>8, <1>9, <1>10
     DEF Next, Tap, Prefetch, TapStep, PrefetchStep

-----------------------------------------------------------------------------
(***************************************************************************)
(* Every slot is given back.                                               *)
(***************************************************************************)

Holding == (Leading \ {"slot"}) \union {"announce", "teardown"}

\* Whoever holds a slot took it and did not give it back yet.
SlotsHeld ==
  /\ IsFiniteSet(hasSlot)
  /\ slots = Cardinality(hasSlot)
  /\ \A t \in hasSlot : pc[t] \in Holding

LEMMA SlotsKept ==
  ASSUME Typed, SlotsHeld, NEW t \in Threads, NEW to, Go(t, to),
         pc[t] \in Holding => to \in Holding, UNCHANGED <<slots, hasSlot>>
  PROVE  SlotsHeld'
BY Constants DEF Typed, TypeOK, SlotsHeld, Go

LEMMA TakeSlotHeld == ASSUME Typed, SlotsHeld, NEW t \in Taps, TakeSlot(t) PROVE SlotsHeld'
<1>1. CASE slots < Slots
  <2>1. t \notin hasSlot /\ hasSlot' = hasSlot \union {t} /\ slots' = slots + 1 /\ Go(t, "quota")
    BY <1>1, Constants DEF TakeSlot, At, SlotsHeld, Holding, Leading, Typed, TypeOK
  <2>2. IsFiniteSet(hasSlot') /\ Cardinality(hasSlot') = Cardinality(hasSlot) + 1
    BY <2>1, FS_AddElement DEF SlotsHeld
  <2>3. \A u \in hasSlot' : pc'[u] \in Holding
    BY <2>1, Constants DEF SlotsHeld, Go, Holding, Leading, Typed, TypeOK
  <2> QED
    BY <2>1, <2>2, <2>3 DEF SlotsHeld
<1>2. CASE slots >= Slots
  BY <1>2, SlotsKept, Constants DEF TakeSlot, Answer, At, Holding, Leading, Typed, TypeOK
<1> QED
  BY <1>1, <1>2 DEF TakeSlot

LEMMA TeardownHeld == ASSUME Typed, SlotsHeld, NEW t \in Threads, Teardown(t) PROVE SlotsHeld'
<1>0. Go(t, "over") /\ hasSlot' = hasSlot \ {t}
  BY DEF Teardown, End, Answer
<1>1. \A u \in hasSlot' : pc'[u] \in Holding
  BY <1>0, Constants DEF SlotsHeld, Go, Typed, TypeOK
<1>2. CASE t \in hasSlot
  <2>1. IsFiniteSet(hasSlot') /\ Cardinality(hasSlot') = Cardinality(hasSlot) - 1
        /\ Cardinality(hasSlot) \in Nat /\ Cardinality(hasSlot') \in Nat
    BY <1>0, <1>2, FS_RemoveElement, FS_CardinalityType DEF SlotsHeld
  <2> QED
    BY <1>1, <1>2, <2>1 DEF SlotsHeld, Teardown
<1>3. CASE t \notin hasSlot
  <2>1. hasSlot' = hasSlot /\ slots' = slots
    BY <1>0, <1>3 DEF Teardown
  <2> QED
    BY <1>1, <2>1 DEF SlotsHeld
<1> QED
  BY <1>2, <1>3

LEMMA StepSlots == ASSUME Typed, SlotsHeld, [Next]_vars PROVE SlotsHeld'
<1> USE Constants DEF Holding, Leading
<1>1. ASSUME NEW t \in Threads, NEW s \in Stories, NEW force \in BOOLEAN, Start(t, s, force)
      PROVE  SlotsHeld'
  BY <1>1, SlotsKept DEF Start, At
<1>2. ASSUME NEW t \in Threads,
             Gates(t) \/ Join(t) \/ Woken(t) \/ TimedOut(t) \/ Follow(t) \/ SkipCached(t) \/ TryLead(t)
      PROVE  SlotsHeld'
  <2>1. \E to : Go(t, to)
    BY <1>2 DEF Gates, ServeCached, CoolDown, NoSession, GoOn, Join, Woken, TimedOut, Waited,
       Follow, ShareFollowup, ShareForced, GiveUp, LeadFollowup, SkipCached, TryLead, End, Answer
  <2> QED
    BY <1>2, <2>1, SlotsKept DEF Gates, Join, Woken, TimedOut, Waited, Follow, SkipCached, TryLead, At
<1>3. ASSUME NEW t \in Threads,
             Quota(t) \/ Fetch(t) \/ Reread(t) \/ CheckCache(t) \/ CallLlm(t) \/ Raise(t)
               \/ Land(t) \/ Announce(t)
      PROVE  SlotsHeld'
  <2>1. PICK to \in Holding : Go(t, to)
    BY <1>3 DEF Quota, Fetch, Reread, CheckCache, CallLlm, Generated, Half, LlmFails,
       Raise, Land, Announce, Answer
  <2> QED
    BY <1>3, <2>1, SlotsKept DEF Quota, Fetch, Reread, CheckCache, CallLlm, Raise, Land, Announce
<1>4. ASSUME Grow \/ Prewarm \/ Thaw \/ UNCHANGED vars PROVE SlotsHeld'
  BY <1>4 DEF Grow, Prewarm, Thaw, vars, SlotsHeld
<1> QED
  BY <1>1, <1>2, <1>3, <1>4, TakeSlotHeld, TeardownHeld
     DEF Next, Tap, Prefetch, TapStep, PrefetchStep

-----------------------------------------------------------------------------
(***************************************************************************)
(* Whoever waits is woken.                                                 *)
(***************************************************************************)

\* Flight f landed or has a leader that will.
Flew(f) == pc[f] \in Leading \union {"announce"} \/ f \in landed

\* A thread joins a flight of its story that some thread leads.
JoinedFlew(t) ==
  joined[t] # NoFlight =>
    /\ pc[t] \notin {"idle", "gates", "join"}
    /\ Flew(joined[t])
    /\ story[joined[t]] = story[t]

\* It waits for that flight or for the one that followed.
WaitsForItsOwn(t) ==
  /\ pc[t] = "follow" => forced[t] /\ ~forced[joined[t]]
  /\ pc[t] = "wait" => /\ flight[t] # NoFlight
                       /\ Flew(flight[t])
                       /\ flight[t] \in {joined[t], followup[joined[t]]}

\* A flight is followed, by a forced one of its story, once it is off the table.
FollowsLanded(j) ==
  followup[j] # NoFlight =>
    /\ Flew(j)
    /\ pc[j] \notin Leading
    /\ Flew(followup[j])
    /\ forced[followup[j]]
    /\ story[followup[j]] = story[j]

FlightsInOrder ==
  /\ \A f \in landed : pc[f] \in {"teardown", "over"}
  /\ \A t \in Threads : JoinedFlew(t) /\ WaitsForItsOwn(t) /\ FollowsLanded(t)

LEMMA FlightsKept ==
  ASSUME Typed, FlightsInOrder, NEW t \in Threads, NEW to, Go(t, to),
         pc[t] # "idle",
         pc[t] \in Leading => to \in Leading \union {"announce"},
         pc[t] # "announce",
         pc[t] \in {"teardown", "over"} => to = "over",
         to \in Leading \union {"announce", "over"} \/ (to = "join" /\ pc[t] = "gates"),
         UNCHANGED <<story, forced, flight, joined, landed, followup>>
  PROVE  FlightsInOrder'
<1> USE Constants DEF Leading, Go, Typed, TypeOK, Placed, Flights, Flew
<1>1. \A f \in Threads : Flew(f) => Flew(f)'
  BY DEF FlightsInOrder
<1>2. \A f \in landed' : pc'[f] \in {"teardown", "over"}
  BY DEF FlightsInOrder
<1>3. ASSUME NEW u \in Threads PROVE JoinedFlew(u)'
  BY <1>1 DEF FlightsInOrder, JoinedFlew
<1>4. ASSUME NEW u \in Threads PROVE WaitsForItsOwn(u)'
  BY <1>1 DEF FlightsInOrder, WaitsForItsOwn
<1>5. ASSUME NEW u \in Threads PROVE FollowsLanded(u)'
  BY <1>1 DEF FlightsInOrder, FollowsLanded
<1> QED
  BY <1>2, <1>3, <1>4, <1>5 DEF FlightsInOrder

\* Any step of a thread that sets its flights anew: what is left to show is
\* that its own flights are in order.
LEMMA FlightsChanged ==
  ASSUME Typed, Typed', FlightsInOrder, NEW t \in Threads, NEW to, Go(t, to),
         pc[t] \notin {"teardown", "over"}, pc[t] \notin Leading,
         to \in Leading \union {"gates", "wait", "follow", "teardown"},
         pc[t] = "announce" <=> to = "teardown",
         to = "teardown" => t \in landed', landed \subseteq landed', landed' \subseteq landed \union {t},
         t \in landed' => to = "teardown",
         \A u \in Threads \ {t} : /\ story'[u] = story[u] /\ forced'[u] = forced[u]
                                  /\ flight'[u] = flight[u] /\ joined'[u] = joined[u],
         pc[t] # "idle" => story'[t] = story[t] /\ forced'[t] = forced[t],
         \A j \in Threads : followup'[j] # followup[j] => followup[j] = NoFlight /\ FollowsLanded(j)',
         JoinedFlew(t)', WaitsForItsOwn(t)'
  PROVE  FlightsInOrder'
<1> USE Constants DEF Leading, Go, Typed, TypeOK, Placed, Flights, Flew
<1>1. \A f \in Threads : Flew(f) => Flew(f)'
  BY DEF FlightsInOrder
<1>2. \A f \in landed' : pc'[f] \in {"teardown", "over"}
  BY DEF FlightsInOrder
<1>3. ASSUME NEW u \in Threads PROVE JoinedFlew(u)'
  BY <1>1 DEF FlightsInOrder, JoinedFlew
<1>5. ASSUME NEW u \in Threads PROVE FollowsLanded(u)'
  BY <1>1 DEF FlightsInOrder, FollowsLanded
<1>4. ASSUME NEW u \in Threads PROVE WaitsForItsOwn(u)'
  <2>1. CASE u = t
    BY <2>1
  <2>2. CASE u # t
    <3>1. pc'[u] = pc[u] /\ joined'[u] = joined[u] /\ flight'[u] = flight[u]
      BY <2>2
    <3>2. pc[u] = "follow" => forced'[u] /\ ~forced'[joined[u]]
      BY <2>2 DEF FlightsInOrder, WaitsForItsOwn, JoinedFlew
    <3>3. pc[u] = "wait" => flight[u] \in {joined[u], followup'[joined[u]]}
      BY DEF FlightsInOrder, WaitsForItsOwn
    <3> QED
      BY <1>1, <3>1, <3>2, <3>3 DEF FlightsInOrder, WaitsForItsOwn
  <2> QED
    BY <2>1, <2>2
<1> QED
  BY <1>2, <1>3, <1>4, <1>5 DEF FlightsInOrder

LEMMA StartFlights ==
  ASSUME Typed, Typed', FlightsInOrder, NEW t \in Threads, NEW s \in Stories,
         NEW force \in BOOLEAN, Start(t, s, force)
  PROVE  FlightsInOrder'
<1>1. joined[t] = NoFlight /\ t \notin landed
  BY DEF FlightsInOrder, JoinedFlew, Start, At
<1>2. JoinedFlew(t)' /\ WaitsForItsOwn(t)'
  BY <1>1 DEF JoinedFlew, WaitsForItsOwn, Start, Go, mine, Typed, TypeOK
<1> QED
  BY <1>1, <1>2, FlightsChanged DEF Start, At, Go, flights, mine, Leading, Typed, TypeOK

LEMMA JoinFlights ==
  ASSUME Typed, Typed', OneGenerationPerStory, FlightsInOrder, NEW t \in Taps, Join(t)
  PROVE  FlightsInOrder'
<1> USE Constants
<1>1. /\ t \in Threads /\ pc[t] = "join" /\ joined[t] = NoFlight /\ t \notin landed
      /\ story[t] \in Stories
  BY DEF FlightsInOrder, JoinedFlew, Join, At, Typed, Placed
<1>2. CASE table[story[t]] = NoFlight
  <2>1. JoinedFlew(t)' /\ WaitsForItsOwn(t)'
    BY <1>1, <1>2 DEF JoinedFlew, WaitsForItsOwn, Join, Go, Typed, TypeOK
  <2> QED
    BY <1>1, <1>2, <2>1, FlightsChanged DEF Join, Leading, request, Typed, TypeOK
<1>3. CASE table[story[t]] # NoFlight
  <2> DEFINE f == table[story[t]]
  <2>1. f \in Threads /\ f # t /\ pc[f] \in Leading /\ story[f] = story[t]
    BY <1>1, <1>3 DEF OneGenerationPerStory, Leading, Typed, TypeOK, Flights
  <2>2. pc'[f] = pc[f] /\ pc'[t] = "wait" /\ joined'[t] = f /\ flight'[t] = f /\ UNCHANGED story
    BY <1>1, <1>3, <2>1 DEF Join, Go, request, Typed, TypeOK
  <2>3. JoinedFlew(t)' /\ WaitsForItsOwn(t)'
    BY <2>1, <2>2 DEF JoinedFlew, WaitsForItsOwn, Flew
  <2> QED
    BY <1>1, <1>3, <2>3, FlightsChanged DEF Join, Leading, request, Typed, TypeOK
<1> QED
  BY <1>2, <1>3

LEMMA WaitedFlights ==
  ASSUME Typed, Typed', FlightsInOrder, NEW t \in Taps, NEW result, Waited(t, result)
  PROVE  FlightsInOrder'
<1> USE Constants
<1>1. /\ t \in Threads /\ pc[t] = "wait" /\ joined[t] \in Threads /\ t \notin landed
  BY DEF FlightsInOrder, Waited, At, Typed, TypeOK, Placed, Flights
<1>2. CASE Go(t, "over")
  BY <1>1, <1>2, FlightsKept DEF Waited, flights, mine, Leading
<1>3. CASE Go(t, "follow") /\ forced[t] /\ ~forced[flight[t]]
  <2>1. flight[t] = joined[t]
    BY <1>1, <1>3 DEF FlightsInOrder, WaitsForItsOwn, FollowsLanded
  <2>2. UNCHANGED <<landed, followup, story, forced, flight, joined>>
    BY DEF Waited, flights, mine
  <2>3. JoinedFlew(t)' /\ WaitsForItsOwn(t)'
    <3>1. Flew(joined[t])' /\ story[joined[t]] = story[t] /\ pc'[t] = "follow"
      BY <1>1, <1>3, <2>2 DEF FlightsInOrder, JoinedFlew, Flew, Go, Leading, Typed, TypeOK
    <3> QED
      BY <1>3, <2>1, <2>2, <3>1 DEF JoinedFlew, WaitsForItsOwn, Flew
  <2> QED
    BY <1>1, <1>3, <2>2, <2>3, FlightsChanged DEF Leading
<1> QED
  BY <1>2, <1>3 DEF Waited, End, Answer

LEMMA FollowFlights ==
  ASSUME Typed, Typed', OneGenerationPerStory, FlightsInOrder, NEW t \in Taps, Follow(t)
  PROVE  FlightsInOrder'
<1> USE Constants
<1>0. PICK j, current : j = joined[t] /\ current = table[story[t]]
  OBVIOUS
<1>1. /\ t \in Threads /\ pc[t] = "follow" /\ j \in Threads /\ t \notin landed /\ j # t
      /\ Flew(j) /\ story[j] = story[t] /\ forced[t] /\ ~forced[j] /\ story[t] \in Stories
  BY <1>0 DEF FlightsInOrder, JoinedFlew, WaitsForItsOwn, Follow, At, Typed, TypeOK, Placed, Flights
<1>2. UNCHANGED <<landed, story, forced, joined>> /\ joined'[t] = j
  BY <1>0 DEF Follow
<1>3. ASSUME NEW f \in Threads, Flew(f), f # t, NEW to, Go(t, to)
      PROVE  Flew(f)'
  BY <1>1, <1>2, <1>3 DEF Flew, Go, Typed, TypeOK
<1>4. CASE GiveUp(t)
  BY <1>1, <1>2, <1>4, FlightsKept DEF GiveUp, End, Answer, Leading
<1>5. CASE ShareFollowup(t)
  <2>0. PICK f : f = followup[j]
    OBVIOUS
  <2>1. f \in Threads /\ Flew(f) /\ f # t /\ forced[f]
    BY <1>0, <1>1, <1>5, <2>0 DEF ShareFollowup, FlightsInOrder, FollowsLanded, Flew, Leading, Typed, TypeOK, Flights
  <2>2. JoinedFlew(t)' /\ WaitsForItsOwn(t)'
    <3>1. /\ Go(t, "wait") /\ flight'[t] = f /\ followup' = followup /\ pc'[t] = "wait"
      BY <1>0, <1>1, <1>5, <2>0 DEF ShareFollowup, Go, Typed, TypeOK
    <3>2. Flew(f)' /\ Flew(j)'
      BY <1>1, <1>3, <2>1, <3>1
    <3> QED
      BY <1>1, <1>2, <2>0, <2>1, <3>1, <3>2 DEF JoinedFlew, WaitsForItsOwn, Flew
  <2> QED
    BY <1>1, <1>2, <1>5, <2>2, FlightsChanged DEF ShareFollowup, Leading, Typed, TypeOK
<1>6. ASSUME NEW f \in Threads, NEW to \in {"wait", "slot"}, Go(t, to),
             followup' = [followup EXCEPT ![j] = f], flight' = [flight EXCEPT ![t] = f],
             followup[j] = NoFlight, forced[f], Flew(f)', current # j, story[f] = story[j]
      PROVE  FlightsInOrder'
  <2>0. Flew(j)'
    BY <1>1, <1>3, <1>6
  <2>1. Flew(j)' /\ pc'[t] = to /\ followup'[j] = f /\ flight'[t] = f
    BY <1>1, <1>6, <2>0 DEF Typed, TypeOK, Go
  <2>2. pc[j] \notin Leading /\ pc'[j] = pc[j]
    BY <1>0, <1>1, <1>6 DEF OneGenerationPerStory, Go, Typed, TypeOK
  <2>3. FollowsLanded(j)'
    BY <1>2, <1>6, <2>1, <2>2 DEF FollowsLanded, Flew
  <2>4. JoinedFlew(t)' /\ WaitsForItsOwn(t)'
    BY <1>1, <1>2, <1>6, <2>1 DEF JoinedFlew, WaitsForItsOwn, Flew
  <2>5. \A k \in Threads : followup'[k] # followup[k] => followup[k] = NoFlight /\ FollowsLanded(k)'
    BY <1>1, <1>6, <2>3 DEF Typed, TypeOK
  <2> QED
    BY <1>1, <1>2, <1>6, <2>4, <2>5, FlightsChanged DEF Leading, Typed, TypeOK
<1>7. CASE ShareForced(t)
  <2>1. /\ current \in Threads /\ pc[current] \in Leading /\ forced[current]
        /\ current # j /\ current # t /\ story[current] = story[j]
    BY <1>0, <1>1, <1>7 DEF ShareForced, OneGenerationPerStory, Leading, Typed, TypeOK, Flights
  <2>2. Flew(current)' /\ Go(t, "wait")
    BY <1>3, <1>7, <2>1 DEF ShareForced, Flew, Leading
  <2> QED
    BY <1>0, <1>6, <1>7, <2>1, <2>2 DEF ShareForced
<1>8. CASE LeadFollowup(t)
  <2>1. Flew(t)' /\ Go(t, "slot") /\ current # j
    BY <1>0, <1>1, <1>8 DEF LeadFollowup, Flew, Go, Leading, Typed, TypeOK
  <2> QED
    BY <1>0, <1>1, <1>6, <1>8, <2>1 DEF LeadFollowup
<1> QED
  BY <1>4, <1>5, <1>7, <1>8 DEF Follow

LEMMA AnnounceFlights ==
  ASSUME Typed, Typed', FlightsInOrder, NEW t \in Threads, Announce(t)
  PROVE  FlightsInOrder'
<1>1. /\ Go(t, "teardown") /\ pc[t] = "announce" /\ pc'[t] = "teardown" /\ t \in landed'
      /\ landed' = landed \union {t} /\ UNCHANGED <<story, forced, flight, joined, followup>>
  BY DEF Announce, At, Go, request, mine, Typed, TypeOK
<1>2. JoinedFlew(t)'
  BY <1>1, Constants DEF FlightsInOrder, JoinedFlew, Flew, Go, Leading, Typed, TypeOK, Flights
<1>3. WaitsForItsOwn(t)'
  BY <1>1 DEF WaitsForItsOwn
<1> QED
  BY <1>1, <1>2, <1>3, FlightsChanged DEF Leading

LEMMA StepFlights ==
  ASSUME Typed, Typed', OneGenerationPerStory, FlightsInOrder, [Next]_vars
  PROVE  FlightsInOrder'
<1> USE Constants DEF Leading
<1>1. ASSUME NEW t \in Threads, Gates(t) \/ SkipCached(t) \/ TryLead(t)
      PROVE  FlightsInOrder'
  <2>1. \E to \in {"join", "reread", "over"} : Go(t, to) /\ (to = "join" => pc[t] = "gates")
    BY <1>1 DEF Gates, ServeCached, CoolDown, NoSession, GoOn, SkipCached, TryLead, At, End, Answer
  <2> QED
    BY <1>1, <2>1, FlightsKept DEF Gates, SkipCached, TryLead, At, flights, mine
<1>2. ASSUME NEW t \in Threads,
             TakeSlot(t) \/ Quota(t) \/ Fetch(t) \/ Reread(t) \/ CheckCache(t) \/ CallLlm(t)
               \/ Raise(t) \/ Land(t)
      PROVE  FlightsInOrder'
  <2>1. PICK to \in Leading \union {"announce"} : Go(t, to)
    BY <1>2 DEF TakeSlot, Quota, Fetch, Reread, CheckCache, CallLlm, Generated, Half, LlmFails,
       Raise, Land, Answer
  <2> QED
    BY <1>2, <2>1, FlightsKept DEF TakeSlot, Quota, Fetch, Reread, CheckCache, CallLlm, Raise,
       Land, At, flights, mine, request
<1>3. ASSUME NEW t \in Threads, Teardown(t) PROVE FlightsInOrder'
  BY <1>3, FlightsKept DEF Teardown, End, Answer, At, flights, mine
<1>4. ASSUME Grow \/ Prewarm \/ Thaw \/ UNCHANGED vars PROVE FlightsInOrder'
  BY <1>4 DEF Grow, Prewarm, Thaw, vars, flights, mine, request, FlightsInOrder, JoinedFlew,
     WaitsForItsOwn, FollowsLanded, Flew
<1> QED
  BY <1>1, <1>2, <1>3, <1>4, StartFlights, JoinFlights, WaitedFlights, FollowFlights,
     AnnounceFlights DEF Next, Tap, Prefetch, TapStep, PrefetchStep, Woken, TimedOut

-----------------------------------------------------------------------------
(***************************************************************************)
(* Texts and summaries.                                                    *)
(***************************************************************************)

\* What a thread has is not ahead of what the table has had, nor that of the
\* source.  A prefetch that led when the row was at its newest has a text no
\* older than the cached summary's.
CopyInOrder(t) ==
  /\ pc[t] # "idle" => text[t] <= newest[story[t]] /\ asked[t] <= live[story[t]]
  /\ t \in Prefetches \ misled /\ pc[t] \in {"check", "llm"} => cache[story[t]] <= text[t]

TextsInOrder ==
  /\ \A s \in Stories : cache[s] <= newest[s] /\ row[s] <= newest[s] /\ newest[s] <= live[s]
  /\ \A t \in Threads : CopyInOrder(t)

\* Versions are numbers.
LEMMA Numbers ==
  ASSUME Typed
  PROVE  /\ live \in [Stories -> Nat] /\ row \in [Stories -> Nat] /\ cache \in [Stories -> Nat]
         /\ text \in [Threads -> Nat] /\ asked \in [Threads -> Nat] /\ fetched \in [Threads -> Nat]
         /\ newest \in [Stories -> Nat]
<1>1. Versions \subseteq Nat /\ Versions \union {NoText} \subseteq Nat
  BY Constants
<1> QED
  BY <1>1 DEF Typed, TypeOK

LEMMA NumbersNext ==
  ASSUME Typed'
  PROVE  /\ live' \in [Stories -> Nat] /\ row' \in [Stories -> Nat] /\ cache' \in [Stories -> Nat]
         /\ text' \in [Threads -> Nat] /\ asked' \in [Threads -> Nat] /\ fetched' \in [Threads -> Nat]
         /\ newest' \in [Stories -> Nat]
<1>1. Versions \subseteq Nat /\ Versions \union {NoText} \subseteq Nat
  BY Constants
<1> QED
  BY <1>1 DEF Typed, TypeOK

LEMMA Labels == ASSUME Typed PROVE DOMAIN pc = Threads /\ pc = [u \in Threads |-> pc[u]]
BY DEF Typed, TypeOK

\* A thread goes on with its text, or ends without.
LEMMA TextsKept ==
  ASSUME Typed, Typed', TextsInOrder, NEW t \in Threads, NEW to, Go(t, to),
         pc[t] # "idle", t \in Prefetches /\ to \in {"check", "llm"} => pc[t] = "check",
         UNCHANGED <<live, row, cache, story, asked, newest, misled>>,
         text' = text \/ (text' = [text EXCEPT ![t] = NoText] /\ to = "over")
  PROVE  TextsInOrder'
<1> USE Constants, Numbers, Labels
<1>1. ASSUME NEW u \in Threads PROVE CopyInOrder(u)'
  BY DEF Typed, Placed, TextsInOrder, CopyInOrder, Go
<1> QED
  BY <1>1 DEF TextsInOrder

LEMMA StartTexts ==
  ASSUME Typed, Typed', TextsInOrder, NEW t \in Threads, NEW s \in Stories,
         NEW force \in BOOLEAN, Start(t, s, force)
  PROVE  TextsInOrder'
<1> USE Constants, Numbers, Labels
<1>1. ASSUME NEW u \in Threads PROVE CopyInOrder(u)'
  <2>1. CASE u = t
    <3>1. /\ pc'[t] = "gates" /\ text'[t] = row[s] /\ story'[t] = s /\ UNCHANGED <<newest, live>>
          /\ row[s] <= newest[s]
          /\ asked'[t] = IF force THEN live[s] ELSE 0
      BY DEF Start, Go, stored, Typed, TypeOK, NoText, TextsInOrder
    <3> QED
      BY <2>1, <3>1 DEF CopyInOrder
  <2>2. CASE u # t
    BY <2>2 DEF Typed, Placed, TextsInOrder, CopyInOrder, Start, Go, At, stored
  <2> QED
    BY <2>1, <2>2
<1> QED
  BY <1>1 DEF TextsInOrder, Start, stored

LEMMA FetchTexts == ASSUME Typed, Typed', TextsInOrder, NEW t \in Taps, Fetch(t) PROVE TextsInOrder'
<1> USE Constants, Numbers, Labels, ThreadsAssumption
<1>0. t \in Threads /\ story[t] \in Stories /\ t \notin Prefetches
  BY DEF Fetch, At, Typed, Placed
<1>1. CASE UNCHANGED <<row, text, newest>>
  <2>1. PICK to \in {"check", "land"} : Go(t, to)
    BY DEF Fetch, Answer
  <2> QED
    BY <1>0, <1>1, <2>1, TextsKept DEF Fetch, At, request
<1>2. CASE /\ row' = [row EXCEPT ![story[t]] = live[story[t]]]
           /\ newest' = [newest EXCEPT ![story[t]] = live[story[t]]]
           /\ text' = [text EXCEPT ![t] = live[story[t]]]
           /\ Go(t, "check")
  <2>1. UNCHANGED <<live, cache, asked, story, misled>>
    BY DEF Fetch, request
  <2>2. \A s \in Stories : /\ cache[s] <= newest'[s] /\ newest[s] <= newest'[s]
                          /\ row'[s] <= newest'[s] /\ newest'[s] <= live[s]
    BY <1>0, <1>2 DEF TextsInOrder
  <2>3. ASSUME NEW u \in Threads PROVE CopyInOrder(u)'
    BY <1>0, <1>2, <2>1, <2>2 DEF Typed, Placed, TextsInOrder, CopyInOrder, Go, Fetch, At
  <2> QED
    BY <2>1, <2>2, <2>3 DEF TextsInOrder
<1> QED
  BY <1>1, <1>2 DEF Fetch

LEMMA RereadTexts == ASSUME Typed, Typed', TextsInOrder, NEW t \in Prefetches, Reread(t) PROVE TextsInOrder'
<1> USE Constants, Numbers, Labels
<1>1. ASSUME NEW u \in Threads PROVE CopyInOrder(u)'
  BY DEF Typed, Placed, TextsInOrder, CopyInOrder, Reread, Go, At, stored, request, history
<1> QED
  BY <1>1 DEF TextsInOrder, Reread, stored

\* The cached summary of a story is replaced by its only leader.
LEMMA CallLlmTexts ==
  ASSUME Typed, Typed', OneGenerationPerStory, TextsInOrder, NEW t \in Threads, CallLlm(t)
  PROVE  TextsInOrder'
<1> USE Constants, Numbers, Labels
<1>0. Go(t, "land") /\ story[t] \in Stories /\ UNCHANGED <<live, row, story, asked, text, newest, misled>>
  BY DEF CallLlm, At, Generated, Half, LlmFails, Answer, Typed, Placed, request, history
<1>1. CASE UNCHANGED cache
  BY <1>0, <1>1, TextsKept DEF CallLlm, At
<1>2. CASE cache' = [cache EXCEPT ![story[t]] = text[t]]
  <2>1. \A s \in Stories : cache'[s] <= newest[s]
    BY <1>0, <1>2 DEF TextsInOrder, CopyInOrder, Typed, TypeOK, CallLlm, At
  <2>2. ASSUME NEW u \in Threads PROVE CopyInOrder(u)'
    <3>1. u # t /\ pc[u] \in {"check", "llm"} => story[u] # story[t]
      BY <1>0 DEF OneGenerationPerStory, Leading, CallLlm, At
    <3>2. pc'[t] = "land" /\ (u # t => pc'[u] = pc[u])
      BY <1>0 DEF Go
    <3>3. pc[u] # "idle" => story[u] \in Stories
      BY DEF Typed, Placed
    <3>4. u # t /\ pc[u] \in {"check", "llm"} => cache'[story[u]] = cache[story[u]]
      BY <1>2, <3>1, <3>3
    <3>5. u = t => pc[u] = "llm"
      BY DEF CallLlm, At
    <3> QED
      BY <1>0, <3>2, <3>4, <3>5 DEF TextsInOrder, CopyInOrder
  <2> QED
    BY <1>0, <2>1, <2>2 DEF TextsInOrder
<1> QED
  BY <1>1, <1>2 DEF CallLlm, Generated, Half, LlmFails

LEMMA SourceTexts ==
  ASSUME Typed, Typed', TextsInOrder, Grow \/ Prewarm \/ Thaw \/ UNCHANGED vars
  PROVE  TextsInOrder'
<1> USE Constants, Numbers, Labels
<1>1. UNCHANGED <<cache, pc, story, asked, text, misled>>
  BY DEF Grow, Prewarm, Thaw, vars, stored, request, history
<1>2. \A s \in Stories : /\ live[s] <= live'[s] /\ newest[s] <= newest'[s]
                        /\ row'[s] <= newest'[s] /\ newest'[s] <= live'[s]
  <2>1. CASE Grow
    BY <2>1 DEF Grow, TextsInOrder, history
  <2>2. CASE Prewarm
    BY <2>2 DEF Prewarm, TextsInOrder
  <2> QED
    BY <2>1, <2>2 DEF Thaw, vars, stored, history, TextsInOrder
<1>3. ASSUME NEW u \in Threads PROVE CopyInOrder(u)'
  <2>1. pc[u] # "idle" => /\ newest[story[u]] <= newest'[story[u]] /\ live[story[u]] <= live'[story[u]]
                          /\ story[u] \in Stories
    BY <1>2 DEF Typed, Placed
  <2> QED
    BY <1>1, <2>1, NumbersNext DEF TextsInOrder, CopyInOrder
<1> QED
  <2>1. \A s \in Stories : cache[s] <= newest'[s]
    BY <1>2, NumbersNext DEF TextsInOrder
  <2> QED
    BY <1>1, <1>2, <1>3, <2>1 DEF TextsInOrder

LEMMA StepTexts ==
  ASSUME Typed, Typed', OneGenerationPerStory, TextsInOrder, [Next]_vars
  PROVE  TextsInOrder'
<1> USE Constants, ThreadsAssumption
<1>1. ASSUME NEW t \in Taps,
             Gates(t) \/ Join(t) \/ Woken(t) \/ TimedOut(t) \/ Follow(t) \/ TakeSlot(t) \/ Quota(t)
      PROVE  TextsInOrder'
  <2>1. /\ \E to : Go(t, to) /\ (text' = text \/ (text' = [text EXCEPT ![t] = NoText] /\ to = "over"))
        /\ UNCHANGED <<live, row, cache, story, asked, newest, misled>>
    <3>1. CASE Gates(t)
      BY <3>1 DEF Gates, ServeCached, CoolDown, NoSession, GoOn, End, Answer, stored, history
    <3>2. CASE Woken(t) \/ TimedOut(t)
      BY <3>2 DEF Woken, TimedOut, Waited, End, Answer, stored, history
    <3>3. CASE Follow(t)
      BY <3>3 DEF Follow, ShareFollowup, ShareForced, GiveUp, LeadFollowup, End, Answer, stored, history
    <3>4. CASE Join(t) \/ TakeSlot(t) \/ Quota(t)
      BY <3>4 DEF Join, TakeSlot, Quota, Answer, stored, history, request
    <3> QED
      BY <1>1, <3>1, <3>2, <3>3, <3>4
  <2>2. pc[t] # "idle" /\ t \notin Prefetches
    BY <1>1 DEF Gates, Join, Woken, TimedOut, Waited, Follow, TakeSlot, Quota, At
  <2> QED
    BY <2>1, <2>2, TextsKept
<1>2. ASSUME NEW t \in Threads,
             SkipCached(t) \/ TryLead(t) \/ CheckCache(t) \/ Raise(t) \/ Land(t) \/ Announce(t) \/ Teardown(t)
      PROVE  TextsInOrder'
  <2>1. PICK to : /\ Go(t, to) /\ (text' = text \/ (text' = [text EXCEPT ![t] = NoText] /\ to = "over"))
                  /\ pc[t] # "idle" /\ (to \in {"check", "llm"} => pc[t] = "check")
                  /\ UNCHANGED <<live, row, cache, story, asked, newest, misled>>
    <3>1. CASE SkipCached(t) \/ TryLead(t)
      BY <3>1 DEF SkipCached, TryLead, End, Answer, At, stored, history
    <3>2. CASE CheckCache(t) \/ Raise(t) \/ Land(t) \/ Announce(t) \/ Teardown(t)
      BY <3>2 DEF CheckCache, Raise, Land, Announce, Teardown, End, Answer, At, Leading, stored,
         history, request
    <3> QED
      BY <1>2, <3>1, <3>2
  <2> QED
    BY <2>1, TextsKept
<1> QED
  BY <1>1, <1>2, StartTexts, FetchTexts, RereadTexts, CallLlmTexts, SourceTexts
     DEF Next, Tap, Prefetch, TapStep, PrefetchStep

-----------------------------------------------------------------------------
(***************************************************************************)
(* A forced tap's reply is fresh.                                          *)
(***************************************************************************)

Fetched == {"check", "llm", "land", "announce", "teardown", "over"}

\* A thread fetches once, and a forced one before it generates.
FetchInOrder(t) ==
  /\ fetched[t] # NoText => pc[t] \in Fetched
  /\ forced[t] /\ pc[t] \in {"check", "llm"} => fetched[t] # NoText /\ fetched[t] >= asked[t]

Fetches == \A t \in Threads : FetchInOrder(t)

LEMMA FetchesKept ==
  ASSUME Typed, Typed', Fetches, NEW t \in Threads, NEW to, Go(t, to),
         pc[t] # "idle", pc[t] \in Fetched => to \in Fetched,
         to \in {"check", "llm"} => pc[t] \in {"check", "llm"} \/ ~forced[t],
         UNCHANGED <<forced, asked, fetched>>
  PROVE  Fetches'
<1>1. ASSUME NEW u \in Threads PROVE FetchInOrder(u)'
  BY Labels, Numbers, Constants DEF Fetches, FetchInOrder, Go
<1> QED
  BY <1>1 DEF Fetches

LEMMA StepFetches ==
  ASSUME Typed, Typed', TextsInOrder, Fetches, [Next]_vars
  PROVE  Fetches'
<1> USE Constants, ThreadsAssumption DEF Fetched
<1>1. ASSUME NEW t \in Threads, NEW s \in Stories, NEW force \in BOOLEAN, Start(t, s, force)
      PROVE  Fetches'
  <2>1. ASSUME NEW u \in Threads PROVE FetchInOrder(u)'
    <3>1. UNCHANGED fetched /\ pc'[t] = "gates" /\ pc[t] = "idle"
      BY <1>1, Labels DEF Start, Go, At
    <3>2. u # t => pc'[u] = pc[u] /\ forced'[u] = forced[u] /\ asked'[u] = asked[u]
      BY <1>1, Labels DEF Start, Go, Typed, TypeOK
    <3> QED
      BY <3>1, <3>2 DEF Fetches, FetchInOrder
  <2> QED
    BY <2>1 DEF Fetches
<1>2. ASSUME NEW t \in Taps, Fetch(t) PROVE Fetches'
  <2>0. t \in Threads /\ story[t] \in Stories /\ pc[t] = "fetch" /\ UNCHANGED <<forced, asked>>
    BY <1>2 DEF Fetch, At, Typed, Placed, request
  <2>1. CASE fetched' = [fetched EXCEPT ![t] = live[story[t]]] /\ Go(t, "check")
    <3>1. live[story[t]] \in Versions /\ asked[t] <= live[story[t]]
      BY <2>0 DEF TextsInOrder, CopyInOrder, Typed, TypeOK
    <3>2. ASSUME NEW u \in Threads PROVE FetchInOrder(u)'
      <4>1. fetched'[t] = live[story[t]] /\ pc'[t] = "check"
        BY <2>0, <2>1, Numbers, Labels DEF Go
      <4>2. u # t => fetched'[u] = fetched[u] /\ pc'[u] = pc[u]
        BY <2>0, <2>1, Numbers, Labels DEF Go
      <4> QED
        BY <2>0, <3>1, <4>1, <4>2, Numbers DEF Fetches, FetchInOrder
    <3> QED
      BY <3>2 DEF Fetches
  <2>2. CASE \E to \in {"check", "land"} : /\ Go(t, to)
                                           /\ UNCHANGED fetched
                                           /\ to = "check" => ~forced[t]
    BY <2>0, <2>2, FetchesKept
  <2> QED
    BY <1>2, <2>1, <2>2 DEF Fetch, Answer
<1>3. ASSUME NEW t \in Taps,
             Gates(t) \/ Join(t) \/ Woken(t) \/ TimedOut(t) \/ Follow(t) \/ TakeSlot(t) \/ Quota(t)
      PROVE  Fetches'
  <2>1. PICK to : Go(t, to) /\ (to \in {"check", "llm"} => ~forced[t])
    <3>1. CASE Gates(t)
      BY <3>1 DEF Gates, ServeCached, CoolDown, NoSession, GoOn, End, Answer
    <3>2. CASE Woken(t) \/ TimedOut(t)
      BY <3>2 DEF Woken, TimedOut, Waited, End, Answer
    <3>3. CASE Follow(t)
      BY <3>3 DEF Follow, ShareFollowup, ShareForced, GiveUp, LeadFollowup, End, Answer
    <3>4. CASE Join(t) \/ TakeSlot(t) \/ Quota(t)
      BY <3>4 DEF Join, TakeSlot, Quota, Answer
    <3> QED
      BY <1>3, <3>1, <3>2, <3>3, <3>4
  <2>2. pc[t] # "idle" /\ pc[t] \notin Fetched /\ UNCHANGED <<forced, asked, fetched>>
    BY <1>3 DEF Gates, Join, Woken, TimedOut, Waited, Follow, TakeSlot, Quota, At, request, history
  <2> QED
    BY <2>1, <2>2, FetchesKept
<1>4. ASSUME NEW t \in Threads,
             CheckCache(t) \/ CallLlm(t) \/ Raise(t) \/ Land(t) \/ Announce(t) \/ Teardown(t)
      PROVE  Fetches'
  <2>1. \E to \in Fetched : Go(t, to) /\ pc[t] # "idle"
                            /\ (to \in {"check", "llm"} => pc[t] = "check")
                            /\ UNCHANGED <<forced, asked, fetched>>
    BY <1>4 DEF CheckCache, CallLlm, Generated, Half, LlmFails, Raise, Land, Announce, Teardown, End,
       Answer, At, Leading, history, request
  <2> QED
    BY <2>1, FetchesKept
<1>5. ASSUME NEW t \in Prefetches, SkipCached(t) \/ TryLead(t) \/ Reread(t) PROVE Fetches'
  <2>1. \E to : Go(t, to) /\ pc[t] \notin Fetched \union {"idle"}
    BY <1>5 DEF SkipCached, TryLead, Reread, End, Answer, At
  <2>2. UNCHANGED <<forced, asked, fetched>> /\ ~forced[t]
    BY <1>5 DEF SkipCached, TryLead, Reread, history, request, Typed, Placed
  <2> QED
    BY <2>1, <2>2, FetchesKept
<1>6. ASSUME Grow \/ Prewarm \/ Thaw \/ UNCHANGED vars PROVE Fetches'
  BY <1>6 DEF Grow, Prewarm, Thaw, vars, history, request, Fetches, FetchInOrder
<1> QED
  BY <1>1, <1>2, <1>3, <1>4, <1>5, <1>6 DEF Next, Tap, Prefetch, TapStep, PrefetchStep

\* Flight f, if it fetched, did so after thread t had come.
Later(f, t) == fetched[f] = NoText \/ fetched[f] >= asked[t]

\* Whoever joined a flight came before any later flight of the story fetched.
OthersLater(t) ==
  joined[t] # NoFlight =>
    /\ followup[joined[t]] # NoFlight => Later(followup[joined[t]], t)
    /\ \A f \in Threads :
         pc[f] \in Leading /\ story[f] = story[t] /\ f # joined[t] => Later(f, t)

LateFlights == \A t \in Threads : OthersLater(t)

LEMMA LateFlightsKept ==
  ASSUME Typed, Typed', LateFlights, NEW t \in Threads, NEW to, Go(t, to),
         to \in Leading => pc[t] \in Leading \/ fetched[t] = NoText,
         UNCHANGED <<story, asked, fetched, joined, followup>>
  PROVE  LateFlights'
<1>1. ASSUME NEW u \in Threads PROVE OthersLater(u)'
  BY Labels DEF LateFlights, OthersLater, Later, Go
<1> QED
  BY <1>1 DEF LateFlights

LEMMA StartLate ==
  ASSUME Typed, Typed', FlightsInOrder, LateFlights, NEW t \in Threads, NEW s \in Stories,
         NEW force \in BOOLEAN, Start(t, s, force)
  PROVE  LateFlights'
<1>1. /\ pc[t] = "idle" /\ pc'[t] = "gates" /\ UNCHANGED <<fetched, joined, followup>>
      /\ joined[t] = NoFlight
      /\ \A u \in Threads \ {t} : pc'[u] = pc[u] /\ story'[u] = story[u] /\ asked'[u] = asked[u]
  BY Labels DEF Start, Go, At, flights, mine, FlightsInOrder, JoinedFlew, Typed, TypeOK
<1>2. ASSUME NEW u \in Threads PROVE OthersLater(u)'
  BY <1>1 DEF LateFlights, OthersLater, Later, Leading
<1> QED
  BY <1>2 DEF LateFlights

LEMMA JoinLate ==
  ASSUME Typed, Typed', OneGenerationPerStory, FlightsInOrder, Fetches, LateFlights,
         NEW t \in Taps, Join(t)
  PROVE  LateFlights'
<1> USE Constants
<1>1. /\ t \in Threads /\ pc[t] = "join" /\ fetched[t] = NoText /\ story[t] \in Stories
  BY DEF Join, At, Fetches, FetchInOrder, Fetched, Typed, Placed
<1>2. CASE table[story[t]] = NoFlight
  BY <1>1, <1>2, LateFlightsKept DEF Join, request, history
<1>3. CASE table[story[t]] # NoFlight
  <2>1. PICK j \in Threads : j = table[story[t]]
    BY <1>1, <1>3 DEF Typed, TypeOK, Flights
  <2>2. pc[j] \in Leading /\ \A f \in Threads : pc[f] \in Leading /\ story[f] = story[t] => f = j
    BY <1>1, <1>3, <2>1 DEF OneGenerationPerStory
  <2>3. followup[j] = NoFlight
    BY <2>2 DEF FlightsInOrder, FollowsLanded
  <2>4. /\ UNCHANGED <<story, asked, fetched, followup>> /\ joined' = [joined EXCEPT ![t] = j]
        /\ Go(t, "wait")
    BY <1>3, <2>1 DEF Join, request, history
  <2>5. \A f \in Threads : pc'[f] \in Leading => pc[f] \in Leading
    BY <1>1, <2>4, Labels DEF Go, Leading
  <2>6. ASSUME NEW u \in Threads PROVE OthersLater(u)'
    <3>1. CASE u = t
      <4>1. joined'[t] = j
        BY <1>1, <2>4 DEF Typed, TypeOK
      <4> QED
        BY <2>2, <2>3, <2>4, <2>5, <3>1, <4>1 DEF OthersLater
    <3>2. CASE u # t
      <4>1. joined'[u] = joined[u]
        BY <1>1, <2>4, <3>2 DEF Typed, TypeOK
      <4> QED
        BY <2>4, <2>5, <4>1 DEF OthersLater, LateFlights, Later
    <3> QED
      BY <3>1, <3>2
  <2> QED
    BY <2>6 DEF LateFlights
<1> QED
  BY <1>2, <1>3

LEMMA FollowLate ==
  ASSUME Typed, Typed', OneGenerationPerStory, FlightsInOrder, Fetches, LateFlights,
         NEW t \in Taps, Follow(t)
  PROVE  LateFlights'
<1> USE Constants
<1>0. PICK j, current : j = joined[t] /\ current = table[story[t]]
  OBVIOUS
<1>1. /\ t \in Threads /\ pc[t] = "follow" /\ fetched[t] = NoText /\ story[t] \in Stories
      /\ j \in Threads /\ story[j] = story[t] /\ ~forced[j]
  BY <1>0 DEF Follow, At, Fetches, FetchInOrder, Fetched, Typed, TypeOK, Placed, Flights,
     FlightsInOrder, JoinedFlew, WaitsForItsOwn
<1>2. UNCHANGED <<story, asked, fetched, joined>>
  BY DEF Follow, history
<1>3. CASE UNCHANGED followup
  <2>1. \E to : Go(t, to)
    BY DEF Follow, ShareFollowup, ShareForced, GiveUp, LeadFollowup, End, Answer
  <2> QED
    BY <1>1, <1>2, <1>3, <2>1, LateFlightsKept
<1>4. ASSUME NEW f \in Threads, NEW to, Go(t, to), followup' = [followup EXCEPT ![j] = f],
             \A u \in Threads : joined[u] = j => Later(f, u)
      PROVE  LateFlights'
  <2>1. /\ \A u \in Threads : u # t => pc'[u] = pc[u]
        /\ followup'[j] = f /\ \A k \in Threads : k # j => followup'[k] = followup[k]
    BY <1>1, <1>4, Labels DEF Go, Typed, TypeOK
  <2>2. ASSUME NEW u \in Threads PROVE OthersLater(u)'
    <3>1. joined[u] # NoFlight => joined[u] \in Threads
      BY DEF Typed, TypeOK, Flights
    <3>2. joined[u] # NoFlight /\ followup'[joined[u]] # NoFlight => Later(followup'[joined[u]], u)
      BY <1>4, <2>1, <3>1 DEF LateFlights, OthersLater
    <3>3. \A g \in Threads : /\ joined[u] # NoFlight /\ pc'[g] \in Leading
                             /\ story[g] = story[u] /\ g # joined[u]
                             => Later(g, u)
      BY <1>1, <2>1 DEF LateFlights, OthersLater, Later
    <3> QED
      BY <1>2, <3>2, <3>3 DEF OthersLater, Later
  <2> QED
    BY <2>2 DEF LateFlights
<1>5. CASE ShareForced(t)
  <2>1. current \in Threads /\ pc[current] \in Leading /\ story[current] = story[t] /\ current # j
    BY <1>0, <1>1, <1>5 DEF ShareForced, OneGenerationPerStory, Typed, TypeOK, Flights
  <2>2. \A u \in Threads : joined[u] = j => Later(current, u)
    BY <1>1, <2>1 DEF LateFlights, OthersLater, FlightsInOrder, JoinedFlew
  <2> QED
    BY <1>0, <1>4, <1>5, <2>1, <2>2 DEF ShareForced
<1>6. CASE LeadFollowup(t)
  BY <1>0, <1>1, <1>4, <1>6 DEF LeadFollowup, Later
<1> QED
  BY <1>3, <1>5, <1>6 DEF Follow, ShareFollowup, GiveUp

LEMMA FetchLate ==
  ASSUME Typed, Typed', FlightsInOrder, TextsInOrder, LateFlights, NEW t \in Taps, Fetch(t)
  PROVE  LateFlights'
<1> USE Constants
<1>1. /\ t \in Threads /\ pc[t] = "fetch" /\ story[t] \in Stories
      /\ UNCHANGED <<story, asked, joined, followup, live>>
  BY DEF Fetch, At, Typed, Placed, request, mine, flights
<1>2. PICK to : Go(t, to)
  BY DEF Fetch, Answer
<1>3. CASE UNCHANGED fetched
  BY <1>1, <1>2, <1>3, LateFlightsKept DEF Leading
<1>4. CASE fetched' = [fetched EXCEPT ![t] = live[story[t]]]
  <2>1. ASSUME NEW u \in Threads, NEW f \in Threads, f # t, Later(f, u) PROVE Later(f, u)'
    BY <1>1, <1>4, <2>1 DEF Later
  <2>2. ASSUME NEW u \in Threads, joined[u] # NoFlight, story[t] = story[u] PROVE Later(t, u)'
    <3>1. asked[u] <= live[story[u]]
      BY <2>2 DEF FlightsInOrder, JoinedFlew, TextsInOrder, CopyInOrder
    <3>2. fetched'[t] = live[story[u]]
      BY <1>1, <1>4, <2>2, Numbers
    <3> QED
      BY <1>1, <2>2, <3>1, <3>2, Numbers DEF Later
  <2>3. \A f \in Threads : pc'[f] \in Leading => pc[f] \in Leading
    BY <1>1, <1>2, Labels DEF Go, Leading
  <2>4. ASSUME NEW u \in Threads PROVE OthersLater(u)'
    <3> SUFFICES ASSUME joined[u] # NoFlight PROVE OthersLater(u)'
      BY <1>1 DEF OthersLater
    <3>1. PICK g : g = followup[joined[u]]
      OBVIOUS
    <3>2. g # NoFlight => g \in Threads /\ story[g] = story[u]
      BY <3>1 DEF FlightsInOrder, FollowsLanded, JoinedFlew, Typed, TypeOK, Flights
    <3>3. g # NoFlight => Later(g, u)'
      BY <2>1, <2>2, <3>1, <3>2 DEF LateFlights, OthersLater
    <3>4. \A f \in Threads : pc[f] \in Leading /\ story[f] = story[u] /\ f # joined[u] => Later(f, u)'
      BY <2>1, <2>2 DEF LateFlights, OthersLater
    <3> QED
      BY <1>1, <2>3, <3>1, <3>3, <3>4 DEF OthersLater, Later
  <2> QED
    BY <2>4 DEF LateFlights
<1> QED
  BY <1>3, <1>4 DEF Fetch

LEMMA StepLate ==
  ASSUME Typed, Typed', OneGenerationPerStory, FlightsInOrder, TextsInOrder, Fetches, LateFlights,
         [Next]_vars
  PROVE  LateFlights'
<1> USE Constants
<1>1. ASSUME NEW t \in Threads,
             Gates(t) \/ Woken(t) \/ TimedOut(t) \/ SkipCached(t) \/ Announce(t) \/ Teardown(t)
      PROVE  LateFlights'
  <2>1. \E to \in {"join", "follow", "teardown", "over"} : Go(t, to)
    BY <1>1 DEF Gates, ServeCached, CoolDown, NoSession, GoOn, Woken, TimedOut, Waited, SkipCached,
       Announce, Teardown, End, Answer
  <2>2. UNCHANGED <<story, asked, fetched, joined, followup>>
    BY <1>1 DEF Gates, Woken, TimedOut, Waited, SkipCached, Announce, Teardown, flights, mine,
       request, history
  <2> QED
    BY <2>1, <2>2, LateFlightsKept DEF Leading
<1>2. ASSUME NEW t \in Threads,
             TakeSlot(t) \/ Quota(t) \/ Reread(t) \/ CheckCache(t) \/ CallLlm(t) \/ Raise(t) \/ Land(t)
      PROVE  LateFlights'
  <2>1. /\ \E to : Go(t, to)
        /\ pc[t] \in Leading
    BY <1>2 DEF TakeSlot, Quota, Reread, CheckCache, CallLlm, Generated, Half, LlmFails, Raise, Land,
       Answer, At, Leading
  <2>2. UNCHANGED <<story, asked, fetched, joined, followup>>
    BY <1>2 DEF TakeSlot, Quota, Reread, CheckCache, CallLlm, Raise, Land, flights, mine, request, history
  <2> QED
    BY <2>1, <2>2, LateFlightsKept
<1>3. ASSUME NEW t \in Prefetches, TryLead(t) PROVE LateFlights'
  <2>1. /\ \E to : Go(t, to)
        /\ fetched[t] = NoText
        /\ UNCHANGED <<story, asked, fetched, joined, followup>>
    BY <1>3 DEF TryLead, End, Answer, At, Fetches, FetchInOrder, Fetched, mine, history
  <2> QED
    BY <2>1, LateFlightsKept
<1>4. ASSUME Grow \/ Prewarm \/ Thaw \/ UNCHANGED vars PROVE LateFlights'
  BY <1>4 DEF Grow, Prewarm, Thaw, vars, flights, mine, history, request, LateFlights, OthersLater, Later
<1> QED
  BY <1>1, <1>2, <1>3, <1>4, StartLate, JoinLate, FollowLate, FetchLate
     DEF Next, Tap, Prefetch, TapStep, PrefetchStep

\* A flight's value is what its leader made of what it fetched.
ValueMade(f) ==
  value[f].kind = "summary" =>
    /\ pc[f] \in {"announce", "teardown", "over"}
    /\ forced[f] => fetched[f] # NoText

Answered == {"land", "announce", "teardown", "over"}

\* A tap leads its own flight, and has no reply before its flight is done.
ReplyMade(t) ==
  /\ t \in Taps /\ pc[t] \in Leading \union {"announce", "teardown"} => flight[t] = t
  /\ reply[t] # NoReply => pc[t] \in Answered

\* ForcedReplyIsFresh of one thread.
ReplyFresh(t) ==
  t \in Taps /\ forced[t] /\ reply[t].kind = "summary" =>
    /\ flight[t] # NoFlight
    /\ forced[flight[t]]
    /\ fetched[flight[t]] # NoText
    /\ joined[t] # NoFlight /\ ~forced[joined[t]] => fetched[flight[t]] >= asked[t]

RepliesInOrder == \A t \in Threads : ValueMade(t) /\ ReplyMade(t) /\ ReplyFresh(t)

\* A step of a thread that answers nobody else: what is left to show is that its
\* own reply is fresh.
LEMMA RepliesKept ==
  ASSUME Typed, Typed', Fetches, RepliesInOrder, NEW t \in Threads, NEW to, Go(t, to),
         UNCHANGED <<forced, asked>>,
         \A f \in Threads : fetched[f] # NoText => fetched'[f] = fetched[f],
         \A u \in Threads \ {t} : /\ reply'[u] = reply[u] /\ flight'[u] = flight[u]
                                  /\ joined'[u] = joined[u] /\ value'[u] = value[u],
         value'[t] = value[t], pc[t] \in {"announce", "teardown", "over"} =>
                                 to \in {"announce", "teardown", "over"},
         ReplyMade(t)', ReplyFresh(t)'
  PROVE  RepliesInOrder'
<1> USE Constants, Labels
<1>1. ASSUME NEW u \in Threads PROVE ValueMade(u)'
  BY DEF RepliesInOrder, ValueMade, Go
<1>2. ASSUME NEW u \in Threads, u # t PROVE ReplyMade(u)'
  BY <1>2 DEF RepliesInOrder, ReplyMade, Go
<1>3. ASSUME NEW u \in Threads, u # t PROVE ReplyFresh(u)'
  BY <1>3 DEF RepliesInOrder, ReplyFresh, Typed, TypeOK, Flights
<1> QED
  BY <1>1, <1>2, <1>3 DEF RepliesInOrder

\* The thread has no summary of a forced flight: nothing to show but the labels.
LEMMA NoForcedSummary ==
  ASSUME Typed, Typed', Fetches, RepliesInOrder, NEW t \in Threads, NEW to, NEW r, Go(t, to),
         reply' = [reply EXCEPT ![t] = r], forced[t] => r.kind # "summary",
         r # NoReply => to \in Answered,
         to \in Leading => pc[t] \in Leading,
         pc[t] \in {"announce", "teardown", "over"} => to \in {"announce", "teardown", "over"},
         pc[t] \in Leading \union {"announce", "teardown"} \/ to \notin {"announce", "teardown"},
         UNCHANGED <<forced, asked, flight, joined, value>>,
         \A f \in Threads : fetched[f] # NoText => fetched'[f] = fetched[f]
  PROVE  RepliesInOrder'
<1> USE Constants, Labels
<1>1. reply'[t] = r /\ pc'[t] = to /\ \A u \in Threads \ {t} : reply'[u] = reply[u]
  BY DEF Go, Typed, TypeOK
<1>2. ReplyMade(t)'
  BY <1>1 DEF RepliesInOrder, ReplyMade
<1>3. ReplyFresh(t)'
  BY <1>1 DEF ReplyFresh
<1> QED
  BY <1>1, <1>2, <1>3, RepliesKept

LEMMA StartReplies ==
  ASSUME Typed, Typed', FlightsInOrder, Fetches, RepliesInOrder, NEW t \in Threads,
         NEW s \in Stories, NEW force \in BOOLEAN, Start(t, s, force)
  PROVE  RepliesInOrder'
<1> USE Constants, Labels
<1>1. /\ pc[t] = "idle" /\ pc'[t] = "gates" /\ UNCHANGED <<fetched, joined, flight, value, reply>>
      /\ reply[t] = NoReply /\ fetched[t] = NoText
      /\ \A u \in Threads \ {t} : pc'[u] = pc[u] /\ forced'[u] = forced[u] /\ asked'[u] = asked[u]
  BY DEF Start, Go, At, flights, mine, Typed, TypeOK, RepliesInOrder, ReplyMade, Answered,
     Fetches, FetchInOrder, Fetched
<1>2. ASSUME NEW u \in Threads PROVE ValueMade(u)' /\ ReplyMade(u)'
  BY <1>1 DEF RepliesInOrder, ValueMade, ReplyMade, Leading, Answered
<1>3. ASSUME NEW u \in Threads PROVE ReplyFresh(u)'
  <2>1. CASE u = t
    BY <1>1, <2>1, RepliesDiffer DEF ReplyFresh
  <2>2. CASE u # t
    <3>1. joined[u] # t
      BY <1>1 DEF FlightsInOrder, JoinedFlew, Flew, Leading
    <3> QED
      BY <1>1, <2>2, <3>1 DEF RepliesInOrder, ReplyFresh, Typed, TypeOK, Flights
  <2> QED
    BY <2>1, <2>2
<1> QED
  BY <1>2, <1>3 DEF RepliesInOrder

LEMMA JoinReplies ==
  ASSUME Typed, Typed', Fetches, RepliesInOrder, NEW t \in Taps, Join(t)
  PROVE  RepliesInOrder'
<1> USE Constants, Labels
<1>1. /\ t \in Threads /\ pc[t] = "join" /\ reply[t] = NoReply
      /\ UNCHANGED <<forced, asked, fetched, reply, value>>
  BY DEF Join, At, RepliesInOrder, ReplyMade, Answered, request, history
<1>2. PICK to \in {"slot", "wait"} :
        /\ Go(t, to) /\ (to = "slot" => flight'[t] = t)
        /\ \A u \in Threads \ {t} : flight'[u] = flight[u] /\ joined'[u] = joined[u]
  BY <1>1 DEF Join, Typed, TypeOK
<1>3. ReplyMade(t)' /\ ReplyFresh(t)'
  BY <1>1, <1>2, RepliesDiffer DEF ReplyMade, ReplyFresh, Go, Leading
<1> QED
  BY <1>1, <1>2, <1>3, RepliesKept

LEMMA FollowReplies ==
  ASSUME Typed, Typed', Fetches, RepliesInOrder, NEW t \in Taps, Follow(t)
  PROVE  RepliesInOrder'
<1> USE Constants, Labels
<1>1. /\ t \in Threads /\ pc[t] = "follow" /\ reply[t] = NoReply
      /\ UNCHANGED <<forced, asked, fetched, joined, value>>
  BY DEF Follow, At, RepliesInOrder, ReplyMade, Answered, history
<1>2. CASE GiveUp(t)
  <2>1. PICK r \in {NoReply, Unfinished} : Answer(t, r, "over") /\ UNCHANGED flight
    BY <1>2 DEF GiveUp, End
  <2> QED
    BY <1>1, <2>1, RepliesDiffer, NoForcedSummary DEF Answer, Answered, Leading
<1>3. CASE ~ GiveUp(t)
  <2>1. PICK to \in {"slot", "wait"} :
          /\ Go(t, to) /\ (to = "slot" => flight'[t] = t) /\ UNCHANGED reply
          /\ \A u \in Threads \ {t} : flight'[u] = flight[u]
    BY <1>1, <1>3 DEF Follow, ShareFollowup, ShareForced, LeadFollowup, Typed, TypeOK
  <2>2. ReplyMade(t)' /\ ReplyFresh(t)'
    BY <1>1, <2>1, RepliesDiffer DEF ReplyMade, ReplyFresh, Go, Leading
  <2> QED
    BY <1>1, <2>1, <2>2, RepliesKept
<1> QED
  BY <1>2, <1>3

\* A tap that waited for a forced flight has a reply of a fetch it asked for: it
\* joined that flight, or that flight followed the one it joined.
LEMMA WaitedReplies ==
  ASSUME Typed, Typed', FlightsInOrder, Fetches, LateFlights, RepliesInOrder, NEW t \in Taps,
         NEW result \in {NoReply, value[flight[t]]}, Waited(t, result)
  PROVE  RepliesInOrder'
<1> USE Constants, Labels
<1>1. /\ t \in Threads /\ pc[t] = "wait" /\ flight[t] \in Threads /\ reply[t] = NoReply
      /\ UNCHANGED <<forced, asked, fetched, flight, joined, value>>
  BY DEF Waited, At, FlightsInOrder, WaitsForItsOwn, Typed, TypeOK, Flights, RepliesInOrder,
     ReplyMade, Answered, flights, mine, history
<1>2. CASE Go(t, "follow") /\ UNCHANGED reply
  <2>1. ReplyMade(t)' /\ ReplyFresh(t)'
    BY <1>1, <1>2, RepliesDiffer DEF ReplyMade, ReplyFresh, Go, Leading
  <2> QED
    BY <1>1, <1>2, <2>1, RepliesKept
<1>3. CASE ~forced[t] /\ \E r : Answer(t, NoReply, "over") /\ r = NoReply
  BY <1>1, <1>3, RepliesDiffer, NoForcedSummary DEF Answer, Answered, Leading
<1>4. ASSUME forced[t], forced[flight[t]], NEW r \in {Unfinished, value[flight[t]]},
             Answer(t, r, "over")
      PROVE  RepliesInOrder'
  <2>1. reply'[t] = r /\ pc'[t] = "over" /\ \A u \in Threads \ {t} : reply'[u] = reply[u]
    BY <1>1, <1>4 DEF Answer, Go, Typed, TypeOK
  <2>2. ASSUME r.kind = "summary"
        PROVE  /\ fetched[flight[t]] # NoText
               /\ joined[t] # NoFlight /\ ~forced[joined[t]] => fetched[flight[t]] >= asked[t]
    <3>1. fetched[flight[t]] # NoText
      BY <1>1, <1>4, <2>2, RepliesDiffer DEF RepliesInOrder, ValueMade
    <3>2. ASSUME joined[t] # NoFlight, ~forced[joined[t]] PROVE fetched[flight[t]] >= asked[t]
      <4>1. flight[t] = followup[joined[t]]
        BY <1>1, <1>4, <3>2 DEF FlightsInOrder, WaitsForItsOwn
      <4> QED
        BY <1>1, <3>1, <3>2, <4>1 DEF LateFlights, OthersLater, Later
    <3> QED
      BY <3>1, <3>2
  <2>3. ReplyMade(t)' /\ ReplyFresh(t)'
    BY <1>1, <1>4, <2>1, <2>2 DEF ReplyMade, ReplyFresh, Leading, Answered
  <2> QED
    BY <1>1, <1>4, <2>1, <2>3, RepliesKept DEF Answer
<1> QED
  BY <1>2, <1>3, <1>4 DEF Waited, End, Answer

LEMMA CallLlmReplies ==
  ASSUME Typed, Typed', Fetches, RepliesInOrder, NEW t \in Threads, CallLlm(t)
  PROVE  RepliesInOrder'
<1> USE Constants, Labels
<1>1. /\ pc[t] = "llm" /\ UNCHANGED <<forced, asked, fetched, flight, joined, value>>
  BY DEF CallLlm, At, flights, mine, history, request
<1>2. CASE LlmFails(t)
  BY <1>1, <1>2, RepliesDiffer, NoForcedSummary DEF LlmFails, Answer, Answered, Leading
<1>3. CASE Answer(t, Summary(text[t]), "land")
  <2>1. reply'[t] = Summary(text[t]) /\ pc'[t] = "land" /\ \A u \in Threads \ {t} : reply'[u] = reply[u]
    BY <1>3 DEF Answer, Go, Typed, TypeOK
  <2>2. t \in Taps => flight[t] = t
    BY <1>1 DEF RepliesInOrder, ReplyMade, Leading
  <2>3. forced[t] => fetched[t] # NoText /\ fetched[t] >= asked[t]
    BY <1>1 DEF Fetches, FetchInOrder
  <2>4. ReplyMade(t)' /\ ReplyFresh(t)'
    BY <1>1, <2>1, <2>2, <2>3 DEF ReplyMade, ReplyFresh, Leading, Answered
  <2> QED
    BY <1>1, <1>3, <2>1, <2>4, RepliesKept DEF Answer
<1> QED
  BY <1>2, <1>3 DEF CallLlm, Generated, Half

LEMMA LandReplies ==
  ASSUME Typed, Typed', Fetches, RepliesInOrder, NEW t \in Threads, Land(t)
  PROVE  RepliesInOrder'
<1> USE Constants, Labels
<1>1. /\ pc[t] = "land" /\ pc'[t] = "announce" /\ \A u \in Threads \ {t} : pc'[u] = pc[u]
      /\ value'[t] = reply[t] /\ \A u \in Threads \ {t} : value'[u] = value[u]
      /\ UNCHANGED <<forced, asked, fetched, flight, joined, reply>>
  BY DEF Land, At, Go, mine, history, request, Typed, TypeOK
<1>2. forced[t] /\ reply[t].kind = "summary" => fetched[t] # NoText
  BY <1>1 DEF RepliesInOrder, ReplyFresh, ReplyMade, Leading, Typed, Placed
<1>3. ASSUME NEW u \in Threads PROVE ValueMade(u)' /\ ReplyMade(u)' /\ ReplyFresh(u)'
  BY <1>1, <1>2 DEF RepliesInOrder, ValueMade, ReplyMade, ReplyFresh, Leading, Answered
<1> QED
  BY <1>3 DEF RepliesInOrder

LEMMA TeardownReplies ==
  ASSUME Typed, Typed', Fetches, RepliesInOrder, NEW t \in Threads, Announce(t) \/ Teardown(t)
  PROVE  RepliesInOrder'
<1> USE Constants, Labels
<1>1. /\ pc[t] \in {"announce", "teardown"}
      /\ UNCHANGED <<forced, asked, fetched, flight, joined, value>>
  BY DEF Announce, Teardown, At, mine, history, request, flights
<1>2. PICK to \in {"teardown", "over"} : Go(t, to) /\ (pc[t] = "teardown" => to = "over")
  BY DEF Announce, Teardown, At, End, Answer
<1>3. CASE reply'[t] = reply[t] /\ \A u \in Threads \ {t} : reply'[u] = reply[u]
  <2>1. ReplyMade(t)' /\ ReplyFresh(t)'
    BY <1>1, <1>2, <1>3 DEF ReplyMade, ReplyFresh, RepliesInOrder, Go, Leading, Answered
  <2> QED
    BY <1>1, <1>2, <1>3, <2>1, RepliesKept
<1>4. CASE reply' = [reply EXCEPT ![t] = NoReply]
  BY <1>1, <1>2, <1>4, RepliesDiffer, NoForcedSummary DEF Leading
<1> QED
  BY <1>3, <1>4 DEF Announce, Teardown, End, Answer, Typed, TypeOK

\* A leader goes on to another label of its generation, or is refused.
Onward(t, to) ==
  /\ Go(t, to)
  /\ \/ UNCHANGED reply
     \/ \E r : /\ reply' = [reply EXCEPT ![t] = r]
               /\ to = "land"
               /\ forced[t] => r.kind # "summary"

LEMMA OnwardReplies ==
  ASSUME Typed, Typed', Fetches, RepliesInOrder, NEW t \in Threads, NEW to \in Leading, Onward(t, to),
         pc[t] \in Leading \ {"land"},
         UNCHANGED <<forced, asked, flight, joined, value>>,
         \A f \in Threads : fetched[f] # NoText => fetched'[f] = fetched[f]
  PROVE  RepliesInOrder'
<1> USE Constants, Labels
<1>1. CASE UNCHANGED reply
  <2>1. reply[t] = NoReply
    BY DEF RepliesInOrder, ReplyMade, Leading, Answered
  <2>2. ReplyMade(t)' /\ ReplyFresh(t)'
    BY <1>1, <2>1, RepliesDiffer DEF RepliesInOrder, ReplyMade, ReplyFresh, Onward, Go, Leading
  <2> QED
    BY <1>1, <2>2, RepliesKept DEF Onward, Leading
<1>2. ASSUME NEW r, reply' = [reply EXCEPT ![t] = r], to = "land", forced[t] => r.kind # "summary"
      PROVE  RepliesInOrder'
  BY <1>2, NoForcedSummary DEF Onward, Leading, Answered
<1> QED
  BY <1>1, <1>2 DEF Onward

LEMMA StepReplies ==
  ASSUME Typed, Typed', FlightsInOrder, Fetches, LateFlights, RepliesInOrder, [Next]_vars
  PROVE  RepliesInOrder'
<1> USE Constants, RepliesDiffer
<1>1. ASSUME NEW t \in Threads, Gates(t) \/ SkipCached(t) \/ (t \in Prefetches /\ TryLead(t))
      PROVE  RepliesInOrder'
  <2>1. /\ t \in Threads /\ pc[t] \in {"gates", "join"} /\ reply[t] = NoReply
        /\ UNCHANGED <<forced, asked, fetched, flight, joined, value>>
    BY <1>1 DEF Gates, SkipCached, TryLead, At, flights, mine, history, RepliesInOrder, ReplyMade, Answered
  <2>2. CASE \E r : Answer(t, r, "over") /\ (forced[t] => r.kind # "summary")
    BY <2>1, <2>2, NoForcedSummary DEF Answer, Answered, Leading
  <2>3. CASE \E to \in {"join", "reread"} : Go(t, to) /\ UNCHANGED reply /\ (to = "reread" => t \in Prefetches)
    <3>1. ReplyMade(t)' /\ ReplyFresh(t)'
      BY <2>1, <2>3, Labels, ThreadsAssumption DEF ReplyMade, ReplyFresh, Go, Leading
    <3> QED
      BY <2>1, <2>3, <3>1, RepliesKept
  <2> QED
    <3>1. CASE Gates(t)
      BY <2>2, <2>3, <3>1 DEF Gates, ServeCached, CoolDown, NoSession, GoOn, End
    <3>2. CASE SkipCached(t)
      BY <2>2, <2>3, <3>2 DEF SkipCached, End
    <3>3. CASE t \in Prefetches /\ TryLead(t)
      BY <2>2, <2>3, <3>3 DEF TryLead, End
    <3> QED
      BY <1>1, <3>1, <3>2, <3>3
<1>2. ASSUME NEW t \in Threads, TakeSlot(t) \/ Quota(t) \/ CheckCache(t) \/ Raise(t)
      PROVE  RepliesInOrder'
  <2>1. /\ pc[t] \in Leading \ {"land"} /\ UNCHANGED <<forced, asked, fetched, flight, joined, value>>
    BY <1>2 DEF TakeSlot, Quota, CheckCache, Raise, At, Leading, flights, mine, history, request
  <2>2. \E to \in Leading : Onward(t, to)
    BY <1>2, ThreadsAssumption DEF TakeSlot, Quota, CheckCache, Raise, Answer, Leading, Onward
  <2> QED
    BY <2>1, <2>2, OnwardReplies
<1>3. ASSUME NEW t \in Threads, Fetch(t) \/ Reread(t) PROVE RepliesInOrder'
  <2>1. /\ pc[t] \in {"fetch", "reread"} /\ UNCHANGED <<forced, asked, flight, joined, value>>
        /\ fetched[t] = NoText
        /\ \A f \in Threads \ {t} : fetched'[f] = fetched[f]
    BY <1>3 DEF Fetch, Reread, At, flights, mine, history, request, Fetches, FetchInOrder, Fetched,
       Typed, TypeOK
  <2>2. \E to \in Leading : Onward(t, to)
    BY <1>3 DEF Fetch, Reread, Answer, Leading, Onward
  <2> QED
    BY <2>1, <2>2, OnwardReplies DEF Leading
<1>4. ASSUME Grow \/ Prewarm \/ Thaw \/ UNCHANGED vars PROVE RepliesInOrder'
  BY <1>4 DEF Grow, Prewarm, Thaw, vars, flights, mine, history, request, RepliesInOrder, ValueMade,
     ReplyMade, ReplyFresh
<1> QED
  BY <1>1, <1>2, <1>3, <1>4, StartReplies, JoinReplies, FollowReplies, WaitedReplies, CallLlmReplies,
     LandReplies, TeardownReplies
     DEF Next, Tap, Prefetch, TapStep, PrefetchStep, Woken, TimedOut

-----------------------------------------------------------------------------
(***************************************************************************)
(* The theorems.                                                           *)
(***************************************************************************)

Inv ==
  /\ Typed
  /\ OneGenerationPerStory
  /\ SlotsHeld
  /\ FlightsInOrder
  /\ TextsInOrder
  /\ Fetches
  /\ LateFlights
  /\ RepliesInOrder

LEMMA InitInv == Init => Inv
<1> SUFFICES ASSUME Init PROVE Inv
  OBVIOUS
<1> USE Constants, RepliesDiffer
<1>1. Typed
  BY InitTyped
<1>2. OneGenerationPerStory
  BY DEF Init, OneGenerationPerStory, Leading
<1>3. SlotsHeld
  BY FS_EmptySet DEF Init, SlotsHeld
<1>4. FlightsInOrder
  BY DEF Init, FlightsInOrder, JoinedFlew, WaitsForItsOwn, FollowsLanded
<1>5. TextsInOrder
  BY DEF Init, TextsInOrder, CopyInOrder
<1>6. Fetches /\ LateFlights
  BY DEF Init, Fetches, FetchInOrder, LateFlights, OthersLater
<1>7. RepliesInOrder
  BY DEF Init, RepliesInOrder, ValueMade, ReplyMade, ReplyFresh, Leading
<1> QED
  BY <1>1, <1>2, <1>3, <1>4, <1>5, <1>6, <1>7 DEF Inv

LEMMA StepInv == Inv /\ [Next]_vars => Inv'
<1> SUFFICES ASSUME Inv, [Next]_vars PROVE Inv'
  OBVIOUS
<1>1. Typed'
  BY StepTyped DEF Inv
<1>2. OneGenerationPerStory' /\ SlotsHeld'
  BY StepOneGeneration, StepSlots DEF Inv
<1>3. FlightsInOrder' /\ TextsInOrder' /\ Fetches'
  BY <1>1, StepFlights, StepTexts, StepFetches DEF Inv
<1>4. LateFlights' /\ RepliesInOrder'
  BY <1>1, StepLate, StepReplies DEF Inv
<1> QED
  BY <1>1, <1>2, <1>3, <1>4 DEF Inv

LEMMA Invariant == Spec => []Inv
BY InitInv, StepInv, PTL DEF Spec

\* Every variable has its type.
THEOREM TypeCorrect == Spec => []TypeOK
<1>1. Inv => TypeOK
  BY DEF Inv, Typed
<1> QED
  BY <1>1, Invariant, PTL

\* Of a story, one thread generates, the one that holds the story's key in
\* SingleFlight._flights, and a key that is held is on its way to be released.
THEOREM StoriesGenerateOnce == Spec => []OneGenerationPerStory
<1>1. Inv => OneGenerationPerStory
  BY DEF Inv
<1> QED
  BY <1>1, Invariant, PTL

\* _tldr_generations counts the requests that hold a slot and will give it back,
\* whatever the reply, so no refusal is for good.
THEOREM SlotsAreBalanced == Spec => []SlotsBalanced
<1>1. Inv => SlotsBalanced
  BY DEF Inv, SlotsHeld, SlotsBalanced, Holding
<1> QED
  BY <1>1, Invariant, PTL

\* No request waits in Flight.wait for a flight that nobody will land.
THEOREM WaitersWillWake == Spec => []WaiterWillWake
<1>1. Inv => WaiterWillWake
  BY Constants DEF Inv, FlightsInOrder, WaitsForItsOwn, Flew, WaiterWillWake, At
<1> QED
  BY <1>1, Invariant, PTL

\* force_refresh gets no summary of an ordinary flight, nor one of a forced
\* flight that had fetched before the tap, if it was told to wait for a follow-up.
THEOREM ForcedRepliesAreFresh == Spec => []ForcedReplyIsFresh
<1>1. Inv => ForcedReplyIsFresh
  BY Constants DEF Inv, RepliesInOrder, ReplyFresh, ForcedReplyIsFresh
<1> QED
  BY <1>1, Invariant, PTL

\* _prefetch_one reads the story again once it leads, so its summary is of a text
\* as new as the one it replaces, unless a prewarm had put an older text in the row.
THEOREM PrefetchIsNeverOlder == Spec => PrefetchNeverOlder
<1> DEFINE Step == \A p \in Prefetches :
                     At(p, "llm") /\ pc'[p] # "llm" =>
                       cache'[story[p]] >= cache[story[p]] \/ p \in misled
<1>1. ASSUME Inv, [Next]_vars, NEW p \in Prefetches, At(p, "llm"), pc'[p] # "llm",
             p \notin misled
      PROVE  cache'[story[p]] >= cache[story[p]]
  <2>1. /\ p \in Threads /\ pc[p] = "llm" /\ story[p] \in Stories
        /\ cache[story[p]] \in Nat /\ cache[story[p]] <= text[p]
    BY <1>1, Constants, Numbers DEF Inv, Typed, Placed, TextsInOrder, CopyInOrder, At
  <2>2. CASE UNCHANGED cache
    BY <2>1, <2>2
  <2>3. CASE ~ UNCHANGED cache
    <3>1. PICK t \in Threads : CallLlm(t) /\ cache' = [cache EXCEPT ![story[t]] = text[t]]
      <4>1. PICK t \in Threads : CallLlm(t)
        BY <1>1, <2>3, Constants
           DEF Next, Tap, TapStep, TimedOut, Prefetch, PrefetchStep, Start, Gates, Join, Woken, Waited,
               Follow, TakeSlot, Quota, Fetch, Reread, CheckCache, Raise, Land, Announce, Teardown,
               SkipCached, TryLead, Grow, Prewarm, Thaw, stored, vars
      <4> QED
        BY <2>3, <4>1 DEF CallLlm, Generated, Half, LlmFails
    <3>2. t = p
      <4>1. \A u \in Threads \ {t} : pc'[u] = pc[u]
        BY <1>1, <3>1, Labels DEF Inv, CallLlm, Generated, Half, LlmFails, Answer, Go
      <4> QED
        BY <1>1, <2>1, <4>1
    <3> QED
      BY <1>1, <2>1, <3>1, <3>2, Numbers DEF Inv
  <2> QED
    BY <2>2, <2>3
<1>2. Inv /\ [Next]_vars => [Step]_vars
  BY <1>1
<1> QED
  BY <1>2, Invariant, PTL DEF Spec, PrefetchNeverOlder

=============================================================================
