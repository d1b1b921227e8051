---------------------------- MODULE ClientProofs ----------------------------
(* Proofs about Client for every value of its constants: the types, and the *)
(* five invariants the runs check.  Only the liveness of StaleDeckReplaced  *)
(* is left to TLC.                                                          *)
EXTENDS Client, SequenceTheorems, TLAPS

-----------------------------------------------------------------------------
(* The inductive invariant.                                                 *)

(* A request under way is for a window, its reply is of its own profile;    *)
(* the feed request is of this profile.  While signing in nothing is sent.  *)
Flights ==
  /\ api > 0
  /\ refresh # NoRequest =>
       /\ refresh.window \in Windows
       /\ refresh.profile = api
       /\ refresh.reply # NoFeed => refresh.reply.profile = api
  /\ prefetch # NoRequest =>
       /\ prefetch.window \in Windows
       /\ prefetch.reply # NoFeed => prefetch.reply.profile = prefetch.profile
  /\ settingUp => queue = <<>> /\ refresh = NoRequest /\ ~sortPending

(* The deck on screen is in the cache; all of the cache goes with it.       *)
Caches == CachesMatch /\ (open => feeds[window] # NoFeed)

(* What the reader waits for is at most the server's version, and a reply   *)
(* it will still take was read after all it was told to wait for.           *)
Waits(feed) == feed.version >= known \/ (~feed.ready /\ feed.target >= known)

Acks ==
  /\ AckNotForgotten
  /\ known <= current
  /\ queue # <<>> /\ queue[1].target > 0 => queue[1].target >= known
  /\ Answered(refresh) /\ refresh.newest => Waits(refresh.reply)

(* Only the first vote in the queue has been sent.                          *)
OneInFlight == \A i \in DOMAIN queue : i > 1 => queue[i].target = 0

(* The votes of a story are queued in the order they were made, and if any  *)
(* is, the newest is.                                                       *)
Order ==
  /\ \A i \in DOMAIN queue :
       0 < queue[i].revision /\ queue[i].revision <= revision[queue[i].story]
  /\ \A i, j \in DOMAIN queue :
       i < j /\ queue[i].story = queue[j].story => queue[i].revision < queue[j].revision
  /\ \A i \in DOMAIN queue :
       \E j \in DOMAIN queue : queue[j].story = queue[i].story /\ Latest(queue[j])

(* A vote is under way, confirmed or failed, never two of these.            *)
Apart ==
  /\ \A key \in acked : key[2] <= revision[key[1]]
  /\ acked \intersect Pending = {}
  /\ errors \intersect Pending = {}

(* While the reader waits to exit, what is not confirmed is under way or    *)
(* has failed.                                                              *)
Reported ==
  /\ errors \subseteq snapshot
  /\ quit = "no" => snapshot = {}
  /\ quit = "waiting" =>
       \A key \in snapshot : (key \in Pending \/ key \in errors) <=> key \notin acked
  /\ ReportExact

(* The screen shows the newest choice while its vote is under way, and the  *)
(* server has the vote it answered.                                         *)
Choice(vote, set) == vote.story \in set <=> vote.action = "vote"

Screen ==
  /\ \A i \in DOMAIN queue : Latest(queue[i]) => Choice(queue[i], rated)
  /\ \A i \in DOMAIN history : history[i] \in rated
  /\ queue # <<>> /\ queue[1].target > 0 /\ queue[1].story \notin unsure =>
       Choice(queue[1], voted)
  /\ ScreenAgrees

-----------------------------------------------------------------------------
(* Sequences and the operators the reader is built from.                    *)
LEMMA HeadAndTail ==
  ASSUME NEW S, NEW q \in Seq(S), q # <<>>
  PROVE  /\ Head(q) = q[1] /\ Head(q) \in S /\ 1 \in DOMAIN q
         /\ Tail(q) \in Seq(S)
         /\ DOMAIN Tail(q) = 1..(Len(q) - 1)
         /\ \A i \in DOMAIN Tail(q) : i + 1 \in DOMAIN q /\ Tail(q)[i] = q[i + 1]
         /\ \A i \in DOMAIN q : i = 1 \/ (i - 1 \in DOMAIN Tail(q) /\ Tail(q)[i - 1] = q[i])
  OBVIOUS

LEMMA Appended ==
  ASSUME NEW S, NEW q \in Seq(S), NEW e \in S
  PROVE  /\ Append(q, e) \in Seq(S)
         /\ DOMAIN Append(q, e) = 1..(Len(q) + 1)
         /\ DOMAIN q = 1..Len(q)
         /\ Len(q) \in Nat
         /\ Append(q, e)[Len(q) + 1] = e
         /\ \A i \in DOMAIN q : Append(q, e)[i] = q[i]
  OBVIOUS

(* What follows the first n of a list.                                      *)
LEMMA RestOfList ==
  ASSUME NEW S, NEW list \in Seq(S), NEW n \in 1..Len(list)
  PROVE  \A i \in 1..(Len(list) - (n + 1) + 1) :
           SubSeq(list, n + 1, Len(list))[i] = list[(n + 1) + i - 1]
  <1>1. n + 1 \in Int /\ Len(list) \in Int /\ \A i \in (n + 1)..Len(list) : list[i] \in S
    OBVIOUS
  <1> QED
    BY <1>1, SubSeqProperties

(* list.remove takes out a story that is there once.                        *)
LEMMA WithoutOne ==
  ASSUME NEW S, NEW list \in Seq(S), IsInjective(list), NEW s
  PROVE  /\ Without(list, s) \in Seq(S)
         /\ IsInjective(Without(list, s))
         /\ \A i \in DOMAIN Without(list, s) :
              /\ Without(list, s)[i] # s
              /\ \E j \in DOMAIN list : list[j] = Without(list, s)[i]
  <1>1. CASE ~\E i \in DOMAIN list : list[i] = s
    BY <1>1 DEF Without
  <1>2. CASE \E i \in DOMAIN list : list[i] = s
    <2>1. PICK n \in DOMAIN list : list[n] = s
      BY <1>2
    <2>2. list[n] = s /\ \A j \in 1..(n - 1) : list[j] # s
      BY <2>1 DEF IsInjective
    <2>3. \A i \in DOMAIN list : list[i] = s => i = n
      BY <2>1 DEF IsInjective
    <2>4. n = CHOOSE i \in DOMAIN list : list[i] = s /\ \A j \in 1..(i - 1) : list[j] # s
      BY <2>1, <2>2, <2>3
    <2>5. Without(list, s) = RemoveAt(list, n)
      BY <1>2, <2>4 DEF Without
    <2>7. n \in 1..Len(list) /\ DOMAIN list = 1..Len(list) /\ Len(list) \in Nat
      BY <2>1
    <2>6. PICK before, after, out : /\ before = SubSeq(list, 1, n - 1)
                                    /\ after = SubSeq(list, n + 1, Len(list))
                                    /\ out = before \o after
      OBVIOUS
    <2>6a. /\ before \in Seq(S) /\ Len(before) = n - 1
           /\ \A i \in 1..(n - 1) : before[i] = list[i]
      <3>1. \A i \in 1..(n - 1) : list[i] \in S
        BY <2>7
      <3>2. before \in Seq(S) /\ Len(before) = n - 1
        BY <2>6, <2>7, <3>1, SubSeqProperties
      <3>3. \A i \in 1..(n - 1) : before[i] = list[i]
        BY <2>6, <2>7
      <3> QED
        BY <3>2, <3>3
    <2>6b. /\ after \in Seq(S) /\ Len(after) = Len(list) - n
           /\ \A i \in 1..(Len(list) - n) : after[i] = list[i + n]
      <3>1. after \in Seq(S) /\ Len(after) = Len(list) - n
        BY <2>6, <2>7, SubSeqProperties
      <3>2. \A i \in 1..(Len(list) - (n + 1) + 1) : after[i] = list[(n + 1) + i - 1]
        BY <2>6, <2>7, RestOfList
      <3>3. \A i \in 1..(Len(list) - n) :
              i \in 1..(Len(list) - (n + 1) + 1) /\ (n + 1) + i - 1 = i + n
        BY <2>7
      <3> QED
        BY <3>1, <3>2, <3>3
    <2>8. /\ out \in Seq(S)
          /\ Len(out) = Len(list) - 1
          /\ DOMAIN out = 1..(Len(list) - 1)
      <3>1. out \in Seq(S) /\ Len(out) = Len(before) + Len(after)
        BY <2>6, <2>6a, <2>6b, ConcatProperties
      <3>2. Len(out) = Len(list) - 1
        BY <2>6a, <2>6b, <2>7, <3>1
      <3> QED
        BY <3>1, <3>2, LenProperties
    <2>9. \A i \in 1..(Len(list) - 1) : out[i] = IF i < n THEN list[i] ELSE list[i + 1]
      <3> TAKE i \in 1..(Len(list) - 1)
      <3>1. out[i] = IF i <= Len(before) THEN before[i] ELSE after[i - Len(before)]
        <4>1. i \in 1..(Len(before) + Len(after))
          BY <2>6a, <2>6b, <2>7
        <4> QED
          BY <2>6, <2>6a, <2>6b, <4>1, ConcatProperties, ZenonT(30)
      <3>2. CASE i < n
        BY <2>6a, <2>7, <3>1, <3>2
      <3>3. CASE i >= n
        <4>1. i - (n - 1) \in 1..(Len(list) - n) /\ (i - (n - 1)) + n = i + 1
          BY <2>7, <3>3
        <4>2. ~(i <= Len(before)) /\ out[i] = after[i - (n - 1)] /\ ~(i < n)
          BY <2>6a, <2>7, <3>1, <3>3
        <4>3. after[i - (n - 1)] = list[(i - (n - 1)) + n]
          BY <2>6b, <4>1
        <4> QED
          BY <4>1, <4>2, <4>3
      <3> QED
        BY <2>7, <3>2, <3>3
    <2>10. IsInjective(out)
      <3> SUFFICES ASSUME NEW i \in 1..(Len(list) - 1), NEW j \in 1..(Len(list) - 1), i < j
                   PROVE  out[i] # out[j]
        BY <2>7, <2>8 DEF IsInjective
      <3>1. PICK k \in DOMAIN list : out[i] = list[k] /\ k = IF i < n THEN i ELSE i + 1
        BY <2>7, <2>9
      <3>2. PICK l \in DOMAIN list : out[j] = list[l] /\ l = IF j < n THEN j ELSE j + 1
        BY <2>7, <2>9
      <3>3. k # l
        BY <2>7, <3>1, <3>2
      <3> QED
        BY <3>1, <3>2, <3>3 DEF IsInjective
    <2>11. \A i \in DOMAIN out : out[i] # s /\ \E j \in DOMAIN list : list[j] = out[i]
      <3> TAKE i \in DOMAIN out
      <3>1. PICK k : out[i] = list[k] /\ k = IF i < n THEN i ELSE i + 1
        BY <2>8, <2>9
      <3>2. k \in DOMAIN list /\ k # n
        BY <2>7, <2>8, <3>1
      <3> QED
        BY <2>3, <3>1, <3>2
    <2> QED
      BY <2>5, <2>6, <2>8, <2>10, <2>11 DEF RemoveAt
  <1> QED
    BY <1>1, <1>2

LEMMA Constants ==
  /\ NoFeed \in FeedType
  /\ NoRequest \in RequestType
  /\ NoRequest.window = NoWindow /\ NoRequest.reply = NoFeed /\ ~NoRequest.newest
  /\ NoFeed.profile = 0 /\ NoFeed.version = 0
  BY DEF NoFeed, NoRequest, FeedType, RequestType

LEMMA FeedTypes ==
  ASSUME TypeOK
  PROVE  /\ Feed \in FeedType
         /\ Served \in FeedType
         /\ \A w \in Windows : Request(w) \in RequestType
         /\ \A feed \in FeedType : SetFeed(feed) \in [Windows -> FeedType]
         /\ \A cached \in [Windows -> FeedType], stories \in SUBSET Stories :
              Restore(cached, stories) \in [Windows -> FeedType]
         /\ (DeckRead => deck' \in [version : Nat, saw : SUBSET Stories])
  <1> USE Constants DEF TypeOK, FeedType
  <1>1. Feed \in FeedType
    BY DEF Feed
  <1>2. Served \in FeedType
    BY DEF Served
  <1>3. \A w \in Windows : Request(w) \in RequestType
    BY DEF Request, RequestType
  <1>4. \A feed \in FeedType : SetFeed(feed) \in [Windows -> FeedType]
    BY DEF SetFeed
  <1>5. ASSUME NEW cached \in [Windows -> FeedType], NEW stories \in SUBSET Stories
        PROVE  Restore(cached, stories) \in [Windows -> FeedType]
    <2>1. ASSUME NEW w \in Windows
          PROVE  [cached[w] EXCEPT !.rows = @ \union {s \in stories : voteWindow[s] = w}] \in FeedType
      <3>1. cached[w] \in FeedType /\ {s \in stories : voteWindow[s] = w} \in SUBSET Stories
        OBVIOUS
      <3> QED
        BY <3>1
    <2> QED
      BY <2>1 DEF Restore
  <1>6. DeckRead => deck' \in [version : Nat, saw : SUBSET Stories]
    BY DEF DeckRead, Cold
  <1> QED
    BY <1>1, <1>2, <1>3, <1>4, <1>5, <1>6

(* The prefetch worker asks for windows only, and notes what it asked.      *)
PrefetchTyped == prefetch' \in RequestType /\ attempts' \subseteq Windows \X Nat

LEMMA PrefetchTypes ==
  ASSUME TypeOK, NEW w \in Windows, NEW cached \in [Windows -> FeedType], NEW isOpen
  PROVE  /\ PrefetchNext(w, isOpen, cached) => PrefetchTyped
         /\ SchedulePrefetch(w, cached) => PrefetchTyped
  <1>1. cached[w].version \in Nat
    BY DEF FeedType
  <1>2. prefetch \in RequestType /\ attempts \subseteq Windows \X Nat
    BY DEF TypeOK
  <1>3. \A open_ : PrefetchNext(w, open_, cached) => PrefetchTyped
    <2> SUFFICES ASSUME NEW open_, PrefetchNext(w, open_, cached) PROVE PrefetchTyped
      OBVIOUS
    <2>1. CASE prefetch' = NoRequest /\ UNCHANGED attempts
      BY <1>2, <2>1, Constants DEF PrefetchTyped
    <2>2. CASE \E x \in Windows : /\ prefetch' = Request(x)
                                 /\ attempts' = attempts \union {<<x, cached[w].version>>}
      BY <1>1, <1>2, <2>2, FeedTypes DEF PrefetchTyped
    <2> QED
      BY <2>1, <2>2 DEF PrefetchNext, Wanted
  <1> QED
    BY <1>2, <1>3 DEF SchedulePrefetch, PrefetchTyped

-----------------------------------------------------------------------------
(* Every variable keeps its type.                                           *)
LEMMA InitTyped == ASSUME Init PROVE TypeOK
  <1>1. /\ voted \subseteq Stories /\ window \in Windows /\ current \in Nat
        /\ deck \in [version : Nat, saw : SUBSET Stories]
    BY BootsAssumption DEF Init, Cold
  <1>2. /\ feeds \in [Windows -> FeedType]
        /\ voteWindow \in [Stories -> Windows \union {NoWindow}] /\ revision \in [Stories -> Nat]
    BY Constants DEF Init
  <1>3. {refresh, prefetch} \subseteq RequestType
    BY <1>1, Constants DEF Init, Request, RequestType
  <1>4. history \in Seq(Stories) /\ IsInjective(history) /\ queue \in Seq(VoteType)
    BY DEF Init, IsInjective
  <1>5. /\ {rated, restored, unsure} \subseteq SUBSET Stories /\ late \subseteq VoteType
        /\ {errors, snapshot, report, acked} \subseteq SUBSET Keys
        /\ attempts \subseteq Windows \X Nat
    BY DEF Init
  <1>6. /\ settingUp \in BOOLEAN /\ open \in BOOLEAN /\ sortPending \in BOOLEAN
        /\ uncached \in BOOLEAN
    BY DEF Init
  <1>7. /\ api \in Nat /\ quit \in {"no", "waiting", "exited"}
        /\ {known, switches, faults, regens} \subseteq Nat
    BY DEF Init
  <1> QED
    BY <1>1, <1>2, <1>3, <1>4, <1>5, <1>6, <1>7 DEF TypeOK

LEMMA ServerKeepsTypes == ASSUME TypeOK, Server PROVE TypeOK'
  <1> USE DEF TypeOK, server, view, marks, voting, quitting, bounds
  <1>1. CASE Rank
    BY <1>1, SMTT(30) DEF Rank
  <1>2. CASE Regen
    BY <1>2, SMTT(30) DEF Regen
  <1>3. CASE Restart
    BY <1>3, BootsAssumption, SMTT(30) DEF Restart, Cold
  <1>4. CASE ServeRefresh
    <2>1. refresh' \in RequestType
      BY <1>4, FeedTypes DEF ServeRefresh, RequestType
    <2>2. deck' \in [version : Nat, saw : SUBSET Stories]
      BY <1>4, FeedTypes DEF ServeRefresh
    <2> QED
      BY <1>4, <2>1, <2>2 DEF ServeRefresh
  <1>5. CASE ServePrefetch
    <2>1. [Served EXCEPT !.profile = prefetch.profile] \in FeedType
      BY FeedTypes DEF FeedType, RequestType
    <2>2. prefetch' \in RequestType
      BY <1>5, <2>1 DEF ServePrefetch, RequestType
    <2>3. deck' \in [version : Nat, saw : SUBSET Stories]
      BY <1>5, FeedTypes DEF ServePrefetch
    <2> QED
      BY <1>5, <2>2, <2>3 DEF ServePrefetch
  <1>6. ASSUME NEW vote \in VoteType, Record(vote)
        PROVE  voted' \subseteq Stories /\ current' \in Nat /\ deck' = deck
    BY <1>6 DEF Record, After, VoteType
  <1>7. CASE ServeVote
    <2>1. Head(queue) \in VoteType /\ 1 \in DOMAIN queue /\ queue[1] \in VoteType
      BY <1>7, HeadAndTail DEF ServeVote
    <2>2. voted' \subseteq Stories /\ current' \in Nat /\ deck' = deck
      BY <1>6, <1>7, <2>1 DEF ServeVote
    <2>3. [queue[1] EXCEPT !.target = current'] \in VoteType
      BY <2>1, <2>2 DEF VoteType
    <2>4. queue' \in Seq(VoteType)
      BY <1>7, <2>1, <2>3, ExceptSeq DEF ServeVote
    <2> QED
      BY <1>7, <2>2, <2>4 DEF ServeVote
  <1>8. CASE ServeLate
    <2>1. PICK vote \in late : Record(vote) /\ late' = late \ {vote} /\ unsure' = unsure \union {vote.story}
      BY <1>8 DEF ServeLate
    <2>2. vote \in VoteType /\ voted' \subseteq Stories /\ current' \in Nat /\ deck' = deck
      BY <1>6, <2>1
    <2>3. late' \subseteq VoteType /\ unsure' \in SUBSET Stories
      BY <2>1, <2>2 DEF VoteType
    <2> QED
      BY <1>8, <2>2, <2>3 DEF ServeLate
  <1> QED
    BY <1>1, <1>2, <1>3, <1>4, <1>5, <1>7, <1>8 DEF Server

LEMMA ApplyTypes ==
  ASSUME TypeOK, NEW s \in Stories
  PROVE  /\ ApplyVote(s) /\ (\A i \in DOMAIN history : history[i] # s) =>
              /\ {rated', restored'} \subseteq SUBSET Stories /\ feeds' = feeds
              /\ history' \in Seq(Stories) /\ IsInjective(history')
              /\ voteWindow' \in [Stories -> Windows \union {NoWindow}]
         /\ ApplyUndo(s) =>
              /\ {rated', restored'} \subseteq SUBSET Stories /\ feeds' \in [Windows -> FeedType]
              /\ history' \in Seq(Stories) /\ IsInjective(history')
              /\ voteWindow' \in [Stories -> Windows \union {NoWindow}]
  <1> USE DEF TypeOK
  <1>1. ASSUME ApplyVote(s), \A i \in DOMAIN history : history[i] # s
        PROVE  /\ history' \in Seq(Stories) /\ IsInjective(history')
               /\ voteWindow' \in [Stories -> Windows \union {NoWindow}]
    <2>1. history' = Append(history, s)
      BY <1>1 DEF ApplyVote
    <2>2. IsInjective(history')
      <3>1. /\ DOMAIN history' = 1..(Len(history) + 1) /\ DOMAIN history = 1..Len(history)
            /\ Len(history) \in Nat /\ history'[Len(history) + 1] = s
            /\ \A i \in DOMAIN history : history'[i] = history[i]
        BY <2>1, Appended
      <3>2. \A i \in DOMAIN history, j \in DOMAIN history :
              history'[i] = history'[j] => i = j
        BY <3>1 DEF IsInjective
      <3>3. \A i \in DOMAIN history : history'[i] # s
        BY <1>1, <3>1
      <3>4. \A i \in DOMAIN history' : i \in DOMAIN history \/ i = Len(history) + 1
        BY <3>1
      <3> QED
        BY <3>1, <3>2, <3>3, <3>4 DEF IsInjective
    <2> QED
      BY <1>1, <2>1, <2>2 DEF ApplyVote
  <1>2. ASSUME ApplyUndo(s)
        PROVE  history' \in Seq(Stories) /\ IsInjective(history') /\ feeds' \in [Windows -> FeedType]
    <2>1. Restore(feeds, {s}) \in [Windows -> FeedType]
      BY FeedTypes
    <2>2. feeds' = [w \in Windows |->
                     IF uncached /\ w = window THEN feeds[w] ELSE Restore(feeds, {s})[w]]
      BY <1>2 DEF ApplyUndo
    <2>3. \A w \in Windows : feeds[w] \in FeedType /\ Restore(feeds, {s})[w] \in FeedType
      BY <2>1
    <2>4. feeds' \in [Windows -> FeedType]
      BY <2>2, <2>3
    <2> QED
      BY <1>2, <2>4, WithoutOne DEF ApplyUndo
  <1>3. ASSUME ApplyVote(s)
        PROVE  {rated', restored'} \subseteq SUBSET Stories /\ feeds' = feeds
    BY <1>3 DEF ApplyVote
  <1>4. ASSUME ApplyUndo(s)
        PROVE  /\ {rated', restored'} \subseteq SUBSET Stories
               /\ voteWindow' \in [Stories -> Windows \union {NoWindow}]
    BY <1>4 DEF ApplyUndo
  <1> HIDE DEF TypeOK
  <1> QED
    BY <1>1, <1>2, <1>3, <1>4

LEMMA SubmitTypes ==
  ASSUME TypeOK, NEW s \in Stories, NEW action \in {"vote", "clear"}, Submit(s, action)
  PROVE  /\ revision' \in [Stories -> Nat]
         /\ queue' \in Seq(VoteType)
         /\ acked' \in SUBSET Keys
  <1>1. [story |-> s, action |-> action, revision |-> revision[s] + 1, target |-> 0] \in VoteType
    BY DEF TypeOK, VoteType
  <1> QED
    BY <1>1 DEF Submit, TypeOK

LEMMA QueueTypes ==
  ASSUME TypeOK
  PROVE  /\ DOMAIN queue = 1..Len(queue) /\ Len(queue) \in Nat
         /\ \A i \in DOMAIN queue : queue[i] \in VoteType /\ Key(queue[i]) \in Keys
  <1>1. queue \in Seq(VoteType)
    BY DEF TypeOK
  <1>2. DOMAIN queue = 1..Len(queue) /\ Len(queue) \in Nat
    BY <1>1
  <1>3. ASSUME NEW i \in DOMAIN queue PROVE queue[i] \in VoteType /\ Key(queue[i]) \in Keys
    <2>1. queue[i] \in VoteType
      BY <1>1, <1>2, ElementOfSeq
    <2>2. queue[i].story \in Stories /\ queue[i].revision \in Nat
      BY <2>1 DEF VoteType
    <2> QED
      BY <2>1, <2>2 DEF Key, Keys
  <1> QED
    BY <1>2, <1>3

LEMMA UserKeepsTypes == ASSUME TypeOK, Screen, User PROVE TypeOK'
  <1> USE DEF TypeOK, server, view, marks, voting, quitting, bounds
  <1>1. CASE UserVote
    <2>1. PICK s \in Stories : /\ s \notin rated
                               /\ ApplyVote(s) /\ Submit(s, "vote")
                               /\ UNCHANGED <<server, api, settingUp, window, open, uncached,
                                    attempts, late, errors, unsure, refresh, sortPending, prefetch,
                                    quitting, known, bounds>>
      BY <1>1, FeedTypes DEF UserVote, Shown, FeedType
    <2>2. \A i \in DOMAIN history : history[i] # s
      BY <2>1 DEF Screen
    <2>3. /\ {rated', restored'} \subseteq SUBSET Stories /\ feeds' = feeds
          /\ history' \in Seq(Stories) /\ IsInjective(history')
          /\ voteWindow' \in [Stories -> Windows \union {NoWindow}]
      BY <2>1, <2>2, ApplyTypes
    <2>4. revision' \in [Stories -> Nat] /\ queue' \in Seq(VoteType) /\ acked' \in SUBSET Keys
      BY <2>1, SubmitTypes
    <2> QED
      BY <2>1, <2>3, <2>4
  <1>2. CASE UserUndo
    <2>1. PICK s : s = Last(history)
      OBVIOUS
    <2>2. s \in Stories
      BY <1>2, <2>1 DEF UserUndo, Last
    <2>3. /\ {rated', restored'} \subseteq SUBSET Stories /\ feeds' \in [Windows -> FeedType]
          /\ history' \in Seq(Stories) /\ IsInjective(history')
          /\ voteWindow' \in [Stories -> Windows \union {NoWindow}]
      BY <1>2, <2>1, <2>2, ApplyTypes DEF UserUndo
    <2>4. revision' \in [Stories -> Nat] /\ queue' \in Seq(VoteType) /\ acked' \in SUBSET Keys
      BY <1>2, <2>1, <2>2, SubmitTypes DEF UserUndo
    <2> QED
      BY <1>2, <2>3, <2>4 DEF UserUndo
  <1>3. CASE SwitchWindow
    <2>1. PICK w \in Windows \ {window} :
            /\ switches' = switches + 1
            /\ window' = w
            /\ uncached' = FALSE
            /\ IF open /\ feeds[w] # NoFeed /\ feeds[w].version = Feed.version
               THEN LET cached == [InCache EXCEPT ![w].target = Feed.target, ![w].ready = Feed.ready]
                    IN  /\ feeds' = cached
                        /\ SchedulePrefetch(w, cached)
                        /\ UNCHANGED <<open, refresh>>
               ELSE /\ open' = FALSE
                    /\ Refresh(w)
                    /\ feeds' = InCache
                    /\ UNCHANGED <<prefetch, attempts>>
            /\ UNCHANGED <<server, api, settingUp, marks, voting, sortPending, quitting, known,
                           faults, regens>>
      BY <1>3 DEF SwitchWindow
    <2>2. /\ feeds' \in [Windows -> FeedType] /\ PrefetchTyped
          /\ open' \in BOOLEAN /\ refresh' \in RequestType
      <3>0. InCache \in [Windows -> FeedType]
        BY FeedTypes, Constants DEF InCache
      <3>1. CASE open /\ feeds[w] # NoFeed /\ feeds[w].version = Feed.version
        <4>1. PICK cached : cached = [InCache EXCEPT ![w].target = Feed.target, ![w].ready = Feed.ready]
          OBVIOUS
        <4>2. cached \in [Windows -> FeedType]
          <5>1. Feed.target \in Nat /\ Feed.ready \in BOOLEAN
            BY FeedTypes DEF FeedType
          <5>2. PICK feed \in FeedType :
                  feed = [InCache[w] EXCEPT !.target = Feed.target, !.ready = Feed.ready]
            BY <3>0, <5>1 DEF FeedType
          <5>3. cached = [InCache EXCEPT ![w] = feed]
            BY <4>1, <5>2
          <5>4. InCache \in [Windows -> FeedType]
            BY <3>0
          <5> HIDE DEF TypeOK
          <5> QED
            BY <5>2, <5>3, <5>4
        <4>3. feeds' = cached /\ SchedulePrefetch(w, cached) /\ open' = open /\ refresh' = refresh
          BY <2>1, <3>1, <4>1
        <4> QED
          BY <4>2, <4>3, PrefetchTypes
      <3>2. CASE ~(open /\ feeds[w] # NoFeed /\ feeds[w].version = Feed.version)
        <4>1. open' = FALSE /\ Refresh(w) /\ feeds' = InCache /\ UNCHANGED <<prefetch, attempts>>
          BY <2>1, <3>2
        <4> QED
          BY <3>0, <4>1, FeedTypes DEF Refresh, PrefetchTyped
      <3> QED
        BY <3>1, <3>2
    <2>3. uncached' \in BOOLEAN
      BY <2>1
    <2> QED
      BY <2>1, <2>2, <2>3 DEF PrefetchTyped
  <1>4. CASE SwitchSort
    <2>1. refresh' \in RequestType /\ sortPending' \in BOOLEAN
      BY <1>4, FeedTypes DEF SwitchSort, Refresh
    <2> QED
      BY <1>4, <2>1 DEF SwitchSort
  <1>5. CASE Quit
    <2>1. Pending \in SUBSET Keys
      <3>1. \A i \in DOMAIN queue : Key(queue[i]) \in Keys
        BY QueueTypes
      <3> QED
        BY <3>1 DEF Pending
    <2> QED
      BY <1>5, <2>1 DEF Quit
  <1>6. CASE Exit
    BY <1>6 DEF Exit
  <1>7. CASE Connected
    <2>1. refresh' \in RequestType
      <3>1. Request(window) \in RequestType /\ api' \in Nat
        BY <1>7, FeedTypes DEF Connected
      <3>2. refresh' = [Request(window) EXCEPT !.profile = api']
        BY <1>7 DEF Connected
      <3> QED
        BY <3>1, <3>2 DEF RequestType
    <2>2. /\ feeds' \in [Windows -> FeedType]
          /\ voteWindow' \in [Stories -> Windows \union {NoWindow}]
      BY <1>7, Constants DEF Connected
    <2>3. history' \in Seq(Stories) /\ IsInjective(history')
      BY <1>7 DEF Connected, IsInjective
    <2>4. voted' \subseteq Stories /\ deck' \in [version : Nat, saw : SUBSET Stories]
      BY <1>7 DEF Connected, Cold
    <2>5. settingUp' \in BOOLEAN /\ open' \in BOOLEAN /\ sortPending' \in BOOLEAN
      BY <1>7 DEF Connected
    <2>6. /\ {rated', restored', unsure'} \subseteq SUBSET Stories /\ late' \subseteq VoteType
          /\ attempts' \subseteq Windows \X Nat /\ api' \in Nat /\ known' \in Nat
      BY <1>7 DEF Connected
    <2> QED
      BY <1>7, <2>1, <2>2, <2>3, <2>4, <2>5, <2>6 DEF Connected
  <1> QED
    BY <1>1, <1>2, <1>3, <1>4, <1>5, <1>6, <1>7 DEF User

LEMMA ReceiveKeepsTypes == ASSUME TypeOK, Flights, Receive PROVE TypeOK'
  <1> USE DEF TypeOK, server, view, marks, voting, quitting, bounds
  <1>1. CASE ReceiveRefresh
    <2>1. /\ refresh \in RequestType /\ refresh.reply \in FeedType
          /\ refresh.window \in Windows
      BY <1>1, Constants DEF RequestType, ReceiveRefresh, Answered, Flights
    <2>2. \A isOpen : FinishSortRefresh(window, isOpen) =>
            sortPending' \in BOOLEAN /\ refresh' \in RequestType
      <3>1. Request(window) \in RequestType /\ NoRequest \in RequestType
        BY FeedTypes, Constants
      <3> QED
        BY <3>1 DEF FinishSortRefresh
    <2>3. /\ open' \in BOOLEAN /\ feeds' \in [Windows -> FeedType] /\ PrefetchTyped
          /\ sortPending' \in BOOLEAN /\ refresh' \in RequestType /\ restored' \in SUBSET Stories
      <3>1. CASE DropReply
        BY <2>2, <3>1 DEF DropReply, PrefetchTyped
      <3>2. CASE KeepReply(refresh.window, refresh.reply)
        BY <2>1, <2>2, <3>2 DEF KeepReply, PrefetchTyped
      <3>3. CASE ShowReply(refresh.reply)
        <4>1. PICK feed : feed = refresh.reply
          OBVIOUS
        <4>2. /\ restored' = restored \ feed.rows /\ open' = TRUE
              /\ FinishSortRefresh(window, TRUE)
          BY <3>3, <4>1 DEF ShowReply
        <4>3. restored' \in SUBSET Stories
          BY <4>2
        <4>4. PICK shown : shown = IF feed.ready THEN SetFeed(feed) ELSE Restore(SetFeed(feed), restored')
          OBVIOUS
        <4>5. shown \in [Windows -> FeedType]
          BY <2>1, <4>1, <4>3, <4>4, FeedTypes
        <4>6. feeds' = shown /\ SchedulePrefetch(window, shown)
          BY <3>3, <4>1, <4>4 DEF ShowReply
        <4> QED
          BY <2>2, <4>2, <4>3, <4>5, <4>6, PrefetchTypes
      <3> QED
        BY <1>1, <3>1, <3>2, <3>3 DEF ReceiveRefresh
    <2>4. uncached' \in BOOLEAN
      BY <1>1 DEF ReceiveRefresh, DropReply, KeepReply, ShowReply
    <2> QED
      BY <1>1, <2>3, <2>4 DEF ReceiveRefresh, PrefetchTyped
  <1>2. CASE ReceivePrefetch
    <2>1. prefetch \in RequestType /\ prefetch.reply \in FeedType /\ prefetch.window \in Windows
      BY <1>2, Constants DEF RequestType, ReceivePrefetch, Answered, Flights
    <2>2. PICK cached : cached = IF Accepts(prefetch)
                          THEN [feeds EXCEPT ![prefetch.window] = prefetch.reply] ELSE feeds
      OBVIOUS
    <2>3. cached \in [Windows -> FeedType]
      BY <2>1, <2>2
    <2>4. feeds' = cached /\ PrefetchNext(window, open, cached)
      BY <1>2, <2>2 DEF ReceivePrefetch
    <2>5. PrefetchTyped
      BY <2>3, <2>4, PrefetchTypes
    <2> QED
      BY <1>2, <2>3, <2>4, <2>5 DEF ReceivePrefetch, PrefetchTyped
  <1>3. CASE AckVote
    <2>1. Head(queue) \in VoteType /\ Tail(queue) \in Seq(VoteType)
      BY <1>3, HeadAndTail DEF AckVote
    <2>2. Key(Head(queue)) \in Keys /\ Head(queue).target \in Nat
      BY <2>1 DEF Key, Keys, VoteType
    <2>3. acked' \in SUBSET Keys /\ queue' \in Seq(VoteType)
      BY <1>3, <2>1, <2>2 DEF AckVote
    <2>4. /\ feeds' \in [Windows -> FeedType] /\ refresh' \in RequestType /\ known' \in Nat
          /\ uncached' \in BOOLEAN
      <3>1. [Feed EXCEPT !.target = Head(queue).target, !.ready = FALSE] \in FeedType
        BY <2>2, FeedTypes DEF FeedType
      <3>2. [refresh EXCEPT !.newest = FALSE] \in RequestType
        BY DEF RequestType
      <3> QED
        BY <1>3, <2>2, <3>1, <3>2, FeedTypes DEF AckVote
    <2> QED
      BY <1>3, <2>3, <2>4 DEF AckVote
  <1>4. CASE Poll \/ PollCounts
    <2>1. Reload
      BY <1>4 DEF Poll, PollCounts
    <2>2. refresh' \in RequestType /\ deck' \in [version : Nat, saw : SUBSET Stories]
      BY <2>1, FeedTypes DEF Reload, Refresh
    <2>3. CASE ForgetDecks
      <3>1. NoFeed \in FeedType /\ \A w \in Windows : feeds[w] \in FeedType
        BY Constants
      <3>2. feeds' \in [Windows -> FeedType]
        BY <2>3, <3>1 DEF ForgetDecks
      <3>3. prefetch' \in RequestType
        BY <2>3 DEF ForgetDecks, RequestType
      <3>4. /\ regens' \in Nat /\ uncached' \in BOOLEAN
            /\ attempts' \subseteq Windows \X Nat
        BY <2>3 DEF ForgetDecks
      <3> QED
        BY <2>1, <2>2, <3>2, <3>3, <3>4 DEF Reload
    <2>4. CASE UNCHANGED <<feeds, uncached, attempts, prefetch, regens>>
      BY <2>1, <2>2, <2>4 DEF Reload
    <2> QED
      BY <1>4, <2>3, <2>4 DEF Poll, PollCounts
  <1> QED
    BY <1>1, <1>2, <1>3, <1>4 DEF Receive

LEMMA FaultKeepsTypes == ASSUME TypeOK, Screen, Fault PROVE TypeOK'
  <1> USE DEF TypeOK, server, view, marks, voting, quitting, bounds
  <1>0. ASSUME Setup(queue)
        PROVE  /\ settingUp' \in BOOLEAN /\ sortPending' \in BOOLEAN
               /\ refresh' \in RequestType
               /\ queue' \in Seq(VoteType) /\ errors' \in SUBSET Keys
    <2>1. settingUp' = TRUE /\ sortPending' = FALSE /\ refresh' = NoRequest /\ queue' = <<>>
      BY <1>0 DEF Setup
    <2>2. errors' \in SUBSET Keys
      BY <1>0 DEF Setup, Fail
    <2>3. queue' \in Seq(VoteType) /\ refresh' \in RequestType
      BY <2>1, Constants
    <2> QED
      BY <2>1, <2>2, <2>3
  <1>1. CASE FailRefresh
    <2>1. refresh' \in RequestType /\ sortPending' \in BOOLEAN
      BY <1>1, Constants DEF FailRefresh
    <2> QED
      BY <1>1, <2>1 DEF FailRefresh
  <1>2. CASE RejectRefresh
    <2>1. Setup(queue) /\ faults' \in Nat
      BY <1>2 DEF RejectRefresh
    <2> QED
      BY <1>0, <1>2, <2>1 DEF RejectRefresh
  <1>3. CASE FailPrefetch
    <2>1. PrefetchTyped
      BY <1>3, PrefetchTypes DEF FailPrefetch
    <2> QED
      BY <1>3, <2>1 DEF FailPrefetch, PrefetchTyped
  <1>4. CASE FailVote
    <2>1. PICK vote : vote = Head(queue)
      OBVIOUS
    <2>2. vote \in VoteType /\ Tail(queue) \in Seq(VoteType) /\ vote = queue[1] /\ 1 \in DOMAIN queue
      BY <1>4, <2>1, HeadAndTail DEF FailVote
    <2>3. /\ queue' \in Seq(VoteType) /\ errors' \in SUBSET Keys /\ late' \subseteq VoteType
      BY <1>4, <2>1, <2>2 DEF FailVote, Fail
    <2>4. vote.story \in Stories /\ vote.action \in {"vote", "clear"}
      BY <2>2 DEF VoteType
    <2>5. \/ UNCHANGED <<marks, feeds>>
          \/ ApplyUndo(vote.story)
          \/ /\ ApplyVote(vote.story)
             /\ \A i \in DOMAIN history : history[i] # vote.story
      BY <1>4, <2>1, <2>2 DEF FailVote, Screen, Choice
    <2>6. /\ {rated', restored'} \subseteq SUBSET Stories /\ feeds' \in [Windows -> FeedType]
          /\ history' \in Seq(Stories) /\ IsInjective(history')
          /\ voteWindow' \in [Stories -> Windows \union {NoWindow}]
      <3>1. CASE UNCHANGED <<marks, feeds>>
        BY <3>1
      <3>2. CASE ~UNCHANGED <<marks, feeds>>
        BY <2>4, <2>5, <3>2, ApplyTypes
      <3> QED
        BY <3>1, <3>2
    <2>7. /\ UNCHANGED <<server, api, settingUp, window, open, uncached, attempts, revision, acked,
                          unsure, refresh, sortPending, prefetch, quitting, known, switches, regens>>
          /\ faults' = faults + 1
      BY <1>4 DEF FailVote
    <2>8. uncached' \in BOOLEAN
      BY <2>7
    <2> QED
      BY <2>3, <2>6, <2>7, <2>8
  <1>5. CASE RejectVote
    <2>1. Setup(queue) /\ faults' \in Nat
      BY <1>5 DEF RejectVote
    <2> QED
      BY <1>0, <1>5, <2>1 DEF RejectVote
  <1> QED
    BY <1>1, <1>2, <1>3, <1>4, <1>5 DEF Fault

LEMMA StepKeepsTypes ==
  ASSUME TypeOK, Flights, Screen, [Next]_vars PROVE TypeOK'
  <1>1. CASE UNCHANGED vars
    BY <1>1 DEF vars, TypeOK, server, view, marks, voting, quitting, bounds
  <1> QED
    BY <1>1, ServerKeepsTypes, UserKeepsTypes, ReceiveKeepsTypes, FaultKeepsTypes DEF Next

-----------------------------------------------------------------------------
(* Requests under way, and the follow-up of a sort change.                  *)
Requests == Flights /\ NoStrandedFollowUp

LEMMA RequestFacts ==
  ASSUME NEW w \in Windows
  PROVE  /\ Request(w) # NoRequest
         /\ Request(w).window = w /\ Request(w).profile = api
         /\ Request(w).reply = NoFeed /\ Request(w).newest
  BY WindowsAssumption DEF Request, NoRequest

NewPrefetch ==
  \/ prefetch' = prefetch
  \/ prefetch' = NoRequest
  \/ prefetch'.window \in Windows /\ prefetch'.reply = NoFeed
  \/ /\ prefetch # NoRequest /\ prefetch'.window = prefetch.window
     /\ prefetch'.profile = prefetch.profile /\ prefetch'.reply = prefetch.reply

LEMMA PrefetchFacts ==
  ASSUME NEW w, NEW isOpen, NEW cached
  PROVE  /\ PrefetchNext(w, isOpen, cached) => NewPrefetch
         /\ SchedulePrefetch(w, cached) => NewPrefetch
  <1>1. \A going : PrefetchNext(w, going, cached) => NewPrefetch
    <2> SUFFICES ASSUME NEW going, PrefetchNext(w, going, cached) PROVE NewPrefetch
      OBVIOUS
    <2>1. prefetch' = NoRequest \/ \E x \in Windows : prefetch' = Request(x)
      BY DEF PrefetchNext, Wanted
    <2> QED
      BY <2>1, RequestFacts DEF NewPrefetch
  <1> QED
    BY <1>1 DEF SchedulePrefetch, NewPrefetch

(* The frame of every step but four: what becomes of the two requests.      *)
LEMMA RequestsKept ==
  ASSUME Requests, NewPrefetch, UNCHANGED <<api, settingUp>>,
         ~settingUp \/ UNCHANGED <<queue, refresh, sortPending>>,
         \/ refresh' = refresh
         \/ refresh' = NoRequest /\ ~sortPending'
         \/ \E w \in Windows : refresh' = Request(w),
         sortPending' => (sortPending \/ refresh' # NoRequest)
  PROVE  Requests'
  <1>1. \A w \in Windows : Request(w) # NoRequest /\ Request(w).window = w
                           /\ Request(w).profile = api /\ Request(w).reply = NoFeed
    BY RequestFacts
  <1>2. refresh' # NoRequest =>
          /\ refresh'.window \in Windows
          /\ refresh'.profile = api
          /\ refresh'.reply # NoFeed => refresh'.reply.profile = api
    BY <1>1 DEF Requests, Flights
  <1>3. prefetch' # NoRequest =>
          /\ prefetch'.window \in Windows
          /\ prefetch'.reply # NoFeed => prefetch'.reply.profile = prefetch'.profile
    BY DEF Requests, Flights, NewPrefetch
  <1>4. settingUp' => queue' = <<>> /\ refresh' = NoRequest /\ ~sortPending'
    BY DEF Requests, Flights
  <1>5. sortPending' => refresh' # NoRequest
    BY <1>1 DEF Requests, NoStrandedFollowUp
  <1> QED
    BY <1>2, <1>3, <1>4, <1>5 DEF Requests, Flights, NoStrandedFollowUp

LEMMA FollowUpFacts ==
  ASSUME NEW w \in Windows, NEW isOpen, FinishSortRefresh(w, isOpen)
  PROVE  ~sortPending' /\ (refresh' = NoRequest \/ \E x \in Windows : refresh' = Request(x))
  BY DEF FinishSortRefresh

(* A poll that asks for the feed again, with the caches kept or forgotten.  *)
LEMMA Polled ==
  ASSUME TypeOK, Poll \/ PollCounts
  PROVE  /\ UNCHANGED <<voted, current, api, settingUp, window, open, marks, voting, sortPending,
                        quitting, known>>
         /\ ~settingUp /\ refresh' = Request(window)
         /\ \/ prefetch' = prefetch
            \/ prefetch # NoRequest /\ prefetch' = [prefetch EXCEPT !.newest = FALSE]
         /\ feeds'[window] = feeds[window]
         /\ \A w \in Windows : feeds'[w] = feeds[w] \/ feeds'[w] = NoFeed
  <1>1. Reload
    BY DEF Poll, PollCounts
  <1>2. CASE UNCHANGED <<feeds, uncached, attempts, prefetch, regens>>
    BY <1>1, <1>2 DEF Reload, Running, Refresh
  <1>3. CASE ForgetDecks
    <2>1. \/ prefetch' = prefetch
          \/ prefetch # NoRequest /\ prefetch' = [prefetch EXCEPT !.newest = FALSE]
      BY <1>3 DEF ForgetDecks
    <2>2. /\ feeds'[window] = feeds[window]
          /\ \A w \in Windows : feeds'[w] = feeds[w] \/ feeds'[w] = NoFeed
      BY <1>3 DEF ForgetDecks, TypeOK
    <2> QED
      BY <1>1, <2>1, <2>2 DEF Reload, Running, Refresh
  <1> QED
    BY <1>2, <1>3 DEF Poll, PollCounts

LEMMA InitRequests == ASSUME Init PROVE Requests
  BY RequestFacts DEF Init, Requests, Flights, NoStrandedFollowUp

LEMMA StepKeepsRequests ==
  ASSUME TypeOK, Requests, [Next]_vars PROVE Requests'
  <1> USE DEF server, view, marks, voting, quitting, bounds
  <1>t. window \in Windows /\ refresh \in RequestType /\ prefetch \in RequestType
    BY DEF TypeOK
  <1>1. CASE \/ UNCHANGED vars
             \/ Rank \/ Regen \/ Restart \/ ServeLate \/ Quit \/ Exit
    BY <1>1, RequestsKept DEF vars, Rank, Regen, Restart, ServeLate, Quit, Exit, NewPrefetch
  <1>2. CASE ServeVote
    <2>1. queue # <<>>
      BY <1>2 DEF ServeVote
    <2> QED
      BY <1>2, <2>1, RequestsKept DEF ServeVote, NewPrefetch, Requests, Flights
  <1>3. CASE ServeRefresh
    <2>1. /\ refresh # NoRequest /\ refresh' = [refresh EXCEPT !.reply = Served]
          /\ UNCHANGED <<api, settingUp, queue, sortPending, prefetch>>
      BY <1>3 DEF ServeRefresh, Sent
    <2>2. Served.profile = api
      BY DEF Served
    <2>3. /\ refresh'.window = refresh.window /\ refresh'.profile = refresh.profile
          /\ refresh'.reply = Served
      BY <1>t, <2>1 DEF RequestType
    <2>4. refresh' # NoRequest
      BY <2>1, <2>3, Constants, WindowsAssumption DEF Requests, Flights
    <2> QED
      BY <2>1, <2>2, <2>3, <2>4 DEF Requests, Flights, NoStrandedFollowUp
  <1>4. CASE ServePrefetch
    <2>1. /\ prefetch # NoRequest
          /\ prefetch' = [prefetch EXCEPT !.reply = [Served EXCEPT !.profile = prefetch.profile]]
          /\ UNCHANGED <<api, settingUp, queue, sortPending, refresh>>
      BY <1>4 DEF ServePrefetch, Sent
    <2>2. [Served EXCEPT !.profile = prefetch.profile].profile = prefetch.profile
      BY FeedTypes DEF FeedType
    <2>3. /\ prefetch'.window = prefetch.window /\ prefetch'.profile = prefetch.profile
          /\ prefetch'.reply.profile = prefetch.profile
      BY <1>t, <2>1, <2>2 DEF RequestType
    <2> QED
      BY <2>1, <2>3 DEF Requests, Flights, NoStrandedFollowUp
  <1>5. CASE UserVote \/ UserUndo
    BY <1>5, RequestsKept DEF UserVote, UserUndo, NewPrefetch
  <1>6. CASE SwitchWindow
    <2>1. /\ ~settingUp /\ UNCHANGED <<api, settingUp, queue, sortPending>>
          /\ refresh' = refresh \/ \E w \in Windows : refresh' = Request(w)
          /\ \/ UNCHANGED prefetch
             \/ \E w, cached : SchedulePrefetch(w, cached)
      BY <1>6 DEF SwitchWindow, Refresh
    <2> QED
      BY <2>1, RequestsKept, PrefetchFacts DEF NewPrefetch
  <1>7. CASE SwitchSort
    BY <1>7, <1>t, RequestsKept DEF SwitchSort, Refresh, NewPrefetch
  <1>8. CASE Connected
    <2>1. /\ refresh' = [Request(window) EXCEPT !.profile = api']
          /\ api' = api + 1 /\ settingUp' = FALSE /\ ~sortPending /\ UNCHANGED <<sortPending, prefetch>>
      BY <1>8 DEF Connected, Requests, Flights
    <2>2. refresh'.window = window /\ refresh'.profile = api' /\ refresh'.reply = NoFeed
      BY <2>1 DEF Request
    <2>3. api' > 0
      BY <2>1 DEF Requests, Flights, TypeOK
    <2> QED
      BY <1>t, <2>1, <2>2, <2>3 DEF Requests, Flights, NoStrandedFollowUp
  <1>9. CASE ReceiveRefresh
    <2>1. ~settingUp /\ UNCHANGED <<api, settingUp, queue>>
      BY <1>9 DEF ReceiveRefresh, Running
    <2>2. \E isOpen : FinishSortRefresh(window, isOpen)
      BY <1>9 DEF ReceiveRefresh, DropReply, KeepReply, ShowReply
    <2>3. \/ UNCHANGED prefetch
          \/ \E w, cached : SchedulePrefetch(w, cached)
      BY <1>9 DEF ReceiveRefresh, DropReply, KeepReply, ShowReply
    <2> QED
      BY <1>t, <2>1, <2>2, <2>3, RequestsKept, FollowUpFacts, PrefetchFacts DEF NewPrefetch
  <1>10. CASE ReceivePrefetch \/ FailPrefetch
    <2>1. UNCHANGED <<api, settingUp, queue, refresh, sortPending>>
      BY <1>10 DEF ReceivePrefetch, FailPrefetch
    <2>2. \E w, isOpen, cached : PrefetchNext(w, isOpen, cached)
      BY <1>10 DEF ReceivePrefetch, FailPrefetch
    <2> QED
      BY <2>1, <2>2, RequestsKept, PrefetchFacts
  <1>11. CASE AckVote
    <2>1. /\ ~settingUp /\ UNCHANGED <<api, settingUp, sortPending, prefetch>>
          /\ refresh' = refresh \/ refresh' = [refresh EXCEPT !.newest = FALSE]
      BY <1>11 DEF AckVote, Running
    <2>2. /\ refresh'.window = refresh.window /\ refresh'.profile = refresh.profile
          /\ refresh'.reply = refresh.reply
      BY <1>t, <2>1 DEF RequestType
    <2>3. refresh = NoRequest => refresh' = NoRequest
      BY <2>1 DEF NoRequest
    <2>4. refresh # NoRequest => refresh' # NoRequest
      BY <2>2, Constants, WindowsAssumption DEF Requests, Flights
    <2> QED
      BY <2>1, <2>2, <2>3, <2>4 DEF Requests, Flights, NoStrandedFollowUp
  <1>12. CASE Poll \/ PollCounts
    <2>1. UNCHANGED <<api, settingUp, queue, sortPending>> /\ ~settingUp /\ refresh' = Request(window)
      BY <1>12, Polled
    <2>2. NewPrefetch
      <3>1. CASE prefetch' = prefetch
        BY <3>1 DEF NewPrefetch
      <3>2. CASE prefetch # NoRequest /\ prefetch' = [prefetch EXCEPT !.newest = FALSE]
        <4>1. /\ prefetch'.window = prefetch.window /\ prefetch'.profile = prefetch.profile
              /\ prefetch'.reply = prefetch.reply
          BY <1>t, <3>2 DEF RequestType
        <4> QED
          BY <3>2, <4>1 DEF NewPrefetch, Requests, Flights
      <3> QED
        BY <1>12, <3>1, <3>2, Polled DEF TypeOK
    <2> QED
      BY <1>t, <2>1, <2>2, RequestsKept
  <1>13. CASE FailRefresh
    BY <1>13, RequestsKept DEF FailRefresh, Running, NewPrefetch
  <1>14. CASE FailVote
    BY <1>14, RequestsKept DEF FailVote, Running, NewPrefetch
  <1>15. CASE RejectRefresh \/ RejectVote
    BY <1>15 DEF RejectRefresh, RejectVote, Setup, Requests, Flights, NoStrandedFollowUp
  <1> QED
    BY <1>1, <1>2, <1>3, <1>4, <1>5, <1>6, <1>7, <1>8, <1>9, <1>10, <1>11, <1>12, <1>13, <1>14, <1>15
       DEF Next, Server, User, Receive, Fault

-----------------------------------------------------------------------------
(* The votes under way, what became of them, and what is printed on exit.   *)
Votes == Order /\ Apart /\ Reported

LEMMA KeyFacts ==
  ASSUME NEW vote \in VoteType
  PROVE  /\ Key(vote) = <<vote.story, vote.revision>> /\ Key(vote) \in Keys
         /\ vote.story \in Stories /\ vote.revision \in Nat /\ vote.target \in Nat
  BY DEF Key, Keys, VoteType

(* The keys of two votes under way differ.                                  *)
LEMMA KeysDiffer ==
  ASSUME TypeOK, Order, NEW i \in DOMAIN queue, NEW j \in DOMAIN queue, i # j
  PROVE  Key(queue[i]) # Key(queue[j])
  <1>1. queue[i] \in VoteType /\ queue[j] \in VoteType /\ i \in Int /\ j \in Int
    BY DEF TypeOK
  <1>2. i < j \/ j < i
    BY <1>1
  <1>3. queue[i].revision \in Nat /\ queue[j].revision \in Nat
    BY <1>1, KeyFacts
  <1>4. queue[i].story = queue[j].story => queue[i].revision # queue[j].revision
    BY <1>2, <1>3 DEF Order
  <1> QED
    BY <1>4 DEF Key

(* The first vote leaves the queue.                                         *)
LEMMA Taken ==
  ASSUME TypeOK, Order, queue # <<>>, queue' = Tail(queue), UNCHANGED revision
  PROVE  /\ Order'
         /\ Key(Head(queue)) \in Pending
         /\ Pending' = Pending \ {Key(Head(queue))}
  <1>q. queue \in Seq(VoteType)
    BY DEF TypeOK
  <1>h. /\ Head(queue) = queue[1] /\ 1 \in DOMAIN queue
        /\ queue' \in Seq(VoteType)
        /\ \A i \in DOMAIN queue' : i \in Nat /\ i + 1 \in DOMAIN queue /\ queue'[i] = queue[i + 1]
        /\ \A i \in DOMAIN queue : i = 1 \/ (i - 1 \in DOMAIN queue' /\ queue'[i - 1] = queue[i])
    BY <1>q, HeadAndTail
  <1>k. \A i \in DOMAIN queue : queue[i].revision \in Nat /\ i \in Nat /\ i >= 1
    BY <1>q, KeyFacts
  <1>1. \A i \in DOMAIN queue' :
          0 < queue'[i].revision /\ queue'[i].revision <= revision'[queue'[i].story]
    BY <1>h DEF Order
  <1>2. ASSUME NEW i \in DOMAIN queue', NEW j \in DOMAIN queue', i < j, queue'[i].story = queue'[j].story
        PROVE  queue'[i].revision < queue'[j].revision
    <2>1. i + 1 < j + 1
      BY <1>h, <1>2
    <2> QED
      BY <1>h, <1>2, <2>1 DEF Order
  <1>3. ASSUME NEW i \in DOMAIN queue'
        PROVE  \E j \in DOMAIN queue' :
                 queue'[j].story = queue'[i].story /\ revision'[queue'[j].story] = queue'[j].revision
    <2>1. i + 1 \in DOMAIN queue /\ queue'[i] = queue[i + 1]
      BY <1>h
    <2>2. PICK j \in DOMAIN queue : queue[j].story = queue[i + 1].story /\ Latest(queue[j])
      BY <2>1 DEF Order
    <2>3. j # 1
      <3> SUFFICES ASSUME j = 1 PROVE FALSE
        OBVIOUS
      <3>1. 1 < i + 1
        BY <1>h
      <3>2. queue[1].revision < queue[i + 1].revision
        BY <1>h, <2>1, <2>2, <3>1 DEF Order
      <3>3. queue[i + 1].revision <= queue[1].revision
        <4>1. queue[1].story = queue[i + 1].story /\ revision[queue[1].story] = queue[1].revision
          BY <2>2 DEF Latest
        <4>2. queue[i + 1].revision <= revision[queue[i + 1].story]
          BY <2>1 DEF Order
        <4> QED
          BY <4>1, <4>2
      <3> QED
        BY <1>h, <1>k, <2>1, <3>2, <3>3
    <2>4. j - 1 \in DOMAIN queue' /\ queue'[j - 1] = queue[j]
      BY <1>h, <2>3
    <2> QED
      BY <2>1, <2>2, <2>4 DEF Latest
  <1>4. Order'
    BY <1>1, <1>2, <1>3 DEF Order, Latest
  <1>5. Key(Head(queue)) \in Pending
    BY <1>h DEF Pending
  <1>6. Pending' = {Key(queue'[i]) : i \in DOMAIN queue'}
    BY DEF Pending, Key
  <1>7. \A i \in DOMAIN queue' : Key(queue'[i]) \in Pending /\ Key(queue'[i]) # Key(queue[1])
    <2> TAKE i \in DOMAIN queue'
    <2>1. i + 1 \in DOMAIN queue /\ queue'[i] = queue[i + 1] /\ i + 1 # 1
      BY <1>h
    <2> QED
      BY <1>h, <2>1, KeysDiffer DEF Pending
  <1>8. \A i \in DOMAIN queue : i = 1 \/ Key(queue[i]) \in Pending'
    BY <1>h, <1>6
  <1>9. Pending' \subseteq Pending \ {Key(queue[1])}
    BY <1>6, <1>7
  <1>10. Pending \ {Key(queue[1])} \subseteq Pending'
    BY <1>8 DEF Pending
  <1> QED
    BY <1>4, <1>5, <1>9, <1>10, <1>h

(* A vote or undo joins the queue.                                          *)
LEMMA Submitted ==
  ASSUME TypeOK, Order, NEW s \in Stories, NEW action \in {"vote", "clear"}, Submit(s, action)
  PROVE  /\ Order'
         /\ Pending' = Pending \union {<<s, revision[s] + 1>>}
         /\ queue' # <<>>
  <1>q. queue \in Seq(VoteType) /\ revision \in [Stories -> Nat]
    BY DEF TypeOK
  <1>v. PICK vote : vote = [story |-> s, action |-> action, revision |-> revision[s] + 1, target |-> 0]
    OBVIOUS
  <1>t. vote \in VoteType /\ vote.story = s /\ vote.revision = revision[s] + 1
    BY <1>q, <1>v DEF VoteType
  <1>a. /\ queue' = Append(queue, vote)
        /\ revision' = [revision EXCEPT ![s] = @ + 1]
    BY <1>v DEF Submit
  <1>n. PICK n : n = Len(queue)
    OBVIOUS
  <1>d. /\ n \in Nat /\ DOMAIN queue = 1..n /\ DOMAIN queue' = 1..(n + 1)
        /\ queue'[n + 1] = vote
        /\ \A i \in 1..n : queue'[i] = queue[i]
    BY <1>q, <1>t, <1>a, <1>n, Appended
  <1>r. /\ \A x \in Stories : revision'[x] = IF x = s THEN revision[s] + 1 ELSE revision[x]
        /\ \A x \in Stories : revision[x] \in Nat
    BY <1>q, <1>a
  <1>k. \A i \in 1..n : queue[i].revision \in Nat /\ queue[i].story \in Stories
    BY <1>q, <1>d, KeyFacts
  <1>1. \A i \in DOMAIN queue' :
          0 < queue'[i].revision /\ queue'[i].revision <= revision'[queue'[i].story]
    <2> TAKE i \in DOMAIN queue'
    <2>1. CASE i = n + 1
      BY <1>d, <1>r, <1>t, <2>1
    <2>2. CASE i \in 1..n
      <3>1. 0 < queue[i].revision /\ queue[i].revision <= revision[queue[i].story]
        BY <1>d, <2>2 DEF Order
      <3> QED
        BY <1>d, <1>r, <1>k, <2>2, <3>1
    <2> QED
      BY <1>d, <2>1, <2>2
  <1>2. ASSUME NEW i \in DOMAIN queue', NEW j \in DOMAIN queue', i < j, queue'[i].story = queue'[j].story
        PROVE  queue'[i].revision < queue'[j].revision
    <2>1. i \in 1..n
      BY <1>d, <1>2
    <2>2. CASE j = n + 1
      <3>1. queue[i].revision <= revision[s] /\ queue[i].revision \in Nat
        BY <1>d, <1>k, <1>t, <1>2, <2>1, <2>2 DEF Order
      <3> QED
        BY <1>d, <1>q, <1>t, <2>1, <2>2, <3>1
    <2>3. CASE j \in 1..n
      BY <1>d, <1>2, <2>1, <2>3 DEF Order
    <2> QED
      BY <1>d, <2>2, <2>3
  <1>3. ASSUME NEW i \in DOMAIN queue'
        PROVE  \E j \in DOMAIN queue' :
                 queue'[j].story = queue'[i].story /\ revision'[queue'[j].story] = queue'[j].revision
    <2>1. CASE queue'[i].story = s
      BY <1>d, <1>r, <1>t, <2>1
    <2>2. CASE queue'[i].story # s
      <3>1. i \in 1..n
        BY <1>d, <1>t, <2>2
      <3>2. PICK j \in 1..n : queue[j].story = queue[i].story /\ Latest(queue[j])
        BY <1>d, <3>1 DEF Order
      <3>3. j \in DOMAIN queue' /\ queue'[j] = queue[j]
        BY <1>d
      <3> QED
        <4>1. queue'[j].story = queue'[i].story /\ queue[j].story \in Stories
          BY <1>d, <1>k, <3>1, <3>2, <3>3
        <4>2. queue[j].story # s /\ revision[queue[j].story] = queue[j].revision
          BY <1>d, <2>2, <3>1, <3>2 DEF Latest
        <4> QED
          BY <1>r, <3>3, <4>1, <4>2
    <2> QED
      BY <2>1, <2>2
  <1>4. Order'
    BY <1>1, <1>2, <1>3 DEF Order, Latest
  <1>5. Pending' = {Key(queue'[i]) : i \in DOMAIN queue'}
    BY DEF Pending, Key
  <1>6. Key(vote) = <<s, revision[s] + 1>>
    BY <1>t DEF Key
  <1>7. Pending' \subseteq Pending \union {Key(vote)}
    BY <1>5, <1>d DEF Pending
  <1>8. Pending \union {Key(vote)} \subseteq Pending'
    <2>1. Key(vote) \in Pending'
      BY <1>5, <1>d
    <2>2. \A i \in DOMAIN queue : i \in DOMAIN queue' /\ queue'[i] = queue[i]
      BY <1>d
    <2> QED
      BY <1>5, <2>1, <2>2 DEF Pending
  <1>9. queue' # <<>>
    <2>1. n + 1 \in DOMAIN queue'
      BY <1>d
    <2> QED
      BY <2>1
  <1> QED
    BY <1>4, <1>6, <1>7, <1>8, <1>9

(* The server has the first vote: its key stays where it is.                *)
LEMMA Reached ==
  ASSUME TypeOK, Order, queue # <<>>, UNCHANGED revision,
         NEW t \in Nat, queue' = [queue EXCEPT ![1].target = t]
  PROVE  /\ Order' /\ Pending' = Pending
         /\ queue' \in Seq(VoteType) /\ DOMAIN queue' = DOMAIN queue /\ 1 \in DOMAIN queue
         /\ queue'[1].target = t
         /\ \A i \in DOMAIN queue : i # 1 => queue'[i] = queue[i]
         /\ \A i \in DOMAIN queue : /\ queue'[i].story = queue[i].story
                                    /\ queue'[i].revision = queue[i].revision
                                    /\ queue'[i].action = queue[i].action
  <1>q. queue \in Seq(VoteType)
    BY DEF TypeOK
  <1>h. 1 \in DOMAIN queue /\ queue[1] \in VoteType
    BY <1>q, HeadAndTail
  <1>v. PICK vote : vote = [queue[1] EXCEPT !.target = t]
    OBVIOUS
  <1>t. /\ vote \in VoteType /\ vote.target = t
        /\ vote.story = queue[1].story /\ vote.revision = queue[1].revision
        /\ vote.action = queue[1].action
    BY <1>h, <1>v DEF VoteType
  <1>e. queue' = [queue EXCEPT ![1] = vote]
    BY <1>v
  <1>d. /\ queue' \in Seq(VoteType) /\ DOMAIN queue' = DOMAIN queue
        /\ \A i \in DOMAIN queue : queue'[i] = IF i = 1 THEN vote ELSE queue[i]
    BY <1>q, <1>h, <1>t, <1>e, ExceptSeq
  <1>s. \A i \in DOMAIN queue : /\ queue'[i].story = queue[i].story
                                /\ queue'[i].revision = queue[i].revision
                                /\ queue'[i].action = queue[i].action
    BY <1>d, <1>t
  <1>1. Order'
    <2>1. \A i \in DOMAIN queue' :
            0 < queue'[i].revision /\ queue'[i].revision <= revision'[queue'[i].story]
      BY <1>d, <1>s DEF Order
    <2>2. \A i, j \in DOMAIN queue' :
            i < j /\ queue'[i].story = queue'[j].story => queue'[i].revision < queue'[j].revision
      BY <1>d, <1>s DEF Order
    <2>3. ASSUME NEW i \in DOMAIN queue'
          PROVE  \E j \in DOMAIN queue' :
                   queue'[j].story = queue'[i].story /\ revision'[queue'[j].story] = queue'[j].revision
      <3>1. PICK j \in DOMAIN queue : queue[j].story = queue[i].story /\ Latest(queue[j])
        BY <1>d DEF Order
      <3> QED
        BY <1>d, <1>s, <3>1 DEF Latest
    <2> QED
      BY <2>1, <2>2, <2>3 DEF Order, Latest
  <1>2. Pending' = Pending
    <2>1. \A i \in DOMAIN queue : Key(queue'[i]) = Key(queue[i])
      BY <1>s DEF Key
    <2>2. Pending' = {Key(queue'[i]) : i \in DOMAIN queue'}
      BY DEF Pending, Key
    <2> QED
      BY <1>d, <2>1, <2>2 DEF Pending
  <1> QED
    BY <1>1, <1>2, <1>d, <1>h, <1>s, <1>t

LEMMA InitVotes == ASSUME Init PROVE Votes
  BY DEF Init, Votes, Order, Apart, Reported, ReportExact, Pending

(* A step that leaves the votes alone.                                      *)
LEMMA VotesKept ==
  ASSUME Votes, UNCHANGED <<revision, queue, errors, acked, quit, snapshot, report>>
  PROVE  Votes'
  BY DEF Votes, Order, Apart, Reported, ReportExact, Pending, Key, Latest

LEMMA StepKeepsVotes ==
  ASSUME TypeOK, Votes, [Next]_vars PROVE Votes'
  <1> USE DEF server, view, marks, voting, quitting, bounds
  <1>q. /\ queue \in Seq(VoteType) /\ revision \in [Stories -> Nat]
        /\ errors \subseteq Keys /\ acked \subseteq Keys /\ snapshot \subseteq Keys
        /\ quit \in {"no", "waiting", "exited"}
    BY DEF TypeOK
  <1>o. Order /\ Apart /\ Reported
    BY DEF Votes
  <1>1. CASE \/ UNCHANGED vars
             \/ Rank \/ Regen \/ Restart \/ ServeRefresh \/ ServePrefetch \/ ServeLate
             \/ ReceiveRefresh \/ ReceivePrefetch \/ Poll \/ PollCounts
             \/ SwitchWindow \/ SwitchSort \/ Connected
             \/ FailRefresh \/ FailPrefetch
    BY <1>1, VotesKept DEF vars, Rank, Regen, Restart, ServeRefresh, ServePrefetch, ServeLate,
         ReceiveRefresh, ReceivePrefetch, Poll, PollCounts, Reload, SwitchWindow, SwitchSort, Connected,
         FailRefresh, FailPrefetch
  <1>2. CASE ServeVote
    <2>1. /\ queue # <<>> /\ queue' = [queue EXCEPT ![1].target = current']
          /\ UNCHANGED <<revision, errors, acked, quit, snapshot, report>>
      BY <1>2 DEF ServeVote
    <2>2. current' \in Nat
      BY <1>2 DEF ServeVote, Record, TypeOK
    <2>3. Order' /\ Pending' = Pending
      BY <1>o, <2>1, <2>2, Reached
    <2> QED
      BY <1>o, <2>1, <2>3 DEF Votes, Apart, Reported, ReportExact
  <1>3. CASE UserVote \/ UserUndo
    <2>1. PICK s \in Stories, action \in {"vote", "clear"} :
            /\ quit = "no" /\ Submit(s, action)
            /\ UNCHANGED <<errors, quit, snapshot, report>>
      <3>1. CASE UserVote
        BY <3>1, FeedTypes DEF UserVote, Shown, FeedType
      <3>2. CASE UserUndo
        <4>1. Last(history) \in Stories
          BY <3>2, ElementOfSeq, LenProperties DEF UserUndo, TypeOK, Last
        <4> QED
          BY <3>2, <4>1 DEF UserUndo
      <3> QED
        BY <1>3, <3>1, <3>2
    <2>2. Order' /\ Pending' = Pending \union {<<s, revision[s] + 1>>}
      BY <1>o, <2>1, Submitted
    <2>3. /\ acked' = {key \in acked : key[1] # s}
          /\ revision' = [revision EXCEPT ![s] = @ + 1]
      BY <2>1 DEF Submit
    <2>4. snapshot = {} /\ errors = {}
      BY <1>o, <2>1 DEF Reported
    <2>5. \A key \in acked' : key[2] <= revision'[key[1]]
      <3> TAKE key \in acked'
      <3>1. key \in Keys /\ key \in acked /\ key[1] # s
        BY <1>q, <2>3
      <3>2. revision'[key[1]] = revision[key[1]]
        BY <1>q, <2>3, <3>1 DEF Keys
      <3> QED
        BY <1>o, <3>1, <3>2 DEF Apart
    <2>6. acked' \intersect Pending' = {}
      BY <1>o, <2>2, <2>3 DEF Apart
    <2> QED
      BY <2>1, <2>2, <2>4, <2>5, <2>6 DEF Votes, Apart, Reported, ReportExact
  <1>4. CASE AckVote
    <2>k. PICK key : key = Key(Head(queue))
      OBVIOUS
    <2>1. /\ queue # <<>> /\ queue' = Tail(queue) /\ quit # "exited"
          /\ acked' = acked \/ acked' = acked \union {key}
          /\ quit = "waiting" => acked' = acked \union {key}
          /\ UNCHANGED <<revision, errors, quit, snapshot, report>>
      BY <1>4, <2>k DEF AckVote, Running, Alive
    <2>2. Order' /\ key \in Pending /\ Pending' = Pending \ {key}
      BY <1>o, <2>k, <2>1, Taken
    <2>3. key[2] <= revision[key[1]]
      BY <1>q, <1>o, <2>k, <2>1, HeadAndTail DEF Order, Key
    <2>4. Apart'
      BY <1>o, <2>1, <2>2, <2>3 DEF Apart
    <2>5. Reported'
      BY <1>o, <2>1, <2>2 DEF Apart, Reported, ReportExact
    <2> QED
      BY <2>2, <2>4, <2>5 DEF Votes
  <1>5. CASE FailVote
    <2>k. PICK key : key = Key(Head(queue))
      OBVIOUS
    <2>1. /\ queue # <<>> /\ queue' = Tail(queue) /\ quit # "exited"
          /\ errors' = errors \union ({key} \intersect snapshot)
          /\ UNCHANGED <<revision, acked, quit, snapshot, report>>
      BY <1>5, <2>k DEF FailVote, Running, Alive, Fail
    <2>2. Order' /\ key \in Pending /\ Pending' = Pending \ {key}
      BY <1>o, <2>k, <2>1, Taken
    <2>3. Apart'
      BY <1>o, <2>1, <2>2 DEF Apart
    <2>4. Reported'
      BY <1>o, <2>1, <2>2 DEF Apart, Reported, ReportExact
    <2> QED
      BY <2>2, <2>3, <2>4 DEF Votes
  <1>6. CASE RejectRefresh \/ RejectVote
    <2>1. /\ queue' = <<>> /\ quit # "exited"
          /\ errors' = errors \union (Pending \intersect snapshot)
          /\ UNCHANGED <<revision, acked, quit, snapshot, report>>
      BY <1>6 DEF RejectRefresh, RejectVote, Setup, Fail, Running, Alive, Pending
    <2>2. Pending' = {}
      BY <2>1 DEF Pending
    <2>3. Order'
      BY <2>1 DEF Order
    <2>4. Apart'
      BY <1>o, <2>1, <2>2 DEF Apart
    <2>5. Reported'
      BY <1>o, <2>1, <2>2 DEF Apart, Reported, ReportExact
    <2> QED
      BY <2>3, <2>4, <2>5 DEF Votes
  <1>7. CASE Quit
    <2>1. /\ quit = "no" /\ quit' = "waiting" /\ snapshot' = Pending
          /\ UNCHANGED <<revision, queue, errors, acked, report>>
      BY <1>7 DEF Quit
    <2>2. Order' /\ Pending' = Pending
      BY <1>o, <2>1 DEF Order, Pending, Key, Latest
    <2> QED
      BY <1>o, <2>1, <2>2 DEF Votes, Apart, Reported, ReportExact
  <1>8. CASE Exit
    <2>1. /\ quit = "waiting" /\ quit' = "exited"
          /\ report' = {key \in snapshot : key \in Pending \/ key \in errors}
          /\ UNCHANGED <<revision, queue, errors, acked, snapshot>>
      BY <1>8 DEF Exit
    <2>2. Order' /\ Pending' = Pending
      BY <1>o, <2>1 DEF Order, Pending, Key, Latest
    <2> QED
      BY <1>o, <2>1, <2>2 DEF Votes, Apart, Reported, ReportExact
  <1> QED
    BY <1>1, <1>2, <1>3, <1>4, <1>5, <1>6, <1>7, <1>8 DEF Next, Server, User, Receive, Fault

-----------------------------------------------------------------------------
(* What the screen shows and what the server has.                           *)
(* A story whose newest choice is confirmed has no vote under way.          *)
LEMMA ConfirmedIsDone ==
  ASSUME TypeOK, Votes, NEW s \in Stories, <<s, revision[s]>> \in acked,
         NEW i \in DOMAIN queue
  PROVE  queue[i].story # s
  <1> SUFFICES ASSUME queue[i].story = s PROVE FALSE
    OBVIOUS
  <1>1. PICK j \in DOMAIN queue : queue[j].story = s /\ Latest(queue[j])
    BY DEF Votes, Order
  <1>2. Key(queue[j]) = <<s, revision[s]>>
    BY <1>1 DEF Latest, Key
  <1>3. Key(queue[j]) \in Pending
    BY <1>1 DEF Pending
  <1> QED
    BY <1>2, <1>3 DEF Votes, Apart

LEMMA ScreenKept ==
  ASSUME Screen, UNCHANGED <<voted, rated, history, revision, queue, acked, unsure>>
  PROVE  Screen'
  BY DEF Screen, ScreenAgrees, Confirmed, Choice, Latest

(* A choice is shown at once and joins the queue.                           *)
LEMMA Chosen ==
  ASSUME TypeOK, Votes, Screen, NEW s \in Stories, NEW action \in {"vote", "clear"},
         Submit(s, action), UNCHANGED <<voted, unsure>>,
         \A x \in Stories \ {s} : x \in rated' <=> x \in rated,
         s \in rated' <=> action = "vote",
         \A i \in DOMAIN history' : history'[i] \in rated'
  PROVE  Screen'
  <1>q. queue \in Seq(VoteType) /\ revision \in [Stories -> Nat] /\ acked \subseteq Keys
    BY DEF TypeOK
  <1>v. PICK vote : vote = [story |-> s, action |-> action, revision |-> revision[s] + 1, target |-> 0]
    OBVIOUS
  <1>t. /\ vote \in VoteType /\ vote.story = s /\ vote.revision = revision[s] + 1
        /\ vote.action = action /\ vote.target = 0
    BY <1>q, <1>v DEF VoteType
  <1>a. /\ queue' = Append(queue, vote)
        /\ revision' = [revision EXCEPT ![s] = @ + 1]
        /\ acked' = {key \in acked : key[1] # s}
    BY <1>v DEF Submit
  <1>n. PICK n : n = Len(queue)
    OBVIOUS
  <1>d. /\ n \in Nat /\ DOMAIN queue = 1..n /\ DOMAIN queue' = 1..(n + 1)
        /\ queue'[n + 1] = vote
        /\ \A i \in 1..n : queue'[i] = queue[i]
    BY <1>q, <1>t, <1>a, <1>n, Appended
  <1>r. /\ \A x \in Stories : revision'[x] = IF x = s THEN revision[s] + 1 ELSE revision[x]
        /\ \A x \in Stories : revision[x] \in Nat
    BY <1>q, <1>a
  <1>k. \A i \in 1..n : queue[i].revision \in Nat /\ queue[i].story \in Stories
    BY <1>q, <1>d, KeyFacts
  <1>1. ASSUME NEW i \in DOMAIN queue', revision'[queue'[i].story] = queue'[i].revision
        PROVE  queue'[i].story \in rated' <=> queue'[i].action = "vote"
    <2>1. CASE i = n + 1
      BY <1>d, <1>t, <2>1
    <2>2. CASE i \in 1..n /\ queue[i].story = s
      <3>1. queue[i].revision <= revision[s]
        BY <1>d, <2>2 DEF Votes, Order
      <3>2. revision[s] + 1 = queue[i].revision
        BY <1>1, <1>d, <1>r, <2>2
      <3> QED
        BY <1>k, <1>r, <2>2, <3>1, <3>2
    <2>3. CASE i \in 1..n /\ queue[i].story # s
      <3>1. Latest(queue[i])
        BY <1>1, <1>d, <1>r, <1>k, <2>3 DEF Latest
      <3> QED
        BY <1>d, <1>k, <2>3, <3>1 DEF Screen, Choice
    <2> QED
      BY <1>d, <2>1, <2>2, <2>3
  <1>2. queue' # <<>> /\ queue'[1].target > 0 /\ queue'[1].story \notin unsure' =>
          (queue'[1].story \in voted' <=> queue'[1].action = "vote")
    <2>1. CASE n = 0
      BY <1>d, <1>t, <2>1
    <2>2. CASE n > 0
      <3>1. 1 \in 1..n /\ queue # <<>>
        BY <1>d, <1>n, <1>q, <2>2, EmptySeq
      <3> QED
        BY <1>d, <3>1 DEF Screen, Choice
    <2> QED
      BY <1>d, <2>1, <2>2
  <1>3. ASSUME NEW x \in Stories, <<x, revision'[x]>> \in acked', revision'[x] > 0, x \notin unsure'
        PROVE  x \in rated' <=> x \in voted'
    <2>1. x # s
      BY <1>3, <1>a
    <2>2. revision'[x] = revision[x]
      BY <1>r, <2>1
    <2>3. Confirmed(x)
      BY <1>3, <1>a, <2>2 DEF Confirmed
    <2> QED
      BY <2>1, <2>3 DEF Screen, ScreenAgrees
  <1> QED
    BY <1>1, <1>2, <1>3 DEF Screen, ScreenAgrees, Confirmed, Choice, Latest

(* The first vote leaves the queue, confirmed or failed; if it was the      *)
(* newest of its story the screen may be set right.                         *)
LEMMA Answering ==
  ASSUME TypeOK, Votes, OneInFlight, Screen, queue # <<>>, queue' = Tail(queue),
         UNCHANGED <<revision, voted, unsure>>,
         \A x \in Stories : (x \in rated' <=> x \in rated) \/ (Latest(Head(queue)) /\ x = Head(queue).story),
         \A i \in DOMAIN history' : history'[i] \in rated',
         \A x \in Stories : Confirmed(x)' => (x \in rated' <=> x \in voted)
  PROVE  Screen'
  <1>q. queue \in Seq(VoteType)
    BY DEF TypeOK
  <1>h. /\ Head(queue) = queue[1] /\ 1 \in DOMAIN queue
        /\ \A i \in DOMAIN queue' : i \in Nat /\ i >= 1 /\ i + 1 \in DOMAIN queue /\ queue'[i] = queue[i + 1]
    BY <1>q, HeadAndTail
  <1>k. \A i \in DOMAIN queue : queue[i].revision \in Nat /\ queue[i].story \in Stories
    BY <1>q, KeyFacts
  <1>1. ASSUME NEW i \in DOMAIN queue', revision[queue'[i].story] = queue'[i].revision
        PROVE  queue'[i].story \in rated' <=> queue'[i].action = "vote"
    <2>1. i + 1 \in DOMAIN queue /\ queue'[i] = queue[i + 1] /\ 1 < i + 1
      BY <1>h
    <2>2. Latest(queue[i + 1])
      BY <1>1, <2>1 DEF Latest
    <2>3. ~(Latest(queue[1]) /\ queue[1].story = queue[i + 1].story)
      <3> SUFFICES ASSUME Latest(queue[1]), queue[1].story = queue[i + 1].story PROVE FALSE
        OBVIOUS
      <3>1. queue[1].revision < queue[i + 1].revision
        BY <1>h, <2>1 DEF Votes, Order
      <3>2. queue[1].revision = queue[i + 1].revision
        BY <2>2 DEF Latest
      <3> QED
        BY <1>h, <1>k, <2>1, <3>1, <3>2
    <2>4. queue[i + 1].story \in rated' <=> queue[i + 1].story \in rated
      BY <1>h, <1>k, <2>1, <2>3
    <2> QED
      BY <2>1, <2>2, <2>4 DEF Screen, Choice
  <1>2. queue' # <<>> => ~(queue'[1].target > 0)
    <2> SUFFICES ASSUME queue' # <<>> PROVE ~(queue'[1].target > 0)
      OBVIOUS
    <2>1. queue' \in Seq(VoteType)
      BY <1>q, HeadAndTail
    <2>2. 1 \in DOMAIN queue'
      BY <2>1, HeadAndTail
    <2>3. 1 + 1 \in DOMAIN queue /\ queue'[1] = queue[1 + 1]
      BY <1>h, <2>2
    <2>4. queue'[1].target = 0
      BY <2>3 DEF OneInFlight
    <2> QED
      BY <2>4
  <1> QED
    BY <1>1, <1>2 DEF Screen, ScreenAgrees, Choice, Latest

(* The server takes a vote: the stories it has changes in this one alone.   *)
LEMMA Recorded ==
  ASSUME TypeOK, NEW vote \in VoteType, Record(vote)
  PROVE  /\ \A x \in Stories : x # vote.story => (x \in voted' <=> x \in voted)
         /\ Choice(vote, voted')
         /\ current' >= current
  BY DEF TypeOK, Record, After, Choice, VoteType

(* The two ways a choice is shown.                                          *)
LEMMA Shows ==
  ASSUME TypeOK, Screen, NEW s \in Stories, ApplyVote(s) \/ ApplyUndo(s)
  PROVE  /\ \A x \in Stories \ {s} : x \in rated' <=> x \in rated
         /\ ApplyVote(s) => s \in rated'
         /\ ApplyUndo(s) => s \notin rated'
         /\ \A i \in DOMAIN history' : history'[i] \in rated'
  <1>q. history \in Seq(Stories) /\ IsInjective(history) /\ rated \subseteq Stories
    BY DEF TypeOK
  <1>s. \A i \in DOMAIN history : history[i] \in rated /\ history[i] \in Stories
    BY <1>q, ElementOfSeq, LenProperties DEF Screen
  <1>r. /\ ApplyVote(s) => rated' = rated \union {s} /\ history' = Append(history, s)
        /\ ApplyUndo(s) => rated' = rated \ {s} /\ history' = Without(history, s)
    BY DEF ApplyVote, ApplyUndo
  <1>1. CASE ApplyUndo(s)
    <2>1. \A i \in DOMAIN Without(history, s) :
            /\ Without(history, s)[i] # s
            /\ \E j \in DOMAIN history : history[j] = Without(history, s)[i]
      BY <1>q, WithoutOne
    <2> QED
      BY <1>1, <1>r, <1>s, <2>1
  <1>2. CASE ApplyVote(s)
    <2>1. /\ DOMAIN history' = 1..(Len(history) + 1) /\ DOMAIN history = 1..Len(history)
          /\ Len(history) \in Nat
          /\ history'[Len(history) + 1] = s
          /\ \A i \in DOMAIN history : history'[i] = history[i]
      BY <1>2, <1>q, <1>r, Appended
    <2>2. \A i \in DOMAIN history' : i \in DOMAIN history \/ i = Len(history) + 1
      BY <2>1
    <2>3. \A i \in DOMAIN history' : history'[i] \in rated'
      BY <1>2, <1>r, <1>s, <2>1, <2>2
    <2> QED
      BY <1>2, <1>r, <2>3
  <1> QED
    BY <1>1, <1>2

LEMMA InitScreen == ASSUME Init PROVE Screen /\ OneInFlight
  BY DEF Init, Screen, ScreenAgrees, Confirmed, OneInFlight

LEMMA StepKeepsOneInFlight ==
  ASSUME TypeOK, Order, OneInFlight, [Next]_vars PROVE OneInFlight'
  <1> USE DEF server, view, marks, voting, quitting, bounds
  <1>q. queue \in Seq(VoteType) /\ revision \in [Stories -> Nat]
    BY DEF TypeOK
  <1>1. CASE UNCHANGED queue \/ queue' = <<>>
    BY <1>1 DEF OneInFlight
  <1>2. CASE ServeVote
    <2>1. /\ queue # <<>> /\ queue' = [queue EXCEPT ![1].target = current'] /\ UNCHANGED revision
          /\ current' \in Nat
      BY <1>2 DEF ServeVote, Record, TypeOK
    <2> QED
      BY <2>1, Reached DEF OneInFlight
  <1>3. CASE UserVote \/ UserUndo
    <2>1. PICK s \in Stories, action \in {"vote", "clear"} : Submit(s, action)
      <3>1. CASE UserVote
        BY <3>1, FeedTypes DEF UserVote, Shown, FeedType
      <3>2. CASE UserUndo
        <4>1. Last(history) \in Stories
          BY <3>2, ElementOfSeq, LenProperties DEF UserUndo, TypeOK, Last
        <4> QED
          BY <3>2, <4>1 DEF UserUndo
      <3> QED
        BY <1>3, <3>1, <3>2
    <2>2. PICK vote : vote = [story |-> s, action |-> action, revision |-> revision[s] + 1, target |-> 0]
      OBVIOUS
    <2>3. vote \in VoteType /\ vote.target = 0 /\ queue' = Append(queue, vote)
      BY <1>q, <2>1, <2>2 DEF VoteType, Submit
    <2>4. /\ DOMAIN queue' = 1..(Len(queue) + 1) /\ DOMAIN queue = 1..Len(queue) /\ Len(queue) \in Nat
          /\ queue'[Len(queue) + 1] = vote
          /\ \A i \in DOMAIN queue : queue'[i] = queue[i]
      BY <1>q, <2>3, Appended
    <2>5. \A i \in DOMAIN queue' : i \in DOMAIN queue \/ i = Len(queue) + 1
      BY <2>4
    <2> QED
      BY <2>3, <2>4, <2>5 DEF OneInFlight
  <1>4. CASE AckVote \/ FailVote
    <2>1. queue # <<>> /\ queue' = Tail(queue)
      BY <1>4 DEF AckVote, FailVote
    <2>2. \A i \in DOMAIN queue' : i \in Nat /\ i + 1 \in DOMAIN queue /\ queue'[i] = queue[i + 1]
      BY <1>q, <2>1, HeadAndTail
    <2>3. \A i \in DOMAIN queue' : i > 1 => i + 1 > 1
      BY <2>2
    <2> QED
      BY <2>2, <2>3 DEF OneInFlight
  <1>5. CASE RejectRefresh \/ RejectVote
    BY <1>1, <1>5 DEF RejectRefresh, RejectVote, Setup
  <1>6. CASE \/ UNCHANGED vars
             \/ Rank \/ Regen \/ Restart \/ ServeRefresh \/ ServePrefetch \/ ServeLate
             \/ ReceiveRefresh \/ ReceivePrefetch \/ Poll \/ PollCounts
             \/ SwitchWindow \/ SwitchSort \/ Connected \/ Quit \/ Exit
             \/ FailRefresh \/ FailPrefetch
    <2>1. UNCHANGED queue
      BY <1>6 DEF vars, Rank, Regen, Restart, ServeRefresh, ServePrefetch, ServeLate,
         ReceiveRefresh, ReceivePrefetch, Poll, PollCounts, Reload, SwitchWindow, SwitchSort, Connected, Quit, Exit,
         FailRefresh, FailPrefetch
    <2> QED
      BY <1>1, <2>1
  <1> QED
    BY <1>2, <1>3, <1>4, <1>5, <1>6 DEF Next, Server, User, Receive, Fault

LEMMA StepKeepsScreen ==
  ASSUME TypeOK, Votes, Flights, OneInFlight, Screen, [Next]_vars PROVE Screen'
  <1> USE DEF server, view, marks, voting, quitting, bounds
  <1>q. /\ queue \in Seq(VoteType) /\ revision \in [Stories -> Nat]
        /\ rated \subseteq Stories /\ voted \subseteq Stories /\ history \in Seq(Stories)
        /\ late \subseteq VoteType
    BY DEF TypeOK
  <1>h. queue # <<>> =>
          /\ Head(queue) = queue[1] /\ 1 \in DOMAIN queue
          /\ queue[1] \in VoteType /\ queue[1].story \in Stories
    BY <1>q, HeadAndTail, KeyFacts
  <1>1. CASE \/ UNCHANGED vars
             \/ Rank \/ Regen \/ Restart \/ ServeRefresh \/ ServePrefetch
             \/ ReceiveRefresh \/ ReceivePrefetch \/ Poll \/ PollCounts
             \/ SwitchWindow \/ SwitchSort \/ Quit \/ Exit
             \/ FailRefresh \/ FailPrefetch
    BY <1>1, ScreenKept DEF vars, Rank, Regen, Restart, ServeRefresh, ServePrefetch,
         ReceiveRefresh, ReceivePrefetch, Poll, PollCounts, Reload, SwitchWindow, SwitchSort, Quit, Exit,
         FailRefresh, FailPrefetch
  <1>2. CASE ServeVote
    <2>1. /\ queue # <<>> /\ Record(queue[1])
          /\ queue' = [queue EXCEPT ![1].target = current']
          /\ unsure' = unsure \ {queue[1].story}
          /\ UNCHANGED <<rated, history, revision, acked>>
      BY <1>2, <1>h DEF ServeVote
    <2>2. current' \in Nat
      BY <2>1 DEF Record, TypeOK
    <2>3. /\ \A x \in Stories : x # queue[1].story => (x \in voted' <=> x \in voted)
          /\ Choice(queue[1], voted')
      BY <1>h, <2>1, Recorded
    <2>4. /\ DOMAIN queue' = DOMAIN queue
          /\ \A i \in DOMAIN queue : /\ queue'[i].story = queue[i].story
                                     /\ queue'[i].revision = queue[i].revision
                                     /\ queue'[i].action = queue[i].action
      BY <2>1, <2>2, Reached DEF Votes
    <2>5. \A x \in Stories : Confirmed(x)' => x # queue[1].story
      BY <1>h, <2>1, ConfirmedIsDone DEF Confirmed
    <2>6. \A x \in Stories : Confirmed(x)' => (x \in rated <=> x \in voted')
      BY <2>1, <2>3, <2>5 DEF Confirmed, Screen, ScreenAgrees
    <2>7. queue'[1].story \in voted' <=> queue'[1].action = "vote"
      BY <1>h, <2>1, <2>3, <2>4 DEF Choice
    <2>8. \A i \in DOMAIN queue' : revision'[queue'[i].story] = queue'[i].revision =>
            (queue'[i].story \in rated <=> queue'[i].action = "vote")
      BY <2>1, <2>4 DEF Screen, Latest, Choice
    <2>9. \A i \in DOMAIN history' : history'[i] \in rated'
      BY <2>1 DEF Screen
    <2> QED
      BY <2>1, <2>6, <2>7, <2>8, <2>9 DEF Screen, ScreenAgrees, Choice, Latest
  <1>3. CASE ServeLate
    <2>1. PICK vote \in VoteType :
            /\ Record(vote)
            /\ unsure' = unsure \union {vote.story}
            /\ UNCHANGED <<rated, history, queue, revision, acked>>
      BY <1>3, <1>q DEF ServeLate
    <2>2. \A x \in Stories : x # vote.story => (x \in voted' <=> x \in voted)
      BY <2>1, Recorded
    <2>3. \A x \in Stories : x \notin unsure' => x \notin unsure /\ (x \in voted' <=> x \in voted)
      BY <2>1, <2>2
    <2> QED
      BY <1>h, <2>1, <2>3 DEF Screen, ScreenAgrees, Confirmed, Choice, Latest
  <1>4. CASE UserVote
    <2>1. PICK s \in Stories :
            ApplyVote(s) /\ Submit(s, "vote") /\ UNCHANGED <<voted, unsure>>
      BY <1>4, FeedTypes DEF UserVote, Shown, FeedType
    <2> QED
      BY <2>1, Shows, Chosen
  <1>5. CASE UserUndo
    <2>1. PICK s \in Stories :
            ApplyUndo(s) /\ Submit(s, "clear") /\ UNCHANGED <<voted, unsure>>
      <3>1. Last(history) \in Stories
        BY <1>5, <1>q, ElementOfSeq, LenProperties DEF UserUndo, Last
      <3> QED
        BY <1>5, <3>1 DEF UserUndo
    <2> QED
      BY <2>1, Shows, Chosen
  <1>6. CASE AckVote
    <2>1. /\ queue # <<>> /\ queue' = Tail(queue) /\ queue[1].target > 0
          /\ acked' \subseteq acked \union {Key(queue[1])}
          /\ UNCHANGED <<revision, voted, unsure, rated, history>>
      BY <1>6, <1>h DEF AckVote
    <2>2. ASSUME NEW x \in Stories, Confirmed(x)'
          PROVE  x \in rated' <=> x \in voted
      <3>1. CASE <<x, revision[x]>> \in acked
        BY <2>1, <2>2, <3>1 DEF Confirmed, Screen, ScreenAgrees
      <3>2. CASE <<x, revision[x]>> = Key(queue[1])
        <4>1. queue[1].story = x /\ Latest(queue[1])
          BY <3>2 DEF Key, Latest
        <4>2. x \notin unsure
          BY <2>1, <2>2 DEF Confirmed
        <4> QED
          BY <1>h, <2>1, <4>1, <4>2 DEF Screen, Choice
      <3> QED
        BY <2>1, <2>2, <3>1, <3>2 DEF Confirmed
    <2>3. \A i \in DOMAIN history' : history'[i] \in rated'
      BY <2>1 DEF Screen
    <2> QED
      BY <2>1, <2>2, <2>3, Answering
  <1>7. CASE FailVote
    <2>1. /\ queue # <<>> /\ queue' = Tail(queue)
          /\ UNCHANGED <<revision, voted, unsure, acked>>
          /\ \/ UNCHANGED <<rated, history>>
             \/ Latest(queue[1]) /\ (ApplyVote(queue[1].story) \/ ApplyUndo(queue[1].story))
      BY <1>7, <1>h DEF FailVote
    <2>2. /\ \A x \in Stories : (x \in rated' <=> x \in rated) \/ (Latest(queue[1]) /\ x = queue[1].story)
          /\ \A i \in DOMAIN history' : history'[i] \in rated'
      <3>1. CASE UNCHANGED <<rated, history>>
        BY <3>1 DEF Screen
      <3>2. CASE Latest(queue[1]) /\ (ApplyVote(queue[1].story) \/ ApplyUndo(queue[1].story))
        BY <1>h, <2>1, <3>2, Shows
      <3> QED
        BY <2>1, <3>1, <3>2
    <2>3. ASSUME NEW x \in Stories, Confirmed(x)'
          PROVE  x \in rated' <=> x \in voted
      <3>1. Confirmed(x) /\ <<x, revision[x]>> \in acked
        BY <2>1, <2>3 DEF Confirmed
      <3>2. queue[1].story # x
        BY <1>h, <2>1, <3>1, ConfirmedIsDone
      <3> QED
        BY <2>2, <3>1, <3>2 DEF Screen, ScreenAgrees
    <2> QED
      BY <1>h, <2>1, <2>2, <2>3, Answering
  <1>8. CASE RejectRefresh \/ RejectVote
    <2>1. queue' = <<>> /\ UNCHANGED <<voted, rated, history, revision, acked, unsure>>
      BY <1>8 DEF RejectRefresh, RejectVote, Setup
    <2> QED
      BY <2>1 DEF Screen, ScreenAgrees, Confirmed
  <1>9. CASE Connected
    <2>1. queue' = <<>> /\ history' = <<>> /\ unsure' = Stories
      BY <1>9 DEF Connected, Flights
    <2> QED
      BY <2>1 DEF Screen, ScreenAgrees, Confirmed
  <1> QED
    BY <1>1, <1>2, <1>3, <1>4, <1>5, <1>6, <1>7, <1>8, <1>9 DEF Next, Server, User, Receive, Fault

-----------------------------------------------------------------------------
(* The cache, and the deck on screen.                                       *)
Match(cached, w, isOpen, profile) ==
  /\ \A x \in Windows : cached[x] # NoFeed =>
       cached[x].profile = profile /\ (isOpen => cached[x].version = cached[w].version)
  /\ isOpen => cached[w] # NoFeed

LEMMA CachesIsMatch == ASSUME TypeOK PROVE Caches <=> Match(feeds, window, open, api)
  BY DEF Caches, CachesMatch, Match, Feed

LEMMA CachesIsMatchNext ==
  Match(feeds', window', open', api') => Caches'
  BY DEF Caches, CachesMatch, Match, Feed

LEMMA SetFeedMatches ==
  ASSUME TypeOK, api > 0, Caches, NEW feed \in FeedType, feed.profile = api
  PROVE  Match(SetFeed(feed), window, TRUE, api) /\ SetFeed(feed)[window] = feed
  <1>1. feed # NoFeed /\ window \in Windows
    BY Constants DEF TypeOK
  <1>2. \A w \in Windows : SetFeed(feed)[w] = IF w = window THEN feed
          ELSE IF feeds[w].version = feed.version THEN feeds[w] ELSE NoFeed
    BY DEF SetFeed
  <1> QED
    BY <1>1, <1>2 DEF Match, Caches, CachesMatch

(* Rows that come back leave the rest of a deck as it is.                   *)
LEMMA Restored ==
  ASSUME TypeOK, api > 0, NEW cached \in [Windows -> FeedType], NEW stories
  PROVE  /\ \A w \in Windows :
              /\ Restore(cached, stories)[w].profile = cached[w].profile
              /\ Restore(cached, stories)[w].version = cached[w].version
              /\ Restore(cached, stories)[w].target = cached[w].target
              /\ Restore(cached, stories)[w].ready = cached[w].ready
              /\ cached[w] = NoFeed => Restore(cached, stories)[w] = NoFeed
         /\ \A w \in Windows, isOpen \in BOOLEAN :
              Match(cached, w, isOpen, api) => Match(Restore(cached, stories), w, isOpen, api)
  <1>1. ASSUME NEW w \in Windows
        PROVE  /\ Restore(cached, stories)[w].profile = cached[w].profile
               /\ Restore(cached, stories)[w].version = cached[w].version
               /\ Restore(cached, stories)[w].target = cached[w].target
               /\ Restore(cached, stories)[w].ready = cached[w].ready
               /\ cached[w] = NoFeed => Restore(cached, stories)[w] = NoFeed
    <2>1. PICK back : back = {s \in stories : voteWindow[s] = w}
      OBVIOUS
    <2>2. Restore(cached, stories)[w] =
            IF cached[w] = NoFeed THEN NoFeed ELSE [cached[w] EXCEPT !.rows = @ \union back]
      BY <2>1 DEF Restore
    <2>3. cached[w] \in FeedType
      OBVIOUS
    <2> QED
      BY <2>2, <2>3 DEF FeedType
  <1>2. ASSUME NEW w \in Windows, NEW isOpen \in BOOLEAN, Match(cached, w, isOpen, api)
        PROVE  Match(Restore(cached, stories), w, isOpen, api)
    <2>1. \A x \in Windows : Restore(cached, stories)[x] # NoFeed =>
            /\ Restore(cached, stories)[x].profile = api
            /\ isOpen => Restore(cached, stories)[x].version = Restore(cached, stories)[w].version
      BY <1>1, <1>2 DEF Match
    <2>2. isOpen => Restore(cached, stories)[w] # NoFeed
      BY <1>1, <1>2, Constants DEF Match
    <2> QED
      BY <2>1, <2>2 DEF Match
  <1> QED
    BY <1>1, <1>2

(* An entry of the version on screen joins the cache.                       *)
LEMMA KeptMatches ==
  ASSUME TypeOK, Caches, open, NEW w \in Windows, w # window, NEW feed \in FeedType,
         feed.profile = api, feed.version = Feed.version
  PROVE  Match([feeds EXCEPT ![w] = feed], window, TRUE, api)
  BY DEF TypeOK, Caches, CachesMatch, Match, Feed

LEMMA ReplyTypes ==
  ASSUME TypeOK PROVE refresh.reply \in FeedType /\ prefetch.reply \in FeedType
  BY DEF TypeOK, RequestType

(* What is shown when a feed request is answered.                           *)
LEMMA ReplyShown ==
  ASSUME TypeOK, Flights, Caches, Answered(refresh), UNCHANGED <<window, voteWindow>>,
         ShowReply(refresh.reply)
  PROVE  /\ open' = TRUE /\ Match(feeds', window, TRUE, api)
         /\ feeds'[window].version = refresh.reply.version
         /\ feeds'[window].target = refresh.reply.target
         /\ feeds'[window].ready = refresh.reply.ready
  <1>1. PICK feed : feed = refresh.reply
    OBVIOUS
  <1>2. feed \in FeedType /\ feed.profile = api /\ api > 0 /\ window \in Windows
    BY <1>1, ReplyTypes DEF Answered, Flights, TypeOK
  <1>3. PICK set : set = SetFeed(feed)
    OBVIOUS
  <1>4. set \in [Windows -> FeedType] /\ Match(set, window, TRUE, api) /\ set[window] = feed
    BY <1>2, <1>3, FeedTypes, SetFeedMatches
  <1>5. PICK stories : stories = restored'
    OBVIOUS
  <1>6. open' = TRUE /\ feeds' = IF feed.ready THEN set ELSE Restore(set, stories)
    BY <1>1, <1>3, <1>5 DEF ShowReply
  <1>7. CASE feeds' = set
    BY <1>1, <1>4, <1>6, <1>7
  <1>8. CASE feeds' = Restore(set, stories)
    <2>1. Match(Restore(set, stories), window, TRUE, api)
      BY <1>2, <1>4, Restored
    <2>2. /\ feeds'[window].version = set[window].version
          /\ feeds'[window].target = set[window].target
          /\ feeds'[window].ready = set[window].ready
      BY <1>2, <1>4, <1>8, Restored
    <2> QED
      BY <1>1, <1>4, <1>6, <1>8, <2>1, <2>2
  <1> QED
    BY <1>6, <1>7, <1>8

(* A stale deck that an acknowledged vote leaves on screen.                 *)
LEMMA StaleShown ==
  ASSUME TypeOK, Flights, Caches, open, NEW t \in Nat,
         feeds' = SetFeed([Feed EXCEPT !.target = t, !.ready = FALSE])
  PROVE  /\ Match(feeds', window, TRUE, api)
         /\ feeds'[window].version = Feed.version
         /\ feeds'[window].target = t
         /\ feeds'[window].ready = FALSE
  <1>1. PICK feed : feed = [Feed EXCEPT !.target = t, !.ready = FALSE]
    OBVIOUS
  <1>2. Feed \in FeedType /\ Feed # NoFeed /\ Feed.profile = api /\ api > 0
    BY FeedTypes DEF Caches, CachesMatch, Feed, Flights, TypeOK
  <1>3. /\ feed \in FeedType /\ feed.profile = api
        /\ feed.version = Feed.version /\ feed.target = t /\ feed.ready = FALSE
    BY <1>1, <1>2 DEF FeedType
  <1> QED
    BY <1>1, <1>2, <1>3, SetFeedMatches

(* Decks other than the one on screen may be forgotten.                     *)
LEMMA Forgotten ==
  ASSUME NEW cached, NEW left, NEW w \in Windows, NEW isOpen, NEW profile,
         Match(cached, w, isOpen, profile), left[w] = cached[w],
         \A x \in Windows : left[x] = cached[x] \/ left[x] = NoFeed
  PROVE  Match(left, w, isOpen, profile)
  BY DEF Match

LEMMA InCacheFacts ==
  ASSUME TypeOK
  PROVE  /\ InCache \in [Windows -> FeedType]
         /\ \A x \in Windows : InCache[x] = feeds[x] \/ InCache[x] = NoFeed
         /\ \A x \in Windows \ {window} : InCache[x] = feeds[x]
  <1>1. /\ feeds \in [Windows -> FeedType] /\ NoFeed \in FeedType
        /\ InCache = IF uncached THEN [feeds EXCEPT ![window] = NoFeed] ELSE feeds
    BY Constants DEF InCache, TypeOK
  <1>2. InCache \in [Windows -> FeedType]
    BY <1>1
  <1>3. \A x \in Windows : InCache[x] = feeds[x] \/ InCache[x] = NoFeed
    BY <1>1
  <1>4. \A x \in Windows \ {window} : InCache[x] = feeds[x]
    BY <1>1
  <1> QED
    BY <1>2, <1>3, <1>4

(* A row taken back leaves the rest of every deck as it is.                 *)
LEMMA Undone ==
  ASSUME TypeOK, Flights, NEW s, ApplyUndo(s)
  PROVE  /\ \A w \in Windows :
              /\ feeds'[w].profile = feeds[w].profile /\ feeds'[w].version = feeds[w].version
              /\ feeds'[w].target = feeds[w].target /\ feeds'[w].ready = feeds[w].ready
              /\ feeds[w] = NoFeed => feeds'[w] = NoFeed
         /\ Match(feeds, window, open, api) => Match(feeds', window, open, api)
  <1>1. PICK back : back = Restore(feeds, {s})
    OBVIOUS
  <1>2. \A w \in Windows : feeds'[w] = IF uncached /\ w = window THEN feeds[w] ELSE back[w]
    BY <1>1 DEF ApplyUndo
  <1>3. \A w \in Windows :
          /\ back[w].profile = feeds[w].profile /\ back[w].version = feeds[w].version
          /\ back[w].target = feeds[w].target /\ back[w].ready = feeds[w].ready
          /\ feeds[w] = NoFeed => back[w] = NoFeed
    <2>1. feeds \in [Windows -> FeedType] /\ api > 0
      BY DEF TypeOK, Flights
    <2> QED
      BY <1>1, <2>1, Restored
  <1>4. \A w \in Windows :
          /\ feeds'[w].profile = feeds[w].profile /\ feeds'[w].version = feeds[w].version
          /\ feeds'[w].target = feeds[w].target /\ feeds'[w].ready = feeds[w].ready
          /\ feeds[w] = NoFeed => feeds'[w] = NoFeed
    BY <1>2, <1>3
  <1>5. ASSUME Match(feeds, window, open, api) PROVE Match(feeds', window, open, api)
    <2>1. window \in Windows /\ api > 0 /\ NoFeed.profile = 0
      BY DEF TypeOK, Flights, NoFeed
    <2>2. open => feeds'[window] # NoFeed
      <3>1. open => feeds[window].profile = api
        BY <1>5, <2>1 DEF Match
      <3>2. feeds'[window] = NoFeed => feeds'[window].profile = 0
        BY <2>1
      <3> QED
        BY <1>4, <2>1, <3>1, <3>2
    <2> QED
      BY <1>4, <1>5, <2>1, <2>2 DEF Match
  <1> QED
    BY <1>4, <1>5

(* A cached window is shown with what is known of the deck left.            *)
LEMMA CachedShown ==
  ASSUME TypeOK, Flights, Caches, open, NEW w \in Windows \ {window}, feeds[w] # NoFeed,
         feeds[w].version = Feed.version,
         feeds' = [InCache EXCEPT ![w].target = Feed.target, ![w].ready = Feed.ready]
  PROVE  /\ Match(feeds', w, TRUE, api)
         /\ feeds'[w].version = Feed.version
         /\ feeds'[w].target = Feed.target
         /\ feeds'[w].ready = Feed.ready
  <1>1. PICK feed : feed = [feeds[w] EXCEPT !.target = Feed.target, !.ready = Feed.ready]
    OBVIOUS
  <1>2. /\ feeds[w] \in FeedType /\ feeds[w].profile = api /\ api > 0
        /\ feeds \in [Windows -> FeedType] /\ window \in Windows
    BY DEF Caches, CachesMatch, Flights, TypeOK
  <1>f. PICK now : now = Feed
    OBVIOUS
  <1>g. now \in FeedType /\ feed = [feeds[w] EXCEPT !.target = now.target, !.ready = now.ready]
    BY <1>1, <1>f, FeedTypes
  <1>h. /\ feed.profile = api /\ feed.version = now.version
        /\ feed.target = now.target /\ feed.ready = now.ready
    BY <1>2, <1>f, <1>g DEF FeedType
  <1>3. /\ feed.profile = api /\ feed.version = Feed.version
        /\ feed.target = Feed.target /\ feed.ready = Feed.ready
        /\ feed # NoFeed
    BY <1>2, <1>f, <1>h, Constants
  <1>4. \A x \in Windows :
          feeds'[x] = IF x = w THEN feed ELSE InCache[x]
    BY <1>1, <1>2, InCacheFacts
  <1>5. \A x \in Windows \ {w} : feeds'[x] = feeds[x] \/ feeds'[x] = NoFeed
    BY <1>4, InCacheFacts
  <1>6. feeds'[w] = feed
    BY <1>4
  <1> QED
    BY <1>3, <1>5, <1>6, ZenonT(30) DEF Match, Caches, CachesMatch

LEMMA InitCaches == ASSUME Init PROVE Caches
  BY DEF Init, Caches, CachesMatch

LEMMA StepKeepsCaches ==
  ASSUME TypeOK, Flights, Caches, [Next]_vars PROVE Caches'
  <1> USE DEF server, view, marks, voting, quitting, bounds
  <1>t. /\ window \in Windows /\ open \in BOOLEAN /\ feeds \in [Windows -> FeedType]
        /\ api > 0 /\ Match(feeds, window, open, api)
    BY CachesIsMatch DEF TypeOK, Flights
  <1>1. CASE \/ UNCHANGED vars
             \/ Rank \/ Regen \/ Restart \/ ServeRefresh \/ ServePrefetch \/ ServeVote \/ ServeLate
             \/ UserVote \/ SwitchSort \/ Quit \/ Exit
             \/ FailRefresh \/ RejectRefresh \/ FailPrefetch \/ RejectVote
    <2>1. UNCHANGED <<api, window, open, feeds>>
      BY <1>1 DEF vars, Rank, Regen, Restart, ServeRefresh, ServePrefetch, ServeVote, ServeLate,
           UserVote, ApplyVote, SwitchSort, Quit, Exit,
           FailRefresh, RejectRefresh, FailPrefetch, RejectVote
    <2> QED
      BY <1>t, <2>1, CachesIsMatchNext
  <1>2. CASE UserUndo \/ FailVote
    <2>1. /\ UNCHANGED <<api, window, open>>
          /\ feeds' = feeds \/ \E s : ApplyUndo(s)
      BY <1>2 DEF UserUndo, FailVote, ApplyVote
    <2> QED
      BY <1>t, <2>1, Undone, CachesIsMatchNext
  <1>3. CASE ReceiveRefresh
    <2>1. Answered(refresh) /\ UNCHANGED <<api, window, voteWindow>>
      BY <1>3 DEF ReceiveRefresh
    <2>2. CASE UNCHANGED <<open, feeds>>
      BY <1>t, <2>1, <2>2, CachesIsMatchNext
    <2>3. CASE ~Obsolete /\ refresh.window # window /\ KeepReply(refresh.window, refresh.reply)
      <3>1. /\ refresh.window \in Windows /\ refresh.reply.profile = api
            /\ refresh.reply \in FeedType
        BY <2>1, ReplyTypes DEF Flights, Answered
      <3>2. UNCHANGED open
        BY <2>3 DEF KeepReply
      <3>3. CASE open /\ refresh.reply.version = Feed.version
        <4>1. feeds' = [feeds EXCEPT ![refresh.window] = refresh.reply]
          BY <2>3, <3>3 DEF KeepReply
        <4> QED
          BY <2>1, <2>3, <3>1, <3>2, <3>3, <4>1, KeptMatches, CachesIsMatchNext
      <3>4. CASE ~(open /\ refresh.reply.version = Feed.version)
        BY <1>t, <2>1, <2>3, <3>2, <3>4, CachesIsMatchNext DEF KeepReply
      <3> QED
        BY <3>3, <3>4
    <2>4. CASE ShowReply(refresh.reply)
      BY <2>1, <2>4, ReplyShown, CachesIsMatchNext
    <2> QED
      BY <1>3, <2>2, <2>3, <2>4 DEF ReceiveRefresh, DropReply
  <1>4. CASE ReceivePrefetch
    <2>1. Answered(prefetch) /\ UNCHANGED <<api, window, open>>
      BY <1>4 DEF ReceivePrefetch
    <2>2. CASE ~Accepts(prefetch)
      BY <1>4, <1>t, <2>1, <2>2, CachesIsMatchNext DEF ReceivePrefetch
    <2>3. CASE Accepts(prefetch)
      <3>1. feeds' = [feeds EXCEPT ![prefetch.window] = prefetch.reply]
        BY <1>4, <2>3 DEF ReceivePrefetch
      <3>2. /\ prefetch.window \in Windows /\ prefetch.window # window /\ open
            /\ prefetch.reply \in FeedType /\ prefetch.reply.profile = api
            /\ prefetch.reply.version = Feed.version
        BY <2>1, <2>3, ReplyTypes DEF Accepts, Answered, Flights
      <3> QED
        BY <2>1, <3>1, <3>2, KeptMatches, CachesIsMatchNext
    <2> QED
      BY <2>2, <2>3
  <1>5. CASE AckVote
    <2>1. UNCHANGED <<api, window, open>>
      BY <1>5 DEF AckVote
    <2>2. CASE UNCHANGED feeds
      BY <1>t, <2>1, <2>2, CachesIsMatchNext
    <2>3. CASE ~UNCHANGED feeds
      <3>1. PICK t : t = Head(queue).target
        OBVIOUS
      <3>2. t \in Nat /\ open /\ feeds' = SetFeed([Feed EXCEPT !.target = t, !.ready = FALSE])
        <4>1. queue # <<>> /\ queue \in Seq(VoteType)
          BY <1>5 DEF AckVote, TypeOK
        <4> QED
          BY <1>5, <2>3, <3>1, <4>1, HeadAndTail, KeyFacts DEF AckVote
      <3> QED
        BY <2>1, <3>2, StaleShown, CachesIsMatchNext
    <2> QED
      BY <2>2, <2>3
  <1>6. CASE SwitchWindow
    <2>1. PICK w \in Windows \ {window} :
            /\ window' = w /\ UNCHANGED api
            /\ \/ /\ open /\ feeds[w] # NoFeed /\ feeds[w].version = Feed.version
                  /\ feeds' = [InCache EXCEPT ![w].target = Feed.target, ![w].ready = Feed.ready]
                  /\ UNCHANGED open
               \/ open' = FALSE /\ feeds' = InCache
      BY <1>6 DEF SwitchWindow
    <2>2. CASE open' = FALSE /\ feeds' = InCache
      BY <1>t, <2>1, <2>2, InCacheFacts, CachesIsMatchNext DEF Match
    <2>3. CASE /\ open /\ feeds[w] # NoFeed /\ feeds[w].version = Feed.version
               /\ feeds' = [InCache EXCEPT ![w].target = Feed.target, ![w].ready = Feed.ready]
               /\ UNCHANGED open
      BY <2>1, <2>3, CachedShown, CachesIsMatchNext
    <2> QED
      BY <2>1, <2>2, <2>3
  <1>7. CASE Connected
    BY <1>7 DEF Connected, Caches, CachesMatch
  <1>8. CASE Poll \/ PollCounts
    <2>1. /\ UNCHANGED <<api, window, open>> /\ feeds'[window] = feeds[window]
          /\ \A w \in Windows : feeds'[w] = feeds[w] \/ feeds'[w] = NoFeed
      BY <1>8, Polled
    <2> QED
      BY <1>t, <2>1, Forgotten, CachesIsMatchNext
  <1> QED
    BY <1>1, <1>2, <1>3, <1>4, <1>5, <1>6, <1>7, <1>8 DEF Next, Server, User, Receive, Fault

-----------------------------------------------------------------------------
(* What was acknowledged over a deck is not forgotten.                      *)
DeckKept ==
  open' => /\ open
           /\ Feed'.version = Feed.version
           /\ Feed'.target = Feed.target
           /\ Feed'.ready = Feed.ready

HeadKept == queue' = queue \/ queue' = <<>> \/ ~(queue'[1].target > 0)

(* The frame: known stays, and nothing that waits for it is lost.           *)
LEMMA AcksKept ==
  ASSUME TypeOK, Acks, known' = known, current' \in Nat, current' >= current,
         DeckKept \/ Waits(Feed)',
         HeadKept \/ (queue' # <<>> /\ queue'[1].target >= known),
         refresh' = refresh \/ refresh'.reply = NoFeed
  PROVE  Acks'
  <1>1. AckNotForgotten'
    BY DEF Acks, AckNotForgotten, DeckKept, Waits
  <1>2. known' <= current'
    BY DEF TypeOK, Acks
  <1>3. queue' # <<>> /\ queue'[1].target > 0 => queue'[1].target >= known'
    BY DEF Acks, HeadKept
  <1>4. Answered(refresh)' /\ refresh'.newest => Waits(refresh.reply)'
    BY DEF Acks, Answered, Waits
  <1> QED
    BY <1>1, <1>2, <1>3, <1>4 DEF Acks

(* After a vote is answered the next has not been sent.                     *)
LEMMA NextNotSent ==
  ASSUME TypeOK, OneInFlight, queue # <<>>, queue' = Tail(queue) PROVE HeadKept
  <1>q. queue \in Seq(VoteType)
    BY DEF TypeOK
  <1> SUFFICES ASSUME queue' # <<>> PROVE ~(queue'[1].target > 0)
    BY DEF HeadKept
  <1>1. 1 \in DOMAIN queue'
    BY <1>q, HeadAndTail
  <1>2. 1 + 1 \in DOMAIN queue /\ queue'[1] = queue[1 + 1]
    BY <1>q, <1>1, HeadAndTail
  <1>3. queue'[1].target = 0
    BY <1>2 DEF OneInFlight
  <1> QED
    BY <1>3

(* Nor is one that is appended.                                             *)
LEMMA AddedNotSent ==
  ASSUME TypeOK, Acks, NEW s \in Stories, NEW action \in {"vote", "clear"}, Submit(s, action)
  PROVE  HeadKept \/ (queue' # <<>> /\ queue'[1].target >= known)
  <1>q. queue \in Seq(VoteType) /\ revision \in [Stories -> Nat]
    BY DEF TypeOK
  <1>v. PICK vote : vote = [story |-> s, action |-> action, revision |-> revision[s] + 1, target |-> 0]
    OBVIOUS
  <1>t. vote \in VoteType /\ vote.target = 0 /\ queue' = Append(queue, vote)
    BY <1>q, <1>v DEF VoteType, Submit
  <1>1. CASE queue = <<>>
    BY <1>t, <1>1 DEF HeadKept
  <1>2. CASE queue # <<>>
    <2>1. 1 \in DOMAIN queue /\ queue'[1] = queue[1] /\ queue' # <<>>
      BY <1>q, <1>t, <1>2, HeadAndTail, Appended
    <2> QED
      BY <1>2, <2>1 DEF Acks, HeadKept
  <1> QED
    BY <1>1, <1>2

LEMMA InitAcks == ASSUME Init PROVE Acks
  BY BootsAssumption DEF Init, Acks, AckNotForgotten, Answered, Request

LEMMA StepKeepsAcks ==
  ASSUME TypeOK, TypeOK', Flights, Caches, OneInFlight, Acks, [Next]_vars PROVE Acks'
  <1> USE DEF server, view, marks, voting, quitting, bounds
  <1>t. /\ window \in Windows /\ feeds \in [Windows -> FeedType] /\ api > 0
        /\ known \in Nat /\ current \in Nat /\ current' \in Nat
        /\ queue \in Seq(VoteType)
    BY DEF TypeOK, Flights
  <1>f. Feed \in FeedType /\ Served \in FeedType
    BY FeedTypes
  <1>r. \A w : Request(w).reply = NoFeed
    BY DEF Request
  <1>d. UNCHANGED <<window, open, feeds>> => DeckKept
    BY DEF DeckKept, Feed
  <1>1. CASE \/ UNCHANGED vars
             \/ Rank \/ Regen \/ ServePrefetch \/ ServeLate
             \/ SwitchSort \/ Quit \/ Exit
             \/ FailRefresh \/ RejectRefresh \/ FailPrefetch \/ RejectVote
    <2>1. UNCHANGED <<window, open, feeds, known>>
      BY <1>1 DEF vars, Rank, Regen, ServePrefetch, ServeLate, SwitchSort, Quit, Exit,
           FailRefresh, RejectRefresh, FailPrefetch, RejectVote
    <2>2. current' >= current
      BY <1>1, <1>t DEF vars, Rank, Regen, ServePrefetch, ServeLate, Record, SwitchSort, Quit, Exit,
           FailRefresh, RejectRefresh, FailPrefetch, RejectVote
    <2>3. HeadKept
      BY <1>1 DEF vars, Rank, Regen, ServePrefetch, ServeLate, SwitchSort, Quit, Exit,
           FailRefresh, RejectRefresh, FailPrefetch, RejectVote, Setup, HeadKept
    <2>4. refresh' = refresh \/ refresh'.reply = NoFeed
      BY <1>1, <1>r, Constants DEF vars, Rank, Regen, ServePrefetch, ServeLate, SwitchSort, Quit,
           Exit, FailRefresh, RejectRefresh, FailPrefetch, RejectVote, Setup, Refresh
    <2> QED
      BY <1>d, <1>t, <2>1, <2>2, <2>3, <2>4, AcksKept
  <1>2. CASE Restart
    <2>1. known' = 0 /\ UNCHANGED <<window, open, feeds, queue, refresh>>
      BY <1>2 DEF Restart
    <2>2. Feed' = Feed /\ Feed.version >= 0
      BY <1>f, <2>1 DEF Feed, FeedType
    <2>3. queue # <<>> => queue[1].target >= 0
      BY <1>t, HeadAndTail, KeyFacts
    <2>4. refresh.reply.version >= 0
      BY ReplyTypes DEF FeedType
    <2> QED
      BY <1>t, <2>1, <2>2, <2>3, <2>4 DEF Acks, AckNotForgotten, Waits
  <1>3. CASE ServeRefresh
    <2>1. /\ refresh' = [refresh EXCEPT !.reply = Served]
          /\ UNCHANGED <<current, window, open, feeds, queue, known>>
      BY <1>3 DEF ServeRefresh
    <2>2. refresh'.reply = Served
      BY <2>1 DEF TypeOK, RequestType
    <2>3. Waits(Served)
      <3>1. known <= current /\ deck.version \in Nat
        BY DEF Acks, TypeOK
      <3>2. CASE voted = {}
        <4>1. Served.version = current
          BY <3>2 DEF Served
        <4> QED
          BY <1>t, <3>1, <4>1 DEF Waits
      <3>3. CASE voted # {}
        <4>1. /\ Served.version = deck.version /\ Served.target = current
              /\ Served.ready = (deck.version >= current)
          BY <3>3 DEF Served
        <4>3. CASE deck.version >= current
          BY <1>t, <3>1, <4>1, <4>3 DEF Waits
        <4>4. CASE ~(deck.version >= current)
          BY <1>t, <3>1, <4>1, <4>4 DEF Waits
        <4> QED
          BY <4>3, <4>4
      <3> QED
        BY <3>2, <3>3
    <2>4. Waits(refresh.reply)'
      BY <2>1, <2>2, <2>3 DEF Waits
    <2>5. Feed' = Feed
      BY <2>1 DEF Feed
    <2> QED
      BY <2>1, <2>4, <2>5 DEF Acks, AckNotForgotten
  <1>4. CASE ServeVote
    <2>1. /\ queue # <<>> /\ queue' = [queue EXCEPT ![1].target = current']
          /\ current' >= current
          /\ UNCHANGED <<window, open, feeds, refresh, known>>
      BY <1>4, <1>t DEF ServeVote, Record
    <2>2. queue' # <<>> /\ queue'[1].target = current'
      <3>1. 1 \in DOMAIN queue /\ queue[1] \in VoteType
        BY <1>t, <2>1, HeadAndTail
      <3>2. 1 \in DOMAIN queue' /\ queue'[1].target = current'
        BY <2>1, <3>1 DEF VoteType
      <3> QED
        BY <3>2
    <2>3. current' >= known
      BY <1>t, <2>1 DEF Acks
    <2> QED
      BY <1>d, <1>t, <2>1, <2>2, <2>3, AcksKept
  <1>5. CASE UserVote
    <2>1. PICK s \in Stories :
            Submit(s, "vote") /\ UNCHANGED <<current, window, open, feeds, refresh, known>>
      BY <1>5, <1>f DEF UserVote, Shown, FeedType, ApplyVote
    <2> QED
      BY <1>d, <1>t, <2>1, AddedNotSent, AcksKept
  <1>u. ASSUME NEW s, ApplyUndo(s), UNCHANGED <<window, open>> PROVE DeckKept
    BY <1>t, <1>u, Undone DEF DeckKept, Feed
  <1>6. CASE UserUndo
    <2>1. PICK s \in Stories :
            /\ ApplyUndo(s) /\ Submit(s, "clear")
            /\ UNCHANGED <<current, window, open, refresh, known>>
      <3>1. Last(history) \in Stories
        BY <1>6, ElementOfSeq, LenProperties DEF UserUndo, TypeOK, Last
      <3> QED
        BY <1>6, <3>1 DEF UserUndo
    <2> QED
      BY <1>u, <1>t, <2>1, AddedNotSent, AcksKept
  <1>7. CASE FailVote
    <2>1. /\ queue # <<>> /\ queue' = Tail(queue)
          /\ UNCHANGED <<current, window, open, refresh, known>>
          /\ UNCHANGED feeds \/ \E s : ApplyUndo(s)
      BY <1>7 DEF FailVote, ApplyVote
    <2> QED
      BY <1>d, <1>u, <1>t, <2>1, NextNotSent, AcksKept
  <1>8. CASE ReceiveRefresh
    <2>1. /\ Answered(refresh) /\ UNCHANGED <<current, window, voteWindow, queue, known>>
      BY <1>8 DEF ReceiveRefresh
    <2>2. refresh'.reply = NoFeed
      <3>1. \E isOpen : FinishSortRefresh(window, isOpen)
        BY <1>8 DEF ReceiveRefresh, DropReply, KeepReply, ShowReply
      <3> QED
        BY <1>r, <3>1, Constants DEF FinishSortRefresh
    <2>3. DeckKept \/ Waits(Feed)'
      <3>1. CASE DropReply
        BY <1>d, <2>1, <3>1 DEF DropReply
      <3>2. CASE refresh.window # window /\ KeepReply(refresh.window, refresh.reply)
        <4>1. UNCHANGED <<window, open>> /\ feeds'[window] = feeds[window]
          BY <1>t, <2>1, <3>2 DEF KeepReply
        <4> QED
          BY <4>1 DEF DeckKept, Feed
      <3>3. CASE ~Obsolete /\ ShowReply(refresh.reply)
        <4>1. Waits(refresh.reply)
          BY <2>1, <3>3 DEF Obsolete, Acks
        <4>2. /\ open' = TRUE
              /\ feeds'[window].version = refresh.reply.version
              /\ feeds'[window].target = refresh.reply.target
              /\ feeds'[window].ready = refresh.reply.ready
          BY <2>1, <3>3, ReplyShown
        <4> QED
          BY <2>1, <4>1, <4>2 DEF Waits, Feed
      <3> QED
        BY <1>8, <3>1, <3>2, <3>3 DEF ReceiveRefresh
    <2> QED
      BY <1>t, <2>1, <2>2, <2>3, AcksKept DEF HeadKept
  <1>9. CASE ReceivePrefetch
    <2>1. /\ UNCHANGED <<current, window, open, queue, refresh, known>>
          /\ feeds'[window] = feeds[window]
      BY <1>9, <1>t DEF ReceivePrefetch, Accepts
    <2>2. DeckKept
      BY <2>1 DEF DeckKept, Feed
    <2> QED
      BY <1>t, <2>1, <2>2, AcksKept DEF HeadKept
  <1>10. CASE AckVote
    <2>t. PICK t : t = Head(queue).target
      OBVIOUS
    <2>1. /\ queue # <<>> /\ queue' = Tail(queue) /\ t > 0
          /\ UNCHANGED <<current, window, open>>
      BY <1>10, <2>t DEF AckVote
    <2>2. t \in Nat /\ t >= known
      BY <1>t, <2>t, <2>1, HeadAndTail, KeyFacts DEF Acks
    <2>3. HeadKept
      BY <2>1, NextNotSent
    <2>4. CASE open /\ t > Feed.version
      <3>1. /\ feeds' = SetFeed([Feed EXCEPT !.target = t, !.ready = FALSE])
            /\ refresh' = [refresh EXCEPT !.newest = FALSE]
            /\ known' = IF known < t /\ t <= current THEN t ELSE known
        BY <1>10, <2>t, <2>4 DEF AckVote
      <3>2. feeds'[window].target = t /\ feeds'[window].ready = FALSE
        BY <2>2, <2>4, <3>1, StaleShown
      <3>3. t >= known' /\ known' <= current
        BY <1>t, <2>2, <3>1 DEF Acks
      <3>4. AckNotForgotten'
        BY <2>1, <2>4, <3>2, <3>3 DEF AckNotForgotten, Feed
      <3>5. ~refresh'.newest
        BY <3>1 DEF TypeOK, RequestType
      <3>6. ~(queue' # <<>> /\ queue'[1].target > 0) \/ queue'[1].target >= known'
        <4>1. queue' # queue
          <5>1. Len(queue) \in Nat /\ Len(queue') # Len(queue)
            BY <1>t, <2>1
          <5> QED
            BY <5>1
        <4> QED
          BY <2>3, <4>1 DEF HeadKept
      <3> QED
        BY <2>1, <3>3, <3>4, <3>5, <3>6 DEF Acks
    <2>5. CASE ~(open /\ t > Feed.version)
      <3>1. UNCHANGED <<feeds, refresh, known>>
        BY <1>10, <2>t, <2>5 DEF AckVote
      <3> QED
        BY <1>d, <1>t, <2>1, <2>3, <3>1, AcksKept
    <2> QED
      BY <2>4, <2>5
  <1>11. CASE SwitchWindow
    <2>1. PICK w \in Windows \ {window} :
            /\ window' = w /\ UNCHANGED <<current, queue, known>>
            /\ \/ /\ open /\ feeds[w] # NoFeed /\ feeds[w].version = Feed.version
                  /\ feeds' = [InCache EXCEPT ![w].target = Feed.target, ![w].ready = Feed.ready]
                  /\ UNCHANGED <<open, refresh>>
               \/ open' = FALSE /\ refresh' = Request(w)
      BY <1>11 DEF SwitchWindow, Refresh
    <2>2. DeckKept
      <3>1. CASE open' = FALSE
        BY <3>1 DEF DeckKept
      <3>2. CASE open' # FALSE
        <4>1. /\ open /\ open' = open
              /\ feeds'[w].version = Feed.version
              /\ feeds'[w].target = Feed.target
              /\ feeds'[w].ready = Feed.ready
          BY <2>1, <3>2, CachedShown
        <4>2. Feed' = feeds'[w]
          BY <2>1, <4>1 DEF Feed
        <4> QED
          BY <4>1, <4>2 DEF DeckKept
      <3> QED
        BY <3>1, <3>2
    <2>3. refresh' = refresh \/ refresh'.reply = NoFeed
      BY <1>r, <2>1
    <2> QED
      BY <1>t, <2>1, <2>2, <2>3, AcksKept DEF HeadKept
  <1>12. CASE Connected
    <2>1. /\ known' = 0 /\ open' = FALSE /\ queue' = <<>>
          /\ refresh' = [Request(window) EXCEPT !.profile = api'] /\ UNCHANGED current
      BY <1>12 DEF Connected, Flights
    <2>2. refresh'.reply = NoFeed
      BY <2>1 DEF Request
    <2> QED
      BY <1>t, <2>1, <2>2 DEF Acks, AckNotForgotten, Answered
  <1>13. CASE Poll \/ PollCounts
    <2>1. /\ UNCHANGED <<current, window, open, queue, known>>
          /\ refresh' = Request(window) /\ feeds'[window] = feeds[window]
      BY <1>13, Polled
    <2>2. DeckKept
      BY <2>1 DEF DeckKept, Feed
    <2> QED
      BY <1>t, <1>r, <2>1, <2>2, AcksKept DEF HeadKept
  <1> QED
    BY <1>1, <1>2, <1>3, <1>4, <1>5, <1>6, <1>7, <1>8, <1>9, <1>10, <1>11, <1>12, <1>13
       DEF Next, Server, User, Receive, Fault

-----------------------------------------------------------------------------
(* The theorems.                                                            *)
Inv ==
  TypeOK /\ Requests /\ Caches /\ OneInFlight /\ Acks /\ Votes /\ Screen

(* Every reachable state of the reader and its server satisfies Inv.        *)
THEOREM Invariance == Spec => []Inv
  <1>1. Init => Inv
    BY InitTyped, InitRequests, InitCaches, InitAcks, InitVotes, InitScreen DEF Inv
  <1>2. Inv /\ [Next]_vars => Inv'
    <2> SUFFICES ASSUME Inv, [Next]_vars PROVE Inv'
      OBVIOUS
    <2>1. TypeOK /\ Flights /\ Requests /\ Caches /\ OneInFlight /\ Acks /\ Votes /\ Order /\ Screen
      BY DEF Inv, Requests, Votes
    <2>2. TypeOK'
      BY <2>1, StepKeepsTypes
    <2> QED
      BY <2>1, <2>2, StepKeepsRequests, StepKeepsCaches, StepKeepsOneInFlight, StepKeepsAcks,
         StepKeepsVotes, StepKeepsScreen DEF Inv
  <1> QED
    BY <1>1, <1>2, PTL DEF Spec

(* The variables of the reader keep their types, and history lists a story  *)
(* once (app.py's list of what can be undone).                              *)
THEOREM TypeCorrect == Spec => []TypeOK
  BY Invariance, PTL DEF Inv

(* apply_vote, apply_undo and a failed request's rollback never leave the   *)
(* screen and the server in disagreement on a choice that was confirmed.    *)
THEOREM ConfirmedChoicesAgree == Spec => []ScreenAgrees
  <1>1. Inv => ScreenAgrees
    BY DEF Inv, Screen
  <1> QED
    BY <1>1, Invariance, PTL

(* A vote that was acknowledged over a deck is in the deck on screen, or is *)
(* waited for: no reply, prefetch, poll or change of window loses it.       *)
THEOREM AcknowledgedIsAwaited == Spec => []AckNotForgotten
  <1>1. Inv => AckNotForgotten
    BY DEF Inv, Acks
  <1> QED
    BY <1>1, Invariance, PTL

(* A sort change behind a feed request has a request to follow up.          *)
THEOREM FollowUpHasRequest == Spec => []NoStrandedFollowUp
  <1>1. Inv => NoStrandedFollowUp
    BY DEF Inv, Requests
  <1> QED
    BY <1>1, Invariance, PTL

(* The decks kept for the other windows are this profile's and of the       *)
(* version on screen, whatever late replies and prefetches arrive.          *)
THEOREM CachesBelong == Spec => []CachesMatch
  <1>1. Inv => CachesMatch
    BY DEF Inv, Caches
  <1> QED
    BY <1>1, Invariance, PTL

(* What is printed on exit is exactly what was under way and not confirmed. *)
THEOREM ExitReportIsExact == Spec => []ReportExact
  <1>1. Inv => ReportExact
    BY DEF Inv, Votes, Reported
  <1> QED
    BY <1>1, Invariance, PTL

=============================================================================
