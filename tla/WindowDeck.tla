----------------------------- MODULE WindowDeck -----------------------------
(***************************************************************************)
(* From a ranking to the cards a window serves (fast_rerank_for_user and   *)
(* serve_window).  A rank takes one snapshot of the votes; then it picks   *)
(* the views of every window, deduplicates all of them at once, follows    *)
(* the HN duplicates, interleaves Recommended with the challengers' orders *)
(* and places the far card, reading the clock anew at each stage.  The     *)
(* deck is cached, and served while stories age and more votes arrive.     *)
(*                                                                         *)
(* What scoring finds is the data of a pool, and an order stands for the   *)
(* scores, so there are no ties; one gravity order stands for those of the *)
(* windows.  Badges of Popular, text and attributions are left out.        *)
(***************************************************************************)
EXTENDS Integers, HnDupeCards

CONSTANTS
  Stories,    \* all stories with a row
  Pools,      \* candidate pools with their scores, see Pool
  Windows,    \* the windows, nested by age, and perhaps Archive
  Archive,    \* the window of what is older
  Width,      \* WINDOW_SECONDS: how old a window's stories may be
  ViewSize,   \* VIEW_SIZE: cards of a served view
  PerBadge,   \* EXPLORE_PER_BADGE
  Margin,     \* SELECT_MARGIN
  Horizon,    \* regen_interval_seconds
  MaxTime,    \* bound on the clock
  MaxVotes    \* bound on the stories voted on after the rank has begun

Actions == {"none", "up", "neutral", "down"}

(* A pool is a record of                                                   *)
(*   ranked    the candidates, best model score first                      *)
(*   entropy   the same, the most uncertain first; <<>> without a model    *)
(*   gravity   the HN stories by gravity                                   *)
(*   arms      a ranking of each challenger, <<>> without a trial          *)
(*   age       of every story at time 0, votes, what it was voted with     *)
(*   far       stories not close to any up-vote                            *)
(*   interest  the interest, 1 and up, that each is nearest to             *)
(*   hn        the HN stories                                              *)
(*   url       a URL each; near, pairs of close embeddings, closest first  *)
(*   titles    pairs of similar titles                                     *)
(*   worth     of a URL's stories, which dedup prefers: the source, points *)
(*   canonical what each duplicates; showable, which are summarizable      *)
Pool ==
  [ranked : Seq(Stories), entropy : Seq(Stories), gravity : Seq(Stories),
   arms : Seq(Seq(Stories)), age : [Stories -> Int], votes : [Stories -> Actions],
   far : SUBSET Stories, interest : [Stories -> Nat], hn : SUBSET Stories,
   url : [Stories -> Int], near : Seq(SUBSET Stories), titles : SUBSET SUBSET Stories,
   worth : [Stories -> [source : Int, points : Nat]],
   canonical : [Stories -> Stories \cup {NoStory}], showable : SUBSET Stories]

\* An order names a story once, and discussions are HN stories.
Proper(p) ==
  /\ \A list \in {p.ranked, p.entropy, p.gravity} : IsInjective(list)
  /\ Range(p.gravity) = p.hn
  /\ \A s \in p.hn : p.canonical[s] \in p.hn \cup {NoStory}

ASSUME DeckAssumption ==
  /\ {ViewSize, PerBadge, Margin} \subseteq Nat \ {0} /\ {Horizon, MaxTime} \subseteq Nat
  /\ IsFiniteSet(Stories) /\ Stories \subseteq Int /\ NoStory \notin Stories
  /\ Width \in [Windows \ {Archive} -> Int]
  /\ Pools \subseteq {p \in Pool : Proper(p)}

VARIABLES
  pool,      \* of this rank, does not change
  clock,
  votes,     \* the action each story was voted with, "none" without
  stage,     \* of the rank, "cached" when it is over
  feedback,  \* the rank's snapshot of the votes
  hasUpvotes, \* has_upvotes: whether the votes read for training had up-votes
  deck,      \* the views of every window
  picked,    \* history: the deck as it was assembled
  compared,  \* history: the votes the deck was deduplicated with, until the next stage
  builtAt    \* when the far card was placed

vars == <<pool, clock, votes, stage, feedback, hasUpvotes, deck, picked, compared, builtAt>>

NoView == [recommended |-> <<>>, popular |-> <<>>, explore |-> <<>>]
NoDeck == [w \in Windows |-> NoView]
Views == DOMAIN NoView

\* A card keeps the score and the distance of the story it was picked for.
Card(s) == [story |-> s, of |-> s, badge |-> "none", arm |-> 0]
Cards(list) == [i \in DOMAIN list |-> Card(list[i])]
FarArm == -1

StoriesOf(cards) == {c.story : c \in Range(cards)}
Place(list, x) == CHOOSE i \in DOMAIN list : list[i] = x

\* What a list has of a set, in the order of the list.
Only(list, set) ==
  LET only[n \in 0 .. Len(list)] ==
        IF n = 0 THEN <<>>
        ELSE IF list[n] \in set THEN Append(only[n - 1], list[n])
        ELSE only[n - 1]
  IN  only[Len(list)]

First(cards, n) == SubSeq(cards, 1, Min({n, Len(cards)}))

InWindow(s, w, now) ==
  LET age == pool.age[s] + now
  IN  IF w = Archive THEN \A v \in DOMAIN Width : age > Width[v]
                     ELSE age <= Width[w]

Voted(of) == {s \in Stories : of[s] # "none"}
\* The votes whose duplicates are suppressed (dedup_exclude_actions).
Liked(of) == {s \in Stories : of[s] \in {"up", "neutral"}}
UpVoted == \E s \in Stories : votes[s] = "up"

-----------------------------------------------------------------------------
(* Picking the views                                                       *)

\* The votes whose duplicates are suppressed; a rank that found no votes reads
\* them again.
Context == Liked(IF Voted(feedback) = {} THEN votes ELSE feedback)

\* _matches_feedback: a story that duplicates a voted one.
Matches(s) ==
  \E f \in Context :
    \/ s = f
    \/ pool.url[s] = pool.url[f]
    \/ s \in pool.hn /\ {s, f} \in pool.titles

Candidates(w) ==
  Only(pool.ranked, {s \in Stories \ Voted(feedback) : InWindow(s, w, clock)})

\* The top stories by model score, and with challengers those of each, too.
Recommended(w) ==
  LET candidates == Candidates(w)
      top(ranking) == Range(First(Only(ranking, Range(candidates)), ViewSize * Margin))
      tops == top(candidates) \cup UNION {top(a) : a \in Range(pool.arms)}
  IN  Only(candidates, tops)

Popular(w) == First(Only(pool.gravity, Range(Candidates(w))), ViewSize * Margin)

\* The first picks of a list that are not taken and duplicate no voted story.
Picks(list, taken, badge) ==
  LET free == First(Only(list, {s \in Stories \ taken : ~Matches(s)}), PerBadge * Margin)
  IN  [i \in DOMAIN free |-> [Card(free[i]) EXCEPT !.badge = badge]]

\* interest_picks: round-robin over the interests, those that the served
\* Recommended stories cover least first.  In each round an interest adds its
\* best story that is left.
Interests(w, taken) ==
  LET free == {s \in Range(Candidates(w)) \ taken : ~Matches(s)}
      shown == Range(First(Recommended(w), ViewSize))
      covered(s) == Cardinality({t \in shown : pool.interest[t] = pool.interest[s]})
      round(s) == Cardinality({t \in free : /\ pool.interest[t] = pool.interest[s]
                                           /\ Place(pool.ranked, t) < Place(pool.ranked, s)})
      before(s, t) ==
        \/ round(s) < round(t)
        \/ round(s) = round(t) /\ covered(s) < covered(t)
        \/ round(s) = round(t) /\ covered(s) = covered(t) /\ pool.interest[s] < pool.interest[t]
      turn(s) == Cardinality({t \in free : before(t, s)}) + 1
  IN  [n \in 1 .. Min({PerBadge * Margin, Cardinality(free)}) |->
         [Card(CHOOSE s \in free : turn(s) = n) EXCEPT !.badge = "interest"]]

\* Unsure, Discover and Interest, each excluding Recommended and the earlier
\* ones; nobody is far from up-votes there are none of.  The up-votes are those
\* of a later read than the snapshot.
Explore(w) ==
  LET candidates == Candidates(w)
      first == Range(Recommended(w))
      unsure == Picks(Only(pool.entropy, Range(candidates)), first, "unsure")
      second == first \cup StoriesOf(unsure)
      discover == Picks(Only(candidates, IF UpVoted THEN pool.far ELSE Stories),
                        second, "discover")
      third == second \cup StoriesOf(discover)
  IN  unsure \o discover \o IF UpVoted THEN Interests(w, third) ELSE <<>>

-----------------------------------------------------------------------------
(* Deduplication and canonicalization                                      *)

MapViews(of, Map(_, _, _)) ==
  [w \in Windows |-> [v \in Views |-> Map(w, v, of[w][v])]]

\* Every story of the deck once, best model score first.
DeckStories ==
  Only(pool.ranked, UNION {StoriesOf(deck[w][v]) : w \in Windows, v \in Views})

ById(set) ==
  [n \in 1 .. Cardinality(set) |->
     CHOOSE s \in set : Cardinality({t \in set : t < s}) = n - 1]

\* What dedup_ranked is given: the deck's stories, then the voted ones as they
\* are by now, which count no points and lose to the story itself.
Entries == DeckStories \o ById(Liked(votes) \ Range(DeckStories))

\* _story_sort_key: the preferred source, then points, then who comes first.
Preferred(s, t) ==
  LET points(x) == IF x \in Range(DeckStories) THEN pool.worth[x].points ELSE -1
      a == pool.worth[s].source
      b == pool.worth[t].source
  IN  \/ a < b
      \/ a = b /\ points(s) > points(t)
      \/ a = b /\ points(s) = points(t) /\ Place(Entries, s) < Place(Entries, t)

\* Of the stories of a URL the preferred one is left.
OnePerUrl ==
  Only(Entries, {s \in Range(Entries) :
    \A t \in Range(Entries) \ {s} : pool.url[s] = pool.url[t] => Preferred(s, t)})

\* MUTANT of Keep: the closest story goes and the new one is not kept either.
KeepNeither(kept, s) ==
  LET close == {i \in DOMAIN pool.near : \E t \in kept : pool.near[i] = {s, t}}
      rival == CHOOSE t \in kept : pool.near[Min(close)] = {s, t}
  IN  CASE close = {} -> kept \cup {s}
        [] close # {} -> IF Preferred(s, rival) THEN kept \ {rival} ELSE kept

\* One story's turn: it is kept, unless a kept one is close to it; then the
\* preferred of it and the closest is.
Keep(kept, s) ==
  LET close == {i \in DOMAIN pool.near : \E t \in kept : pool.near[i] = {s, t}}
      rival == CHOOSE t \in kept : pool.near[Min(close)] = {s, t}
  IN  CASE close = {} -> kept \cup {s}
        [] close # {} -> IF Preferred(s, rival) THEN (kept \ {rival}) \cup {s} ELSE kept

\* dedup_ranked: then stories with the URL of a voted one go.
Survivors ==
  LET list == OnePerUrl
      kept[n \in 0 .. Len(list)] == IF n = 0 THEN {} ELSE Keep(kept[n - 1], list[n])
      urls == {pool.url[f] : f \in Liked(feedback)}
  IN  {s \in kept[Len(list)] : pool.url[s] \notin urls}

Deduplicated ==
  LET survivors == Survivors
      left(w, v, cards) == Only(cards, {c \in Range(cards) : c.story \in survivors})
  IN  MapViews(deck, left)

\* canonical_outcomes, in one pass over the stories of all windows.
OutcomeOf ==
  LET list == DeckStories
      outcomes == Outcomes([ranked    |-> list,
                            hn        |-> pool.hn,
                            canonical |-> pool.canonical,
                            voted     |-> Context,
                            alike     |-> {s \in Stories : Matches(s)},
                            showable  |-> pool.showable])
  IN  [s \in Range(list) |-> outcomes[Place(list, s)]]

\* A stable sort of Popular, whose cards are HN stories.
ByGravity(cards) ==
  LET at(i) == IF cards[i].story \in pool.hn THEN Place(pool.gravity, cards[i].story) ELSE 0
      before(i, j) == at(i) < at(j) \/ (at(i) = at(j) /\ i < j)
      rank(j) == Cardinality({i \in DOMAIN cards : before(i, j)}) + 1
  IN  [n \in DOMAIN cards |-> cards[CHOOSE j \in DOMAIN cards : rank(j) = n]]

\* canonicalize_deck: the outcomes applied to each view.  A canonical story
\* that is not in the window leaves the view; Popular is sorted again.
Canonicalized ==
  LET outcome == OutcomeOf
      kept(c, w) == /\ outcome[c.story] # Dropped
                    /\ outcome[c.story] = c.story \/ InWindow(outcome[c.story], w, clock)
      remap(w, v, cards) ==
        LET left == Only(cards, {c \in Range(cards) : kept(c, w)})
            new == [i \in DOMAIN left |-> [left[i] EXCEPT !.story = outcome[@]]]
        IN  IF v = "popular" THEN ByGravity(new) ELSE new
  IN  MapViews(deck, remap)

-----------------------------------------------------------------------------
(* Interleaving and the far card                                           *)

\* The orders of production and of each challenger over what is left.
Orders(cards) ==
  LET ids == [i \in DOMAIN cards |-> cards[i].story]
  IN  <<ids>> \o [a \in DOMAIN pool.arms |-> Only(pool.arms[a], Range(ids))]

\* MUTANT of Turn: an arm whose next story was taken loses its turn.
TurnOnce(orders, picks, arm, limit) ==
  LET taken == {p.story : p \in Range(picks)}
      own == Cardinality({p \in Range(picks) : p.arm = arm}) + 1
  IN  IF \/ Len(picks) = limit \/ own > Len(orders[arm])
         \/ orders[arm][Min({own, Len(orders[arm])})] \in taken
        THEN picks
        ELSE Append(picks, [story |-> orders[arm][own], arm |-> arm])

\* In its turn an arm adds its best story that is not taken yet.
Turn(orders, picks, arm, limit) ==
  LET taken == {p.story : p \in Range(picks)}
      free == Only(orders[arm], Range(orders[arm]) \ taken)
  IN  IF Len(picks) = limit \/ free = <<>>
        THEN picks
        ELSE Append(picks, [story |-> Head(free), arm |-> arm])

\* A round gives every arm a turn.
Round(orders, picks, order, limit) ==
  LET after[n \in 0 .. Len(order)] ==
        IF n = 0 THEN picks ELSE Turn(orders, after[n - 1], order[n], limit)
  IN  after[Len(order)]

\* team_draft
Draw(orders, turns, limit) ==
  LET after[n \in 0 .. Len(turns)] ==
        IF n = 0 THEN <<>> ELSE Round(orders, after[n - 1], turns[n], limit)
  IN  after[Len(turns)]

\* The rounds of a draft; each visits the arms in an order of its own.  The
\* windows share them here, but are drafted each for itself.
Rounds == [1 .. ViewSize * Margin -> SetToSeqs(1 .. Len(pool.arms) + 1)]

Drafted(turns) ==
  LET draft(w, v, cards) ==
        LET picks == Draw(Orders(cards), turns, ViewSize * Margin)
            card(s) == CHOOSE c \in Range(cards) : c.story = s
        IN  IF v = "recommended"
              THEN [i \in DOMAIN picks |-> [card(picks[i].story) EXCEPT !.arm = picks[i].arm]]
              ELSE cards
  IN  MapViews(deck, draft)

Better(c, d) == Place(pool.ranked, c.of) < Place(pool.ranked, d.of)

Best(cards) == CHOOSE c \in cards : \A d \in cards \ {c} : Better(c, d)

\* Far cards that are not before the last served place of Recommended.
FarCards(views) ==
  LET head == First(views.recommended, ViewSize - 1)
      tail == Range(views.recommended) \ Range(head)
      found == {c \in Range(views.explore) :
                  c.badge = "discover" /\ c.story \notin StoriesOf(head)}
  IN  {c \in tail \cup found : hasUpvotes /\ c.of \in pool.far}

\* MUTANT of Far: the best far card, whether it stays or not.
FarNow(views, w) == Best(FarCards(views))

\* The best far card, of those that are still in the window a horizon later
\* if there are any.
Far(views, w) ==
  LET staying == {c \in FarCards(views) : InWindow(c.story, w, clock + Horizon)}
  IN  Best(IF staying = {} THEN FarCards(views) ELSE staying)

\* place_far_card: it goes to the last served place of Recommended.
FarPlaced(views, w) ==
  LET far == Far(views, w)
      head == First(views.recommended, ViewSize - 1)
      tail == SubSeq(views.recommended, Len(head) + 1, Len(views.recommended))
      without(cards) == Only(cards, {c \in Range(cards) : c.story # far.story})
  IN  [views EXCEPT
         !.recommended = head \o <<[far EXCEPT !.arm = FarArm, !.badge = "discover"]>>
                              \o without(tail),
         !.explore = without(@)]

-----------------------------------------------------------------------------
(* Serving                                                                 *)

ByScore(cards) ==
  LET order == Only(pool.ranked, {c.of : c \in cards})
  IN  [i \in DOMAIN order |-> CHOOSE c \in cards : c.of = order[i]]

\* serve_window's Explore: PerBadge cards of each badge, by model score.
ServedExplore(cards) ==
  LET of(badge) == First(Only(cards, {c \in Range(cards) : c.badge = badge}), PerBadge)
  IN  ByScore(UNION {Range(of(b)) : b \in {"unsure", "discover", "interest"}})

\* The far card comes last, after the first others.
ServedRecommended(cards) ==
  LET others == Only(cards, {c \in Range(cards) : c.arm # FarArm})
      far == Only(cards, {c \in Range(cards) : c.arm = FarArm})
  IN  IF far = <<>> THEN First(cards, ViewSize)
                    ELSE Append(First(others, ViewSize - 1), Head(far))

\* What a read shows of a window: no voted story (_deck_for_user), none that
\* aged out, and each view capped.
Served(w) ==
  LET current(cards) == Only(cards, {c \in Range(cards) :
        c.story \notin Voted(votes) /\ InWindow(c.story, w, clock)})
  IN  [recommended |-> ServedRecommended(current(deck[w].recommended)),
       popular     |-> First(current(deck[w].popular), ViewSize),
       explore     |-> ServedExplore(current(deck[w].explore))]

-----------------------------------------------------------------------------
(* The rank                                                                *)

Init ==
  /\ pool \in Pools
  /\ clock = 0
  /\ votes = pool.votes
  /\ stage = "feedback"
  /\ feedback = [s \in Stories |-> "none"] /\ hasUpvotes = FALSE
  /\ deck = NoDeck /\ picked = NoDeck /\ compared = {}
  /\ builtAt = 0

\* One snapshot of the votes, for all that does not read them again.
ReadFeedback ==
  /\ stage = "feedback"
  /\ feedback' = votes
  /\ stage' = "assemble"
  /\ UNCHANGED <<pool, clock, votes, hasUpvotes, deck, picked, compared, builtAt>>

\* assemble_window_deck, and without votes build_cold_deck.
Assemble ==
  /\ stage = "assemble"
  /\ deck' = [w \in Windows |->
       [recommended |-> Cards(Recommended(w)),
        popular     |-> Cards(Popular(w)),
        explore     |-> IF Voted(feedback) = {} THEN <<>> ELSE Explore(w)]]
  /\ hasUpvotes' = (Voted(feedback) # {} /\ UpVoted)
  /\ picked' = deck'
  /\ stage' = IF Voted(feedback) = {} THEN "canonicalize" ELSE "dedup"
  /\ UNCHANGED <<pool, clock, votes, feedback, compared, builtAt>>

Dedup ==
  /\ stage = "dedup"
  /\ deck' = Deduplicated
  /\ compared' = Liked(votes)
  /\ stage' = "canonicalize"
  /\ UNCHANGED <<pool, clock, votes, feedback, hasUpvotes, picked, builtAt>>

Canonicalize ==
  /\ stage = "canonicalize"
  /\ deck' = Canonicalized
  /\ compared' = {}
  /\ stage' = IF Voted(feedback) = {} THEN "cached"
              ELSE IF pool.arms = <<>> THEN "far" ELSE "draft"
  /\ UNCHANGED <<pool, clock, votes, feedback, hasUpvotes, picked, builtAt>>

Draft ==
  /\ stage = "draft"
  /\ \E turns \in Rounds : deck' = Drafted(turns)
  /\ stage' = "far"
  /\ UNCHANGED <<pool, clock, votes, feedback, hasUpvotes, picked, compared, builtAt>>

PlaceFar ==
  /\ stage = "far"
  /\ deck' = [w \in Windows |->
       IF FarCards(deck[w]) = {} THEN deck[w] ELSE FarPlaced(deck[w], w)]
  /\ builtAt' = clock
  /\ stage' = "cached"
  /\ UNCHANGED <<pool, clock, votes, feedback, hasUpvotes, picked, compared>>

\* A vote lands, or is undone, while the deck is ranked or served.
Vote ==
  /\ stage # "feedback"
  /\ \E s \in Stories :
       votes' = [votes EXCEPT ![s] = IF votes[s] = "none" THEN "up" ELSE "none"]
  /\ Cardinality({s \in Stories : votes'[s] # feedback[s]}) <= MaxVotes
  /\ UNCHANGED <<pool, clock, stage, feedback, hasUpvotes, deck, picked, compared, builtAt>>

Tick ==
  /\ clock < MaxTime
  /\ clock' = clock + 1
  /\ UNCHANGED <<pool, votes, stage, feedback, hasUpvotes, deck, picked, compared, builtAt>>

Next ==
  \/ ReadFeedback \/ Assemble \/ Dedup \/ Canonicalize \/ Draft \/ PlaceFar
  \/ Vote \/ Tick

Spec == Init /\ [][Next]_vars

-----------------------------------------------------------------------------
(* Properties                                                              *)

TypeOK ==
  /\ pool \in Pools /\ clock \in 0 .. MaxTime /\ builtAt \in 0 .. MaxTime
  /\ votes \in [Stories -> {"none", "up", "neutral", "down"}]
  /\ feedback \in [Stories -> {"none", "up", "neutral", "down"}]
  /\ stage \in {"feedback", "assemble", "dedup", "canonicalize", "draft", "far", "cached"}
  /\ hasUpvotes \in BOOLEAN
  /\ DOMAIN deck = Windows /\ DOMAIN picked = Windows /\ compared \subseteq Stories

\* No served view repeats a story, and Explore repeats none of Recommended:
\* neither a story two windows picked, nor one that stands for two
\* duplicates, nor the far card that was moved.
ServedOnce ==
  stage = "cached" =>
    \A w \in Windows :
      LET served == Served(w)
          stories(v) == StoriesOf(served[v])
      IN  /\ \A v \in Views : Cardinality(stories(v)) = Len(served[v])
          /\ stories("recommended") \cap stories("explore") = {}

\* The far card of a window, and what else could have been placed as it.
FarPlacedIn(w) == {c \in Range(deck[w].recommended) : c.arm = FarArm}
Eligible(w) ==
  LET others == Only(deck[w].recommended, {c \in Range(deck[w].recommended) : c.arm # FarArm})
  IN  FarPlacedIn(w) \cup FarCards([deck[w] EXCEPT !.recommended = others])

\* If some far story is to be in the window until the next rebuild, the last
\* card Recommended serves until then is the far card, whatever ages out and is
\* voted on around it, unless it is voted on itself.
FarCardStays ==
  stage = "cached" /\ clock <= builtAt + Horizon =>
    \A w \in Windows :
      (\E c \in Eligible(w) : InWindow(c.story, w, builtAt + Horizon)) =>
        \E c \in FarPlacedIn(w) :
          \/ c.story \in Voted(votes)
          \/ LET shown == Served(w).recommended
             IN  shown # <<>> /\ Last(shown) = c

\* After duplicates have gone, no prefix of a drafted view owes more than a
\* turn to one arm over another that still had a story to add, and each card is
\* the best its arm could add.
DraftFair ==
  [][stage = "draft" /\ stage' = "far" =>
     \A w \in Windows :
       LET cards == deck'[w].recommended
           orders == Orders(deck[w].recommended)
           credits(n, a) == Cardinality({i \in 1 .. n : cards[i].arm = a})
           left(n, a) == Only(orders[a],
                           Range(orders[a]) \ StoriesOf(SubSeq(cards, 1, n)))
       IN  \A n \in 0 .. Len(cards) :
             /\ n > 0 => cards[n].story = Head(left(n - 1, cards[n].arm))
             /\ \A a, b \in DOMAIN orders :
                  left(n, b) # <<>> => credits(n, a) <= credits(n, b) + 1]_vars

\* Stories about the same: one story, one URL, close or similar stories, or a
\* story and what it duplicates.
SameTopic(s, t) ==
  \/ pool.url[s] = pool.url[t]
  \/ {s, t} \in Range(pool.near) \cup pool.titles
  \/ pool.canonical[s] = t \/ pool.canonical[t] = s

Topic(s) ==
  LET grown[n \in 0 .. Cardinality(Stories)] ==
        IF n = 0 THEN {s}
        ELSE LET before == grown[n - 1]
             IN  before \cup {t \in Stories : \E u \in before : SameTopic(t, u)}
  IN  grown[Cardinality(Stories)]

\* Stories of a set whose resolutions lead round in a circle.
Circular(some) ==
  \E circle \in (SUBSET some) \ {{}} : \A s \in circle : pool.canonical[s] \in circle

\* Deduplication and canonicalization together, each of which picks a survivor
\* for itself, drop no topic: a story that was picked for a window leaves the
\* deck only for a story about the same that is shown or was voted on when one
\* of the two looked, or that is left out of a window since the discussion it
\* duplicates is not in there; or else cards of the topic, as deduplication left
\* it, resolve to each other in a circle, and each is dropped for the next.
TopicKept ==
  stage = "canonicalize" =>
    LET final == Canonicalized
        shown == UNION {StoriesOf(final[w][v]) : w \in Windows, v \in Views}
        ends == shown \cup Liked(feedback) \cup compared \cup Liked(votes)
        outside(t, w) == pool.canonical[t] # NoStory /\ ~InWindow(pool.canonical[t], w, clock)
    IN  \A w \in Windows, v \in Views : \A s \in StoriesOf(picked[w][v]) \ shown :
          \/ \E t \in Topic(s) :
               \/ t \in ends
               \/ \E x \in Windows, y \in Views : t \in StoriesOf(deck[x][y]) /\ outside(t, x)
          \/ Circular(Topic(s) \cap Range(DeckStories))

=============================================================================
