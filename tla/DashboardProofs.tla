-------------------------- MODULE DashboardProofs --------------------------
(* Proofs about Dashboard for every value of its constants.  IInv: types,   *)
(* and that a deck labelled with the current version has every vote and     *)
(* story change that version counts.  On it rest Jobs (one warm job per     *)
(* user), Answers (versions told to voters), Reads (views that are served)  *)
(* and StaleDecksMove (a stale deck has its next warm on the way).          *)
EXTENDS Dashboard, FiniteSetTheorems, TLAPS

-----------------------------------------------------------------------------
(* The part of the invariant that every other part rests on.                *)

(* A thread past the point where it picked its user has one.               *)
ForUser == {"trigger", "compare", "enqueue", "bump", "repeated", "ack", "votes",
            "drop", "cold", "pick", "serve", "check", "label", "rank",
            "rank_cold", "store", "finish"}

UserKnown ==
  /\ \A p \in Threads : pc[p] \in ForUser => user[p] \in Users
  /\ \A w \in Workers : ~At(w, "idle") => user[w] \in Users

(* No thread asks for a version its user has not reached.                   *)
CallersBehind ==
  \A p \in Threads : user[p] \in Users => ver[p] <= Current(user[p])

(* A vote whose version is not bumped yet is in the table.                  *)
WritesCommitted ==
  /\ \A u \in Users : counted[u] <= writes[u]
  /\ \A p \in Threads : At(p, "bump") =>
       user[p] \in Users /\ held[p].saw <= writes[user[p]]

(* Epochs announced, or about to be, have been committed.                   *)
EpochsCommitted ==
  /\ published <= epoch
  /\ \A p \in Publishers : ingested[p] <= epoch

(* Whoever is between reading the stories and storing the pool has the lock.*)
BuilderHasLock ==
  \A p \in Threads : At(p, "store_pool") => poolLock = p

Rebuilding == {"get_pool", "store_pool", "set_cold", "bump_gen"}

(* A pool, stored or still being built, is at least as new as `least`.      *)
PoolHas(least) ==
  /\ pool # NoEpoch => pool >= least
  /\ \A p \in Threads : At(p, "store_pool") => held[p].epoch >= least

(* The pool contains what was announced, and what a publisher that has      *)
(* invalidated it is about to announce.                                     *)
PoolFresh ==
  /\ PoolHas(published)
  /\ \A p \in Publishers : pc[p] \in Rebuilding => PoolHas(ingested[p])

(* A warm between its label and its store: the label is not ahead, and if   *)
(* nothing was published since, what it has read so far is complete.        *)
Labelled == {"rank", "rank_cold", "get_pool", "store_pool", "store"}

WarmHonest(w) ==
  pc[w] \in Labelled =>
    /\ held[w].version <= Current(user[w])
    /\ held[w].version = Current(user[w]) =>
         /\ pc[w] # "rank" => held[w].saw >= counted[user[w]]
         /\ pc[w] = "store" => held[w].epoch >= published

WarmsHonest == \A w \in Workers : WarmHonest(w)

IInv ==
  /\ TypeOK
  /\ UserKnown
  /\ NoVersionAhead
  /\ FreshDeckIsFresh
  /\ CallersBehind
  /\ WritesCommitted
  /\ EpochsCommitted
  /\ BuilderHasLock
  /\ PoolFresh
  /\ WarmsHonest
-----------------------------------------------------------------------------
LEMMA UsersCardinality == Cardinality(Users) \in Nat
  BY FS_CardinalityType, UsersAssumption

(* The invariant holds when the process starts.                             *)
LEMMA InitIInv == ASSUME Init PROVE IInv
  <1> USE ThreadsAssumption, UsersAssumption
      DEF IInv, TypeOK, UserKnown, NoVersionAhead, FreshDeckIsFresh, CallersBehind,
          WritesCommitted, EpochsCommitted, BuilderHasLock, PoolFresh, PoolHas,
          WarmsHonest, WarmHonest, ForUser, Rebuilding, Labelled, Labels, Threads,
          Deck, DeckOf, NoDeck, Versions, NoVersion, NoEpoch, Current, Newest,
          At, Go, Hold, Begin, End, CallTrigger, tables, poolVars, deckVars, queue,
          call, history, overlap, bounds
  <1> USE BootTimesAssumption DEF Init, Nothing, Queue!QueueInit, Queue!NoVersion
  <1>1. TypeOK
    OBVIOUS
  <1>2. WarmsHonest /\ PoolFresh /\ BuilderHasLock
    OBVIOUS
  <1> QED
    BY <1>1, <1>2

(* The steps that branch on a deck or on the queue keep the types.          *)
LEMMA BranchKeepsTypeOK ==
  ASSUME TypeOK, UserKnown, NEW p \in Threads,
         CompareDeck(p) \/ Enqueue(p) \/ PickDeck(p) \/ CheckDeck(p)
  PROVE  TypeOK'
  <1> USE DEF TypeOK, Labels, At, Go, tables, poolVars, deckVars, queue, call,
          history, overlap, bounds
  <1>1. CASE CompareDeck(p)
    BY <1>1, SMTT(30) DEF CompareDeck
  <1>2. CASE Enqueue(p)
    BY <1>2, SMTT(30) DEF Enqueue, Queue!Request, Queue!Covered, Queue!Newest, Queue!NoVersion
  <1>3. CASE PickDeck(p)
    <2>1. user[p] \in Users
      BY <1>3 DEF PickDeck, UserKnown, ForUser
    <2>2. decks[user[p]] \in Deck /\ DeckOf(NoVersion, 0, coldDeck) \in Deck
      BY <2>1 DEF Deck, DeckOf, NoVersion
    <2>3. held' \in [Threads -> Deck]
      BY <1>3, <2>2 DEF PickDeck, Hold
    <2>4. pc' \in [Threads -> Labels]
      BY <1>3 DEF PickDeck, CallTrigger
    <2>5. UNCHANGED <<back, ver>> \/ CallTrigger(p, ver[p], "serve")
      BY <1>3 DEF PickDeck
    <2>6. ver' \in [Threads -> Nat]
      BY <2>5 DEF CallTrigger
    <2>7. back' \in [Threads -> {"idle", "ack", "serve", "finish", "warm_cached"}]
      BY <2>5 DEF CallTrigger
    <2> QED
      BY <1>3, <2>3, <2>4, <2>6, <2>7 DEF PickDeck
  <1>4. CASE CheckDeck(p)
    BY <1>4, SMTT(30) DEF CheckDeck
  <1> QED
    BY <1>1, <1>2, <1>3, <1>4

(* _trigger_warm asks for the current version at most.                      *)
LEMMA TriggerKeepsIInv ==
  ASSUME IInv, NEW p \in Threads, TriggerWarm(p) PROVE IInv'
  <1> USE ThreadsAssumption, UsersAssumption
      DEF IInv, TypeOK, UserKnown, NoVersionAhead, FreshDeckIsFresh, CallersBehind,
          WritesCommitted, EpochsCommitted, BuilderHasLock, PoolFresh, PoolHas,
          WarmsHonest, WarmHonest, ForUser, Rebuilding, Labelled, Labels, Threads,
          Deck, DeckOf, NoDeck, Versions, NoVersion, NoEpoch, Current, Newest,
          At, Go, Hold, Begin, End, CallTrigger, tables, poolVars, deckVars, queue,
          call, history, overlap, bounds
  <1>1. CASE RaiseVersion(p)
    BY <1>1, SMTT(30) DEF RaiseVersion
  <1>2. CASE CompareDeck(p)
    <2> USE <1>2 DEF CompareDeck
    <2>1. pc'[p] \in {"idle", "ack", "serve", "finish", "warm_cached", "enqueue"}
      OBVIOUS
    <2>2. \A q \in Threads : q # p => pc'[q] = pc[q]
      OBVIOUS
    <2>3. TypeOK'
      BY BranchKeepsTypeOK
    <2>4. UserKnown'
      BY <2>1, <2>2
    <2>5. BuilderHasLock' /\ WritesCommitted' /\ EpochsCommitted'
      BY <2>1, <2>2
    <2>6. NoVersionAhead' /\ FreshDeckIsFresh' /\ CallersBehind'
      OBVIOUS
    <2>7. PoolFresh'
      BY <2>1, <2>2
    <2>8. WarmsHonest'
      BY <2>1, <2>2
    <2> QED
      BY <2>3, <2>4, <2>5, <2>6, <2>7, <2>8
  <1>3. CASE Enqueue(p)
    <2> USE <1>3 DEF Enqueue, Queue!Request, Queue!Covered, Queue!Newest, Queue!NoVersion
    <2>1. pc'[p] \in {"idle", "ack", "serve", "finish", "warm_cached"}
      OBVIOUS
    <2>2. \A q \in Threads : q # p => pc'[q] = pc[q]
      OBVIOUS
    <2>3. TypeOK'
      BY BranchKeepsTypeOK
    <2>3a. UserKnown'
      BY <2>1, <2>2
    <2>4. BuilderHasLock' /\ WritesCommitted' /\ EpochsCommitted'
      BY <2>1, <2>2
    <2>5. NoVersionAhead'
      <3>1. user[p] \in Users /\ ver[p] <= Current(user[p])
        OBVIOUS
      <3>2. UNCHANGED <<gen, bumps, decks, running>>
        OBVIOUS
      <3>3. \A u \in Users : pending'[u] = pending[u] \/ (u = user[p] /\ pending'[u] = ver[p])
        OBVIOUS
      <3> HIDE <1>3 DEF Enqueue, Queue!Request
      <3> QED
        BY <3>1, <3>2, <3>3
    <2>5a. FreshDeckIsFresh' /\ CallersBehind'
      OBVIOUS
    <2>6. PoolFresh'
      BY <2>1, <2>2
    <2>7. WarmsHonest'
      BY <2>1, <2>2
    <2> QED
      BY <2>3, <2>3a, <2>4, <2>5, <2>5a, <2>6, <2>7
  <1> QED
    BY <1>1, <1>2, <1>3 DEF TriggerWarm

(* A vote is committed before it is counted, and its bump puts every label  *)
(* handed out so far behind the current version.                            *)
LEMMA VoteKeepsIInv ==
  ASSUME IInv, NEW r \in Requests, Upsert(r) \/ Clear(r) \/ Repeat(r) \/ VoteStep(r)
  PROVE  IInv'
  <1> USE ThreadsAssumption, UsersAssumption
      DEF IInv, TypeOK, UserKnown, NoVersionAhead, FreshDeckIsFresh, CallersBehind,
          WritesCommitted, EpochsCommitted, BuilderHasLock, PoolFresh, PoolHas,
          WarmsHonest, WarmHonest, ForUser, Rebuilding, Labelled, Labels, Threads,
          Deck, DeckOf, NoDeck, Versions, NoVersion, NoEpoch, Current, Newest,
          At, Go, Hold, Begin, End, CallTrigger, tables, poolVars, deckVars, queue,
          call, history, overlap, bounds
  <1>1. CASE Upsert(r)
    <2> USE <1>1 DEF Upsert, Write
    <2>1. TypeOK'
      OBVIOUS
    <2>2. UserKnown' /\ BuilderHasLock' /\ WritesCommitted' /\ EpochsCommitted'
      OBVIOUS
    <2>3. NoVersionAhead' /\ FreshDeckIsFresh' /\ CallersBehind'
      OBVIOUS
    <2>4. PoolFresh'
      OBVIOUS
    <2>5. WarmsHonest'
      OBVIOUS
    <2> QED
      BY <2>1, <2>2, <2>3, <2>4, <2>5
  <1>2. CASE Clear(r)
    <2> USE <1>2 DEF Clear, Write
    <2>1. TypeOK'
      OBVIOUS
    <2>2. UserKnown' /\ BuilderHasLock' /\ WritesCommitted' /\ EpochsCommitted'
      OBVIOUS
    <2>3. NoVersionAhead' /\ FreshDeckIsFresh' /\ CallersBehind'
      OBVIOUS
    <2>4. PoolFresh'
      OBVIOUS
    <2>5. WarmsHonest'
      OBVIOUS
    <2> QED
      BY <2>1, <2>2, <2>3, <2>4, <2>5
  <1>3. CASE Repeat(r)
    BY <1>3, SMTT(30) DEF Repeat
  <1>4. CASE AnswerRepeat(r)
    BY <1>4, SMTT(30) DEF AnswerRepeat, Oldest
  <1>5. CASE BumpUser(r)
    BY <1>5, SMTT(30) DEF BumpUser
  <1>6. CASE Ack(r)
    BY <1>6, SMTT(30) DEF Ack
  <1> QED
    BY <1>1, <1>2, <1>3, <1>4, <1>5, <1>6 DEF VoteStep

(* A read changes no deck except to drop one.                               *)
LEMMA ReadKeepsIInv ==
  ASSUME IInv, NEW r \in Requests, (\E u \in Users : StartRead(r, u)) \/ ReadStep(r)
  PROVE  IInv'
  <1> USE ThreadsAssumption, UsersAssumption
      DEF IInv, TypeOK, UserKnown, NoVersionAhead, FreshDeckIsFresh, CallersBehind,
          WritesCommitted, EpochsCommitted, BuilderHasLock, PoolFresh, PoolHas,
          WarmsHonest, WarmHonest, ForUser, Rebuilding, Labelled, Labels, Threads,
          Deck, DeckOf, NoDeck, Versions, NoVersion, NoEpoch, Current, Newest,
          At, Go, Hold, Begin, End, CallTrigger, tables, poolVars, deckVars, queue,
          call, history, overlap, bounds
  <1>1. CASE \E u \in Users : StartRead(r, u)
    <2>1. PICK u \in Users : StartRead(r, u)
      BY <1>1
    <2>2. TypeOK'
      BY <2>1, SMTT(30) DEF StartRead
    <2>3. UserKnown' /\ CallersBehind' /\ WritesCommitted' /\ EpochsCommitted' /\ BuilderHasLock'
      BY <2>1, SMTT(30) DEF StartRead
    <2>4. NoVersionAhead' /\ FreshDeckIsFresh' /\ PoolFresh' /\ WarmsHonest'
      BY <2>1, SMTT(30) DEF StartRead
    <2> QED
      BY <2>2, <2>3, <2>4
  <1>2. CASE ReadVotes(r)
    <2>0. /\ pc' = [pc EXCEPT ![r] = "drop"] \/ pc' = [pc EXCEPT ![r] = "pick"]
          /\ held' = [held EXCEPT ![r] = DeckOf(NoVersion, writes[user[r]], NoEpoch)]
          /\ At(r, "votes")
          /\ UNCHANGED <<gen, bumps, tables, poolVars, coldDeck, deckVars, queue, call,
                         todo, history, bounds>>
      BY ONLY <1>2 DEF ReadVotes, Go, Hold
    <2>1. TypeOK'
      BY <2>0, SMTT(30)
    <2>2. UserKnown' /\ CallersBehind' /\ WritesCommitted' /\ EpochsCommitted' /\ BuilderHasLock'
      BY <1>2, SMTT(30) DEF ReadVotes
    <2>3. NoVersionAhead' /\ FreshDeckIsFresh' /\ PoolFresh' /\ WarmsHonest'
      BY <1>2, SMTT(30) DEF ReadVotes
    <2> QED
      BY <2>1, <2>2, <2>3
  <1>3. CASE DropDeck(r)
    BY <1>3, SMTT(30) DEF DropDeck
  <1>4. CASE ServeCold(r)
    BY <1>4, SMTT(30) DEF ServeCold
  <1>5. CASE PickDeck(r)
    <2> USE <1>5 DEF PickDeck
    <2>1. TypeOK'
      BY BranchKeepsTypeOK
    <2>2. UserKnown' /\ BuilderHasLock' /\ WritesCommitted' /\ EpochsCommitted'
      OBVIOUS
    <2>3. NoVersionAhead' /\ FreshDeckIsFresh' /\ CallersBehind'
      OBVIOUS
    <2>4. PoolFresh'
      OBVIOUS
    <2>5. WarmsHonest'
      OBVIOUS
    <2> QED
      BY <2>1, <2>2, <2>3, <2>4, <2>5
  <1>6. CASE Serve(r)
    BY <1>6, SMTT(30) DEF Serve, Nothing
  <1> QED
    BY <1>1, <1>2, <1>3, <1>4, <1>5, <1>6 DEF ReadStep

(* What the pool lock guarantees: whoever uses the pool gets everything     *)
(* announced, and a pool being built gets it too.                           *)
LEMMA GetPoolKeepsIInv ==
  ASSUME IInv, NEW p \in Threads, NEW label,
         \/ p \in Workers /\ label = "store"
         \/ p \in Publishers /\ label = "set_cold",
         GetPool(p, label)
  PROVE  IInv'
  <1> USE ThreadsAssumption, UsersAssumption
      DEF IInv, TypeOK, UserKnown, NoVersionAhead, FreshDeckIsFresh, CallersBehind,
          WritesCommitted, EpochsCommitted, BuilderHasLock, PoolFresh, PoolHas,
          WarmsHonest, WarmHonest, ForUser, Rebuilding, Labelled, Labels, Threads,
          Deck, DeckOf, NoDeck, Versions, NoVersion, NoEpoch, Current, Newest,
          At, Go, Hold, Begin, End, CallTrigger, tables, poolVars, deckVars, queue,
          call, history, overlap, bounds
  <1> USE DEF GetPool
  <1>1. CASE UsePool(p, label)
    <2> USE <1>1 DEF UsePool
    <2>1. TypeOK'
      OBVIOUS
    <2>2. UserKnown' /\ BuilderHasLock' /\ WritesCommitted' /\ EpochsCommitted'
      OBVIOUS
    <2>3. NoVersionAhead' /\ FreshDeckIsFresh' /\ CallersBehind'
      OBVIOUS
    <2>4. PoolFresh'
      OBVIOUS
    <2>5. WarmsHonest'
      OBVIOUS
    <2> QED
      BY <2>1, <2>2, <2>3, <2>4, <2>5
  <1>2. CASE BuildPool(p)
    <2> USE <1>2 DEF BuildPool
    <2>1. TypeOK'
      OBVIOUS
    <2>2. UserKnown' /\ BuilderHasLock' /\ WritesCommitted' /\ EpochsCommitted'
      OBVIOUS
    <2>3. NoVersionAhead' /\ FreshDeckIsFresh' /\ CallersBehind'
      OBVIOUS
    <2>4. PoolFresh'
      OBVIOUS
    <2>5. WarmsHonest'
      OBVIOUS
    <2> QED
      BY <2>1, <2>2, <2>3, <2>4, <2>5
  <1> QED
    BY <1>1, <1>2

(* A warm: its label is read before the votes and the pool, so it is still  *)
(* the current version only if nothing was published since.                 *)
LEMMA WarmKeepsIInv ==
  ASSUME IInv, NEW w \in Workers, WarmStep(w) PROVE IInv'
  <1> USE ThreadsAssumption, UsersAssumption
      DEF IInv, TypeOK, UserKnown, NoVersionAhead, FreshDeckIsFresh, CallersBehind,
          WritesCommitted, EpochsCommitted, BuilderHasLock, PoolFresh, PoolHas,
          WarmsHonest, WarmHonest, ForUser, Rebuilding, Labelled, Labels, Threads,
          Deck, DeckOf, NoDeck, Versions, NoVersion, NoEpoch, Current, Newest,
          At, Go, Hold, Begin, End, CallTrigger, tables, poolVars, deckVars, queue,
          call, history, overlap, bounds
  <1>1. CASE TakeJob(w)
    BY <1>1, SMTT(30) DEF TakeJob, Queue!Take, Queue!NoVersion
  <1>2. CASE CheckDeck(w)
    <2> USE <1>2 DEF CheckDeck
    <2>1. TypeOK'
      BY BranchKeepsTypeOK
    <2>1a. UserKnown' /\ BuilderHasLock' /\ WritesCommitted' /\ EpochsCommitted'
      BY SMTT(30)
    <2>2. NoVersionAhead' /\ FreshDeckIsFresh' /\ CallersBehind'
      OBVIOUS
    <2>3. PoolFresh'
      OBVIOUS
    <2>4. WarmsHonest'
      OBVIOUS
    <2> QED
      BY <2>1, <2>1a, <2>2, <2>3, <2>4
  <1>3. CASE LabelDeck(w)
    BY <1>3, SMTT(30) DEF LabelDeck
  <1>4. CASE ReadFeedback(w)
    <2> USE <1>4 DEF ReadFeedback
    <2>1. pc'[w] \in {"rank_cold", "get_pool"} /\ w \notin Publishers
      OBVIOUS
    <2>2. \A q \in Threads : q # w => pc'[q] = pc[q] /\ held'[q] = held[q]
      OBVIOUS
    <2>3. TypeOK'
      <3>1. user[w] \in Users /\ votes[user[w]] \in SUBSET Stories
        OBVIOUS
      <3>2. pc' \in [Threads -> Labels] /\ held' \in [Threads -> Deck]
        BY <3>1
      <3> QED
        BY <3>2
    <2>4. UserKnown' /\ BuilderHasLock' /\ WritesCommitted' /\ EpochsCommitted'
      OBVIOUS
    <2>5. NoVersionAhead' /\ FreshDeckIsFresh' /\ CallersBehind'
      OBVIOUS
    <2>6. PoolFresh'
      BY <2>1, <2>2
    <2>7. WarmsHonest'
      OBVIOUS
    <2> QED
      BY <2>3, <2>4, <2>5, <2>6, <2>7
  <1>5. CASE RankCold(w)
    BY <1>5, SMTT(30) DEF RankCold
  <1>6. CASE GetPool(w, "store")
    BY <1>6, GetPoolKeepsIInv
  <1>7. CASE StorePool(w, "store")
    BY <1>7, SMTT(30) DEF StorePool
  <1>8. CASE RankFails(w)
    BY <1>8, SMTT(30) DEF RankFails
  <1>9. CASE StoreDeck(w)
    <2> USE <1>9 DEF StoreDeck
    <2>1. TypeOK'
      BY UsersCardinality DEF Reordered
    <2>2. UserKnown' /\ BuilderHasLock' /\ WritesCommitted' /\ EpochsCommitted'
      OBVIOUS
    <2>3. \A v \in Users \ {user[w]} : decks'[v] = NoDeck \/ decks'[v] = decks[v]
      OBVIOUS
    <2>4. decks'[user[w]] = NoDeck \/ decks'[user[w]] = held[w]
      OBVIOUS
    <2>5. \A v \in Users : Current(v)' = Current(v) /\ Current(v) > 0
      OBVIOUS
    <2>6. NoVersionAhead'
      BY <2>3, <2>4, <2>5
    <2>7. FreshDeckIsFresh'
      <3> SUFFICES ASSUME NEW v \in Users, decks'[v].version = Current(v)'
                   PROVE decks'[v].saw >= counted'[v] /\ decks'[v].epoch >= published'
        BY DEF FreshDeckIsFresh
      <3>1. decks'[v] # NoDeck /\ counted' = counted /\ published' = published
        BY <2>5
      <3>2. CASE v # user[w]
        BY <2>3, <2>5, <3>1, <3>2
      <3>3. CASE v = user[w]
        <4>1. WarmHonest(w) /\ pc[w] = "store"
          OBVIOUS
        <4>2. decks'[v] = held[w]
          BY <2>4, <3>1, <3>3
        <4> QED
          BY <2>5, <3>1, <3>3, <4>1, <4>2
      <3> QED
        BY <3>2, <3>3
    <2>8. CallersBehind'
      OBVIOUS
    <2>9. PoolFresh'
      OBVIOUS
    <2>10. WarmsHonest'
      OBVIOUS
    <2> QED
      BY <2>1, <2>2, <2>6, <2>7, <2>8, <2>9, <2>10
  <1>10. CASE FinishJob(w)
    BY <1>10, SMTT(30) DEF FinishJob, Queue!Finish, Queue!NoVersion
  <1> QED
    BY <1>1, <1>2, <1>3, <1>4, <1>5, <1>6, <1>7, <1>8, <1>9, <1>10 DEF WarmStep

(* A publisher commits and invalidates before it bumps the generation.      *)
LEMMA PublishKeepsIInv ==
  ASSUME IInv, NEW p \in Publishers, Ingest(p) \/ PublishStep(p) PROVE IInv'
  <1> USE ThreadsAssumption, UsersAssumption
      DEF IInv, TypeOK, UserKnown, NoVersionAhead, FreshDeckIsFresh, CallersBehind,
          WritesCommitted, EpochsCommitted, BuilderHasLock, PoolFresh, PoolHas,
          WarmsHonest, WarmHonest, ForUser, Rebuilding, Labelled, Labels, Threads,
          Deck, DeckOf, NoDeck, Versions, NoVersion, NoEpoch, Current, Newest,
          At, Go, Hold, Begin, End, CallTrigger, tables, poolVars, deckVars, queue,
          call, history, overlap, bounds
  <1>1. CASE Ingest(p)
    BY <1>1, SMTT(30) DEF Ingest
  <1>2. CASE InvalidatePool(p)
    BY <1>2, SMTT(30) DEF InvalidatePool
  <1>3. CASE GetPool(p, "set_cold")
    BY <1>3, GetPoolKeepsIInv
  <1>4. CASE StorePool(p, "set_cold")
    BY <1>4, SMTT(30) DEF StorePool
  <1>5. CASE SetColdDeck(p)
    BY <1>5, SMTT(30) DEF SetColdDeck
  <1>6. CASE PublishFails(p)
    BY <1>6, SMTT(30) DEF PublishFails
  <1>7. CASE BumpGeneration(p)
    BY <1>7, SMTT(30) DEF BumpGeneration, Cached
  <1>8. CASE WarmCached(p)
    BY <1>8, SMTT(30) DEF WarmCached
  <1>9. CASE EndPublish(p)
    BY <1>9, SMTT(30) DEF EndPublish
  <1> QED
    BY <1>1, <1>2, <1>3, <1>4, <1>5, <1>6, <1>7, <1>8, <1>9 DEF PublishStep

(* After a restart no deck is left, and the versions go on from a time no   *)
(* version had passed.                                                      *)
LEMMA RestartKeepsIInv == ASSUME IInv, Restart PROVE IInv'
  <1> USE ThreadsAssumption, UsersAssumption
      DEF IInv, TypeOK, UserKnown, NoVersionAhead, FreshDeckIsFresh, CallersBehind,
          WritesCommitted, EpochsCommitted, BuilderHasLock, PoolFresh, PoolHas,
          WarmsHonest, WarmHonest, ForUser, Rebuilding, Labelled, Labels, Threads,
          Deck, DeckOf, NoDeck, Versions, NoVersion, NoEpoch, Current, Newest,
          At, Go, Hold, Begin, End, CallTrigger, tables, poolVars, deckVars, queue,
          call, history, overlap, bounds
  <1> USE BootTimesAssumption DEF Restart, Nothing
  <1>0. torn' = FALSE /\ beside' = {}
    BY ONLY Restart DEF Restart
  <1>1. TypeOK'
    <2>1. /\ gen' \in Versions /\ pending' \in [Users -> Nat] /\ running' \in [Users -> Nat]
          /\ bumps' \in [Users -> Nat] /\ builtAt' \in [Users -> Nat] /\ decks' \in [Users -> Deck]
          /\ restarts' \in Nat
      OBVIOUS
    <2>2. /\ pc' \in [Threads -> Labels] /\ user' \in [Threads -> Users \union {NoUser}]
          /\ back' \in [Threads -> {"idle", "ack", "serve", "finish", "warm_cached"}]
          /\ ver' \in [Threads -> Nat] /\ held' \in [Threads -> Deck]
      OBVIOUS
    <2>3. /\ todo' \in [Publishers -> SUBSET Users] /\ ingested' \in [Publishers -> Nat]
          /\ asked' \in [Requests -> [counted : Nat, published : Nat]]
          /\ failed' \in SUBSET Users
      OBVIOUS
    <2> QED
      BY <1>0, <2>1, <2>2, <2>3
  <1>2. UserKnown' /\ BuilderHasLock' /\ WritesCommitted' /\ EpochsCommitted'
    OBVIOUS
  <1>3. gen' \in Nat /\ gen' > 0
    BY <1>1
  <1>4. \A u \in Users : decks'[u].version = 0 /\ running'[u] = 0
    OBVIOUS
  <1>5. \A u \in Users : Current(u)' = gen'
    <2>1. \A u \in Users : bumps'[u] = 0
      OBVIOUS
    <2> QED
      BY ONLY <1>3, <2>1 DEF Current
  <1>6. \A u \in Users : pending'[u] = gen' \/ pending'[u] = 0
    OBVIOUS
  <1>7. NoVersionAhead'
    BY ONLY <1>3, <1>4, <1>5, <1>6 DEF NoVersionAhead
  <1>8. FreshDeckIsFresh'
    BY ONLY <1>3, <1>4, <1>5 DEF FreshDeckIsFresh
  <1>9. CallersBehind'
    OBVIOUS
  <1>10. PoolFresh'
    OBVIOUS
  <1>11. WarmsHonest'
    OBVIOUS
  <1> QED
    BY <1>1, <1>2, <1>7, <1>8, <1>9, <1>10, <1>11

LEMMA StepKeepsIInv == ASSUME IInv, [Next]_vars PROVE IInv'
  <1>1. CASE UNCHANGED vars
    BY <1>1
       DEF vars, IInv, TypeOK, UserKnown, NoVersionAhead, FreshDeckIsFresh,
           CallersBehind, WritesCommitted, EpochsCommitted, BuilderHasLock, PoolFresh,
           PoolHas, WarmsHonest, WarmHonest, Current, At, tables, poolVars, deckVars,
           queue, call, history, overlap, bounds
  <1>2. CASE Next
    BY <1>2, TriggerKeepsIInv, VoteKeepsIInv, ReadKeepsIInv, WarmKeepsIInv,
       PublishKeepsIInv, RestartKeepsIInv DEF Next, Threads
  <1> QED
    BY <1>1, <1>2

-----------------------------------------------------------------------------
(* What the steps of each kind of thread leave alone.                       *)
Alone(p) ==
  \A q \in Threads \ {p} :
    /\ pc'[q] = pc[q]
    /\ back'[q] = back[q]
    /\ user'[q] = user[q]
    /\ ver'[q] = ver[q]
    /\ held'[q] = held[q]

RequestStep(r) ==
  \/ Upsert(r) \/ Clear(r) \/ Repeat(r)
  \/ \E u \in Users : StartRead(r, u)
  \/ VoteStep(r) \/ ReadStep(r)

PublisherStep(p) == Ingest(p) \/ PublishStep(p)

LEMMA StepOfSomeone ==
  ASSUME Next
  PROVE  \/ \E r \in Requests : RequestStep(r)
         \/ \E w \in Workers : WarmStep(w)
         \/ \E p \in Publishers : PublisherStep(p)
         \/ \E p \in Threads : TriggerWarm(p)
         \/ Restart
  BY DEF Next, RequestStep, PublisherStep

(* A request changes its user's votes and bump counter, and drops a deck.   *)
LEMMA RequestEffect ==
  ASSUME TypeOK, UserKnown, NEW r \in Requests, RequestStep(r)
  PROVE  /\ Alone(r)
         /\ pc[r] \notin {"trigger", "compare", "enqueue"}
         /\ UNCHANGED <<gen, epoch, pool, coldDeck, queue, todo, ingested, published, failed, overlap>>
         /\ \A u \in Users : /\ writes'[u] >= writes[u]
                             /\ counted'[u] >= counted[u]
                             /\ decks'[u] = decks[u] \/ decks'[u] = NoDeck
  <1> USE ThreadsAssumption
      DEF TypeOK, UserKnown, ForUser, Alone, Threads, Newest, At, Go, Hold, Begin, End, CallTrigger,
          tables, poolVars, deckVars, queue, call, history, overlap, bounds
  <1>1. CASE Upsert(r)
    BY <1>1, SMTT(30) DEF Upsert, Write
  <1>2. CASE Clear(r)
    BY <1>2, SMTT(30) DEF Clear, Write
  <1>3. CASE Repeat(r)
    BY <1>3, SMTT(30) DEF Repeat
  <1>4. CASE AnswerRepeat(r)
    BY <1>4, SMTT(30) DEF AnswerRepeat
  <1>5. CASE BumpUser(r)
    BY <1>5, SMTT(30) DEF BumpUser, Deck
  <1>6. CASE Ack(r)
    BY <1>6, SMTT(30) DEF Ack
  <1>7. CASE \E u \in Users : StartRead(r, u)
    BY <1>7, SMTT(30) DEF StartRead
  <1>8. CASE ReadVotes(r)
    BY <1>8, SMTT(30) DEF ReadVotes
  <1>9. CASE DropDeck(r)
    BY <1>9, SMTT(30) DEF DropDeck
  <1>10. CASE ServeCold(r)
    BY <1>10, SMTT(30) DEF ServeCold
  <1>11. CASE PickDeck(r)
    BY <1>11, SMTT(30) DEF PickDeck
  <1>12. CASE Serve(r)
    BY <1>12, SMTT(30) DEF Serve
  <1> QED
    BY <1>1, <1>2, <1>3, <1>4, <1>5, <1>6, <1>7, <1>8, <1>9, <1>10, <1>11, <1>12
       DEF RequestStep, VoteStep, ReadStep

(* A publisher changes the stories, the pool, the cold deck and the         *)
(* generation.                                                              *)
LEMMA PublisherEffect ==
  ASSUME TypeOK, NEW p \in Publishers, PublisherStep(p)
  PROVE  /\ Alone(p)
         /\ pc[p] \notin {"trigger", "compare", "enqueue"}
         /\ UNCHANGED <<bumps, votes, writes, deckVars, queue, asked, counted, acks>>
         /\ failed \subseteq failed'
         /\ gen' >= gen
         /\ epoch' >= epoch
         /\ published' >= published
  <1> USE ThreadsAssumption
      DEF TypeOK, Alone, Threads, Versions, Newest, At, Go, Hold, Begin, End, CallTrigger,
          tables, poolVars, deckVars, queue, call, history, overlap, bounds
  <1>1. CASE Ingest(p)
    BY <1>1, SMTT(30) DEF Ingest
  <1>2. CASE InvalidatePool(p)
    BY <1>2, SMTT(30) DEF InvalidatePool
  <1>3. CASE GetPool(p, "set_cold")
    BY <1>3, SMTT(30) DEF GetPool, UsePool, BuildPool
  <1>4. CASE StorePool(p, "set_cold")
    BY <1>4, SMTT(30) DEF StorePool
  <1>5. CASE SetColdDeck(p)
    BY <1>5, SMTT(30) DEF SetColdDeck
  <1>6. CASE PublishFails(p)
    BY <1>6, SMTT(30) DEF PublishFails
  <1>7. CASE BumpGeneration(p)
    BY <1>7, SMTT(30) DEF BumpGeneration
  <1>8. CASE WarmCached(p)
    BY <1>8, SMTT(30) DEF WarmCached
  <1>9. CASE EndPublish(p)
    BY <1>9, SMTT(30) DEF EndPublish
  <1> QED
    BY <1>1, <1>2, <1>3, <1>4, <1>5, <1>6, <1>7, <1>8, <1>9 DEF PublisherStep, PublishStep

(* _trigger_warm changes its caller's version and the queue.                *)
LEMMA TriggerEffect ==
  ASSUME TypeOK, UserKnown, NEW p \in Threads, TriggerWarm(p)
  PROVE  /\ Alone(p)
         /\ UNCHANGED <<gen, bumps, tables, poolVars, coldDeck, deckVars, running, back,
                        user, held, todo, history>>
         /\ pc[p] \in {"trigger", "compare", "enqueue"}
         /\ pc'[p] \in {"compare", "enqueue", back[p]}
         /\ ver'[p] >= ver[p]
  <1> USE DEF TypeOK, UserKnown, ForUser, Versions, Alone, Newest, Current, At, Go, tables,
              poolVars, deckVars, queue, call, history, overlap, bounds
  <1>1. CASE RaiseVersion(p)
    BY <1>1, SMTT(30) DEF RaiseVersion
  <1>2. CASE CompareDeck(p)
    BY <1>2, SMTT(30) DEF CompareDeck
  <1>3. CASE Enqueue(p)
    BY <1>3, SMTT(30) DEF Enqueue, Queue!Request
  <1> QED
    BY <1>1, <1>2, <1>3 DEF TriggerWarm

(* A worker changes the pool, the queue and the decks.                      *)
LEMMA WorkerEffect ==
  ASSUME TypeOK, NEW w \in Workers, WarmStep(w)
  PROVE  /\ Alone(w)
         /\ pc[w] \notin {"trigger", "compare", "enqueue"}
         /\ UNCHANGED <<gen, bumps, tables, coldDeck, todo, asked, ingested, counted,
                        published, acks, overlap>>
  <1> USE ThreadsAssumption
      DEF TypeOK, Alone, Threads, At, Go, Hold, Begin, End, CallTrigger,
          tables, poolVars, deckVars, queue, call, history, overlap, bounds
  <1>1. CASE TakeJob(w)
    BY <1>1, SMTT(30) DEF TakeJob
  <1>2. CASE CheckDeck(w)
    BY <1>2, SMTT(30) DEF CheckDeck
  <1>3. CASE LabelDeck(w)
    BY <1>3, SMTT(30) DEF LabelDeck
  <1>4. CASE ReadFeedback(w)
    BY <1>4, SMTT(30) DEF ReadFeedback
  <1>5. CASE RankCold(w)
    BY <1>5, SMTT(30) DEF RankCold
  <1>6. CASE GetPool(w, "store")
    BY <1>6, SMTT(30) DEF GetPool, UsePool, BuildPool
  <1>7. CASE StorePool(w, "store")
    BY <1>7, SMTT(30) DEF StorePool
  <1>8. CASE RankFails(w)
    BY <1>8, SMTT(30) DEF RankFails
  <1>9. CASE StoreDeck(w)
    BY <1>9, SMTT(30) DEF StoreDeck
  <1>10. CASE FinishJob(w)
    BY <1>10, SMTT(30) DEF FinishJob
  <1> QED
    BY <1>1, <1>2, <1>3, <1>4, <1>5, <1>6, <1>7, <1>8, <1>9, <1>10 DEF WarmStep

-----------------------------------------------------------------------------
(* Warm jobs.  A user's job has one worker, whose versions are at least the *)
(* one it was queued for; no other thread stores a deck of that user.       *)
Past == {"trigger", "compare", "enqueue", "finish"}

JobAlone ==
  /\ \A w \in Workers : ~At(w, "idle") => running[user[w]] # NoVersion
  /\ \A w, x \in Workers :
       ~At(w, "idle") /\ ~At(x, "idle") /\ user[w] = user[x] => w = x
  /\ \A u \in Users : running[u] # NoVersion =>
       \E w \in Workers : ~At(w, "idle") /\ user[w] = u

WorkerLabels == {"idle", "check", "label"} \union Labelled \union Past

JobPlaced ==
  \A w \in Workers :
    /\ pc[w] \in WorkerLabels
    /\ pc[w] \in {"trigger", "compare", "enqueue"} => back[w] = "finish"

(* What the worker will label its deck with, and what a finished job left.  *)
JobVersion(w) ==
  /\ pc[w] \in {"check", "label"} => ver[w] >= running[user[w]]
  /\ pc[w] \in Labelled =>
       held[w].version >= running[user[w]] /\ held[w].version >= decks[user[w]].version
  /\ pc[w] \in Past /\ user[w] \in Cached \ failed =>
       decks[user[w]].version >= running[user[w]]

Jobs == JobAlone /\ JobPlaced /\ \A w \in Workers : JobVersion(w)

LEMMA InitJobs == ASSUME Init PROVE Jobs
  BY UsersAssumption, ThreadsAssumption
     DEF Init, Jobs, JobAlone, JobPlaced, JobVersion, WorkerLabels, Past, Labelled, At, Threads,
         Queue!QueueInit, Queue!NoVersion, NoVersion

(* Steps of others: the workers stay where they are, a deck at most goes.   *)
LEMMA OthersKeepJobs ==
  ASSUME IInv, Jobs,
         \/ \E r \in Requests : RequestStep(r)
         \/ \E p \in Publishers : PublisherStep(p)
  PROVE  Jobs'
  <1>1. /\ \A w \in Workers : /\ pc'[w] = pc[w] /\ back'[w] = back[w] /\ user'[w] = user[w]
                              /\ ver'[w] = ver[w] /\ held'[w] = held[w]
        /\ running' = running /\ failed \subseteq failed'
        /\ \A u \in Users : decks'[u] = decks[u] \/ decks'[u] = NoDeck
    BY RequestEffect, PublisherEffect, ThreadsAssumption, SMTT(30)
       DEF IInv, Alone, Threads, queue, deckVars
  <1>2. \A w \in Workers : ~At(w, "idle") => user[w] \in Users
    BY DEF IInv, UserKnown
  <1>3. JobAlone' /\ JobPlaced'
    BY <1>1 DEF Jobs, JobAlone, JobPlaced, At
  <1>4. ASSUME NEW w \in Workers PROVE JobVersion(w)'
    <2>1. CASE At(w, "idle")
      BY <1>1, <2>1 DEF JobVersion, At, Past, Labelled
    <2>2. CASE ~At(w, "idle")
      <3>1. user[w] \in Users /\ w \in Threads
        BY <1>2, <2>2 DEF Threads
      <3>2. held[w].version \in Nat /\ decks[user[w]].version \in Nat /\ NoDeck.version = 0
        BY <3>1 DEF IInv, TypeOK, Deck, NoDeck, DeckOf, NoVersion
      <3> QED
        BY <1>1, <3>1, <3>2, SMTT(30) DEF Jobs, JobVersion, Cached
    <2> QED
      BY <2>1, <2>2
  <1> QED
    BY <1>3, <1>4 DEF Jobs

LEMMA TriggerKeepsJobs ==
  ASSUME IInv, Jobs, NEW p \in Threads, TriggerWarm(p) PROVE Jobs'
  <1>1. /\ Alone(p) /\ pc[p] \in {"trigger", "compare", "enqueue"}
        /\ pc'[p] \in {"compare", "enqueue", back[p]}
        /\ back' = back /\ user' = user /\ held' = held /\ running' = running
        /\ decks' = decks /\ failed' = failed
    BY TriggerEffect DEF IInv, queue, deckVars, call, history, overlap
  <1>2. p \in Workers => pc'[p] \in Past
    BY <1>1 DEF Jobs, JobPlaced, Past
  <1>3. \A w \in Workers : w \in Threads /\ (w # p => pc'[w] = pc[w] /\ ver'[w] = ver[w])
    BY <1>1 DEF Alone, Threads
  <1>4. JobAlone'
    BY <1>1, <1>2, <1>3 DEF Jobs, JobAlone, At, Past
  <1>5. JobPlaced'
    BY <1>1, <1>2, <1>3 DEF Jobs, JobPlaced, WorkerLabels, Past
  <1>6. ASSUME NEW w \in Workers PROVE JobVersion(w)'
    BY <1>1, <1>2, <1>3 DEF Jobs, JobVersion, Past, Labelled, Cached
  <1> QED
    BY <1>4, <1>5, <1>6 DEF Jobs

(* A worker's own job.  Only StoreDeck writes a deck, and its label is at   *)
(* least the version the job was queued for.                                *)
LEMMA WorkersKeepJobs ==
  ASSUME IInv, IInv', Jobs, NEW w \in Workers, WarmStep(w) PROVE Jobs'
  <1> DEFINE u == user[w]
  <1>0. /\ Alone(w) /\ w \in Threads /\ (~At(w, "idle") => u \in Users)
        /\ \A x \in Workers : x \in Threads
        /\ \A x \in Workers : ~At(x, "idle") => user[x] \in Users
    BY WorkerEffect DEF IInv, UserKnown, Threads
  <1>t. TypeOK /\ TypeOK' /\ NoVersionAhead
    BY DEF IInv
  <1> HIDE DEF u
  <1>1. CASE TakeJob(w)
    <2>1. PICK v \in Users : /\ pending[v] # NoVersion /\ running[v] = NoVersion
                             /\ running' = [running EXCEPT ![v] = pending[v]]
                             /\ Begin(w, v, "check", pending[v])
      BY <1>1 DEF TakeJob, Queue!Take, Queue!NoVersion, NoVersion
    <2>2. /\ At(w, "idle") /\ pc'[w] = "check" /\ user'[w] = v /\ ver'[w] = pending[v]
          /\ running'[v] = pending[v] /\ \A x \in Users \ {v} : running'[x] = running[x]
      BY <2>1, <1>0, <1>t DEF Begin, Go, At, TypeOK
    <2>3. held' = held /\ decks' = decks /\ failed' = failed /\ back' = back
      BY <1>1 DEF TakeJob, deckVars, history, overlap
    <2>4. \A x \in Workers \ {w} : ~At(x, "idle") => user[x] \in Users \ {v}
      BY <1>0, <2>1 DEF Jobs, JobAlone
    <2>5. JobAlone'
      BY <1>0, <2>1, <2>2, <2>4 DEF Jobs, JobAlone, At, Alone, NoVersion
    <2>6. JobPlaced'
      BY <1>0, <2>2, <2>3 DEF Jobs, JobPlaced, WorkerLabels, Alone
    <2>7. ASSUME NEW x \in Workers PROVE JobVersion(x)'
      <3>1. CASE x = w
        BY <3>1, <2>2, <1>t DEF JobVersion, Past, Labelled, TypeOK
      <3>2. CASE x # w
        BY <3>2, <1>0, <2>2, <2>3, <2>4 DEF Jobs, JobVersion, Past, Labelled, Alone, At, Cached
      <3> QED
        BY <3>1, <3>2
    <2> QED
      BY <2>5, <2>6, <2>7 DEF Jobs
  <1>2. CASE FinishJob(w)
    <2>1. /\ At(w, "finish") /\ pc'[w] = "idle"
          /\ running' = [running EXCEPT ![u] = NoVersion]
          /\ decks' = decks /\ failed' = failed
      BY <1>2, <1>0, <1>t DEF FinishJob, Queue!Finish, Queue!NoVersion, NoVersion, End, Go, At,
                              deckVars, history, overlap, TypeOK, u
    <2>2. u \in Users /\ \A x \in Users \ {u} : running'[x] = running[x]
      BY <2>1, <1>0, <1>t DEF At, TypeOK
    <2>3. \A x \in Workers \ {w} : ~At(x, "idle") => user[x] # u
      BY <2>1 DEF Jobs, JobAlone, At, u
    <2>4. JobAlone'
      <3>1. running'[u] = NoVersion
        BY <2>1, <2>2, <1>t DEF TypeOK
      <3> QED
        BY <1>0, <2>1, <2>2, <2>3, <3>1 DEF Jobs, JobAlone, At, Alone, u
    <2>5. JobPlaced'
      BY <1>0, <2>1 DEF Jobs, JobPlaced, WorkerLabels, Alone
    <2>6. ASSUME NEW x \in Workers PROVE JobVersion(x)'
      <3>1. CASE x = w
        BY <3>1, <2>1 DEF JobVersion, Past, Labelled
      <3>2. CASE x # w
        BY <3>2, <1>0, <2>1, <2>2, <2>3 DEF Jobs, JobVersion, Past, Labelled, Alone, At, Cached
      <3> QED
        BY <3>1, <3>2
    <2> QED
      BY <2>4, <2>5, <2>6 DEF Jobs
  <1>3. CASE ~TakeJob(w) /\ ~FinishJob(w)
    <2>1. /\ ~At(w, "idle") /\ pc'[w] # "idle" /\ user'[w] = u /\ running' = running
          /\ pc'[w] \in WorkerLabels
          /\ pc'[w] \in {"trigger", "compare", "enqueue"} => back'[w] = "finish"
          /\ \A x \in Users \ {u} : decks'[x] = decks[x] \/ decks'[x] = NoDeck
          /\ \A x \in Users \ {u} : x \in failed' <=> x \in failed
      <3> USE <1>3, <1>0, <1>t DEF WorkerLabels, Labelled, Past, TypeOK, At, Go, Hold, CallTrigger, deckVars, queue, call, history, overlap, u
      <3>1. CASE CheckDeck(w)
        BY <3>1, SMTT(30) DEF CheckDeck
      <3>2. CASE LabelDeck(w)
        BY <3>2, SMTT(30) DEF LabelDeck
      <3>3. CASE ReadFeedback(w)
        BY <3>3, SMTT(30) DEF ReadFeedback
      <3>4. CASE RankCold(w)
        BY <3>4, SMTT(30) DEF RankCold
      <3>5. CASE GetPool(w, "store")
        BY <3>5, SMTT(30) DEF GetPool, UsePool, BuildPool
      <3>6. CASE StorePool(w, "store")
        BY <3>6, SMTT(30) DEF StorePool
      <3>7. CASE RankFails(w)
        BY <3>7, SMTT(30) DEF RankFails
      <3>8. CASE StoreDeck(w)
        BY <3>8, SMTT(30) DEF StoreDeck
      <3> QED
        BY <1>3, <3>1, <3>2, <3>3, <3>4, <3>5, <3>6, <3>7, <3>8 DEF WarmStep
    <2>2. u \in Users /\ u = user[w]
      BY <1>0, <2>1 DEF u
    <2>3. \A x \in Workers \ {w} : ~At(x, "idle") => user[x] \in Users \ {u}
      BY <1>0, <2>1, <2>2 DEF Jobs, JobAlone
    <2>4. JobAlone'
      BY <1>0, <2>1, <2>2 DEF Jobs, JobAlone, At, Alone
    <2>5. JobPlaced'
      BY <1>0, <2>1 DEF Jobs, JobPlaced, WorkerLabels, Alone
    <2>6. ASSUME NEW x \in Workers \ {w} PROVE JobVersion(x)'
      <3>1. CASE At(x, "idle")
        BY <1>0, <3>1 DEF JobVersion, Past, Labelled, At, Alone
      <3>2. CASE ~At(x, "idle")
        <4>1. /\ user[x] \in Users \ {u} /\ x \in Threads
              /\ held[x].version \in Nat /\ NoDeck.version = 0
          BY <1>0, <1>t, <2>3, <3>2 DEF TypeOK, Deck, NoDeck, DeckOf, NoVersion
        <4>2. /\ pc'[x] = pc[x] /\ user'[x] = user[x] /\ ver'[x] = ver[x] /\ held'[x] = held[x]
          BY <1>0 DEF Alone
        <4> QED
          BY <2>1, <4>1, <4>2, SMTT(30) DEF Jobs, JobVersion, Cached
      <3> QED
        BY <3>1, <3>2
    <2>7. JobVersion(w)'
      <3>0. /\ JobVersion(w) /\ running[u] \in Nat /\ ver[w] \in Nat /\ Current(u) \in Nat
            /\ decks[u].version \in Nat /\ decks[u].version <= Current(u)
        BY <1>0, <1>t, <2>2 DEF Jobs, TypeOK, Versions, Deck, NoVersionAhead, Current
      <3> USE <3>0, <1>0, <1>t, <2>1, <2>2 DEF JobVersion, Past, Labelled, At, Go, Hold, CallTrigger,
             deckVars, queue, call, history, overlap, Cached
      <3>1. CASE CheckDeck(w)
        BY <3>1, SMTT(30) DEF CheckDeck, TypeOK
      <3>2. CASE LabelDeck(w)
        BY <3>2, SMTT(30) DEF LabelDeck, TypeOK, Newest, DeckOf
      <3>3. CASE ReadFeedback(w)
        BY <3>3, SMTT(30) DEF ReadFeedback, TypeOK, DeckOf
      <3>4. CASE RankCold(w)
        BY <3>4, SMTT(30) DEF RankCold, TypeOK, DeckOf
      <3>5. CASE GetPool(w, "store")
        BY <3>5, SMTT(30) DEF GetPool, UsePool, BuildPool, TypeOK, DeckOf
      <3>6. CASE StorePool(w, "store")
        BY <3>6, SMTT(30) DEF StorePool, TypeOK
      <3>7. CASE RankFails(w)
        BY <3>7, SMTT(30) DEF RankFails, TypeOK
      <3>8. CASE StoreDeck(w)
        BY <3>8, SMTT(30) DEF StoreDeck, TypeOK
      <3> QED
        BY <1>3, <3>1, <3>2, <3>3, <3>4, <3>5, <3>6, <3>7, <3>8 DEF WarmStep
    <2> QED
      BY <2>4, <2>5, <2>6, <2>7 DEF Jobs
  <1> QED
    BY <1>1, <1>2, <1>3

LEMMA StepKeepsJobs == ASSUME IInv, IInv', Jobs, [Next]_vars PROVE Jobs'
  <1>1. CASE UNCHANGED vars
    BY <1>1 DEF vars, Jobs, JobAlone, JobPlaced, JobVersion, At, Cached, queue, call, history, overlap, deckVars
  <1>2. CASE Restart
    BY <1>2 DEF Restart, Jobs, JobAlone, JobPlaced, JobVersion, WorkerLabels, Past, Labelled, At, Threads, NoVersion
  <1> QED
    BY <1>1, <1>2, StepOfSomeone, OthersKeepJobs, TriggerKeepsJobs, WorkersKeepJobs

(* Only the user's own worker replaces a deck, and its label is not older.  *)
LEMMA StepNeverOlder ==
  ASSUME IInv, Jobs, [Next]_vars
  PROVE  \A u \in Users : decks'[u] # NoDeck => decks'[u].version >= decks[u].version
  <1>0. \A u \in Users : decks[u].version \in Nat
    BY DEF IInv, TypeOK, Deck
  <1>1. CASE \E w \in Workers : StoreDeck(w)
    <2>1. PICK w \in Workers : StoreDeck(w)
      BY <1>1
    <2>2. user[w] \in Users /\ held[w].version >= decks[user[w]].version
      BY <2>1 DEF IInv, UserKnown, Jobs, JobVersion, Labelled, StoreDeck, At
    <2>3. \A u \in Users : \/ decks'[u] = NoDeck
                           \/ u = user[w] /\ decks'[u] = held[w]
                           \/ decks'[u] = decks[u]
      BY <2>1 DEF StoreDeck
    <2> QED
      BY <1>0, <2>2, <2>3
  <1>2. CASE \A u \in Users : decks'[u] = decks[u] \/ decks'[u] = NoDeck
    BY <1>0, <1>2
  <1>3. ASSUME Next, ~\E w \in Workers : StoreDeck(w)
        PROVE  \A u \in Users : decks'[u] = decks[u] \/ decks'[u] = NoDeck
    <2>1. CASE \E r \in Requests : RequestStep(r)
      BY <2>1, RequestEffect DEF IInv
    <2>2. CASE \E p \in Publishers : PublisherStep(p)
      BY <2>2, PublisherEffect DEF IInv, deckVars
    <2>3. CASE \E p \in Threads : TriggerWarm(p)
      BY <2>3, TriggerEffect DEF IInv, deckVars
    <2>4. CASE \E w \in Workers : WarmStep(w)
      BY <1>3, <2>4 DEF WarmStep, TakeJob, CheckDeck, LabelDeck, ReadFeedback, RankCold, GetPool,
                        StorePool, RankFails, FinishJob, deckVars
    <2>5. CASE Restart
      BY <2>5 DEF Restart
    <2> QED
      BY <1>3, <2>1, <2>2, <2>3, <2>4, <2>5, StepOfSomeone
  <1>4. CASE UNCHANGED vars
    BY <1>4, <1>2 DEF vars, deckVars
  <1> QED
    BY <1>1, <1>2, <1>3, <1>4

-----------------------------------------------------------------------------
(* Versions handed out as promises.  Who was given `version` of u's decks   *)
(* may rely on every deck of that version, stored or being ranked, to       *)
(* contain u's first `saw` changes and the stories up to `from`.            *)
Promise(u, version, saw, from) ==
  /\ version \in Versions
  /\ saw <= writes[u]
  /\ from <= published
  /\ decks[u].version >= version => /\ decks[u].saw >= saw
                                    /\ decks[u].epoch >= from
  /\ \A w \in Workers :
       user[w] = u /\ pc[w] \in Labelled /\ held[w].version >= version =>
         /\ pc[w] # "rank" => held[w].saw >= saw
         /\ pc[w] = "store" => held[w].epoch >= from

(* The current version promises what is counted and published.              *)
LEMMA CurrentPromises ==
  ASSUME IInv, NEW u \in Users, NEW saw \in Nat, NEW from \in Nat,
         saw <= counted[u], from <= published
  PROVE  Promise(u, Current(u), saw, from)
  <1>1. /\ Current(u) \in Versions /\ counted[u] \in Nat /\ writes[u] \in Nat /\ published \in Nat
        /\ decks[u] \in Deck
        /\ \A w \in Workers : held[w] \in Deck
    BY DEF IInv, TypeOK, Versions, Current, Threads
  <1>2. counted[u] <= writes[u] /\ decks[u].version <= Current(u)
    BY DEF IInv, WritesCommitted, NoVersionAhead
  <1>3. decks[u].version >= Current(u) => decks[u].saw >= saw /\ decks[u].epoch >= from
    BY <1>1, <1>2 DEF IInv, FreshDeckIsFresh, Deck, Versions
  <1>4. ASSUME NEW w \in Workers, user[w] = u, pc[w] \in Labelled, held[w].version >= Current(u)
        PROVE  /\ pc[w] # "rank" => held[w].saw >= saw
               /\ pc[w] = "store" => held[w].epoch >= from
    BY <1>1, <1>4 DEF IInv, WarmsHonest, WarmHonest, Deck, Versions
  <1> QED
    BY <1>1, <1>2, <1>3, <1>4 DEF Promise

(* A version above the current one has no deck yet.                         *)
LEMMA NextPromises ==
  ASSUME IInv, NEW u \in Users, NEW saw \in Nat, saw <= writes[u]
  PROVE  Promise(u, Current(u) + 1, saw, NoEpoch)
  <1>1. /\ Current(u) + 1 \in Versions /\ Current(u) \in Nat
        /\ published \in Nat /\ decks[u] \in Deck
        /\ \A w \in Workers : held[w] \in Deck
    BY DEF IInv, TypeOK, Versions, Current, Threads
  <1>2. decks[u].version <= Current(u)
    BY DEF IInv, NoVersionAhead
  <1>3. \A w \in Workers : user[w] = u /\ pc[w] \in Labelled => held[w].version <= Current(u)
    BY DEF IInv, WarmsHonest, WarmHonest
  <1> QED
    BY <1>1, <1>2, <1>3 DEF Promise, NoEpoch, Deck

(* A promise once made is kept.                                             *)
LEMMA PromiseKept ==
  ASSUME IInv, [Next]_vars, NEW u \in Users, NEW version \in Nat, NEW saw \in Nat,
         NEW from \in Nat, Promise(u, version, saw, from)
  PROVE  Promise(u, version, saw, from)'
  <1>t. /\ TypeOK /\ version \in Versions /\ version > 0
        /\ writes[u] \in Nat /\ published \in Nat /\ NoDeck.version = 0
    BY DEF IInv, TypeOK, Promise, Versions, NoDeck, DeckOf, NoVersion
  <1>1. CASE UNCHANGED vars
    BY <1>1 DEF vars, Promise, tables, deckVars, call, history, overlap
  <1>2. CASE \E r \in Requests : RequestStep(r)
    <2>1. PICK r \in Requests : RequestStep(r)
      BY <1>2
    <2>2. /\ \A w \in Workers : pc'[w] = pc[w] /\ user'[w] = user[w] /\ held'[w] = held[w]
          /\ published' = published /\ writes'[u] >= writes[u]
          /\ decks'[u] = decks[u] \/ decks'[u] = NoDeck
      BY <2>1, RequestEffect, ThreadsAssumption DEF IInv, Alone, Threads
    <2>3. writes'[u] \in Nat
      BY StepKeepsIInv DEF IInv, TypeOK
    <2> QED
      BY <1>t, <2>2, <2>3 DEF Promise
  <1>3. CASE \E p \in Publishers : PublisherStep(p)
    <2>1. PICK p \in Publishers : PublisherStep(p)
      BY <1>3
    <2>2. /\ \A w \in Workers : pc'[w] = pc[w] /\ user'[w] = user[w] /\ held'[w] = held[w]
          /\ published' >= published /\ writes' = writes /\ decks' = decks
      BY <2>1, PublisherEffect, ThreadsAssumption DEF IInv, Alone, Threads, deckVars
    <2>3. published' \in Nat
      BY StepKeepsIInv DEF IInv, TypeOK
    <2> QED
      BY <1>t, <2>2, <2>3 DEF Promise
  <1>4. CASE \E p \in Threads : TriggerWarm(p)
    <2>1. PICK p \in Threads : TriggerWarm(p)
      BY <1>4
    <2>2. /\ Alone(p) /\ pc'[p] \notin Labelled
          /\ user' = user /\ held' = held /\ published' = published
          /\ writes' = writes /\ decks' = decks
      BY <1>t, <2>1, TriggerEffect DEF IInv, TypeOK, Labelled, tables, deckVars, history, overlap
    <2>3. \A w \in Workers : pc'[w] \in Labelled => pc'[w] = pc[w]
      BY <2>2 DEF Alone, Threads
    <2> QED
      BY <2>2, <2>3 DEF Promise
  <1>5. CASE \E k \in Workers : WarmStep(k)
    <2>1. PICK k \in Workers : WarmStep(k)
      BY <1>5
    <2>2. Alone(k) /\ k \in Threads /\ writes' = writes /\ published' = published
      BY <2>1, WorkerEffect DEF IInv, tables, Threads
    <2>3. ASSUME NEW w \in Workers \ {k}
          PROVE  pc'[w] = pc[w] /\ user'[w] = user[w] /\ held'[w] = held[w]
      BY <2>2 DEF Alone, Threads
    <2>4. /\ decks'[u].version >= version => decks'[u].saw >= saw /\ decks'[u].epoch >= from
          /\ user'[k] = u /\ pc'[k] \in Labelled /\ held'[k].version >= version =>
               /\ pc'[k] # "rank" => held'[k].saw >= saw
               /\ pc'[k] = "store" => held'[k].epoch >= from
      <3>0. /\ held[k] \in Deck /\ pool \in Nat /\ epoch \in Nat /\ from <= epoch
            /\ pool # NoEpoch => pool >= from
            /\ At(k, "store_pool") => held[k].epoch >= from
        BY <1>t, <2>2 DEF IInv, TypeOK, PoolFresh, PoolHas, EpochsCommitted, Promise, Deck
      <3> USE <1>t, <2>2, <3>0 DEF Promise, Labelled, Deck, At, Go, Hold, CallTrigger,
             deckVars, queue, call, history, overlap
      <3>1. CASE TakeJob(k)
        BY <3>1, SMTT(30) DEF TakeJob, Begin, TypeOK
      <3>2. CASE CheckDeck(k)
        BY <3>2, SMTT(30) DEF CheckDeck, TypeOK
      <3>3. CASE LabelDeck(k)
        BY <3>3, SMTT(30) DEF LabelDeck, TypeOK
      <3>4. CASE ReadFeedback(k)
        BY <3>4, SMTT(30) DEF ReadFeedback, TypeOK, DeckOf
      <3>5. CASE RankCold(k)
        BY <3>5, SMTT(30) DEF RankCold, TypeOK, DeckOf
      <3>6. CASE GetPool(k, "store")
        BY <3>6, SMTT(30) DEF GetPool, UsePool, BuildPool, TypeOK, DeckOf
      <3>7. CASE StorePool(k, "store")
        BY <3>7, SMTT(30) DEF StorePool, TypeOK
      <3>8. CASE RankFails(k)
        BY <3>8, SMTT(30) DEF RankFails, TypeOK
      <3>9. CASE StoreDeck(k)
        <4>1. \/ decks'[u] = NoDeck \/ decks'[u] = decks[u]
              \/ u = user[k] /\ decks'[u] = held[k]
          BY <3>9 DEF StoreDeck, TypeOK
        <4>2. pc'[k] = "trigger" /\ pc[k] = "store"
          BY <3>9 DEF StoreDeck, TypeOK
        <4> QED
          BY <4>1, <4>2
      <3>10. CASE FinishJob(k)
        BY <3>10, SMTT(30) DEF FinishJob, End, TypeOK
      <3> QED
        BY <2>1, <3>1, <3>2, <3>3, <3>4, <3>5, <3>6, <3>7, <3>8, <3>9, <3>10 DEF WarmStep
    <2> QED
      BY <2>2, <2>3, <2>4 DEF Promise
  <1>6. CASE Restart
    <2>1. /\ writes' = writes /\ published' = published /\ decks'[u] = NoDeck
          /\ \A w \in Workers : pc'[w] = "idle"
      BY <1>6 DEF Restart, tables, Threads
    <2> QED
      BY <1>t, <2>1 DEF Promise, Labelled
  <1> QED
    BY <1>1, <1>2, <1>3, <1>4, <1>5, <1>6, StepOfSomeone

-----------------------------------------------------------------------------
(* Answers to votes: a version the user has reached, and a promise of the   *)
(* change, from the bump until the answer and ever after.                   *)
AboutToAck(r) ==
  \/ At(r, "ack")
  \/ pc[r] \in {"trigger", "compare", "enqueue"} /\ back[r] = "ack"

AnswerKept(u, version, saw) ==
  version <= Current(u) /\ Promise(u, version, saw, NoEpoch)

Answers ==
  /\ \A u \in Users : \A a \in acks[u] : AnswerKept(u, a.target, a.write)
  /\ \A r \in Requests : AboutToAck(r) => AnswerKept(user[r], held[r].version, held[r].saw)

LEMMA InitAnswers == ASSUME Init PROVE Answers
  BY DEF Init, Answers, AboutToAck, At, Threads

(* A user's versions never go back, not even over a restart.                *)
LEMMA CurrentGrows ==
  ASSUME IInv, [Next]_vars, NEW u \in Users PROVE Current(u)' >= Current(u)
  <1>0. /\ gen \in Nat /\ gen' \in Nat /\ bumps[u] \in Nat /\ bumps'[u] \in Nat
    BY StepKeepsIInv DEF IInv, TypeOK, Versions
  <1>1. CASE \E r \in Requests : RequestStep(r)
    <2>1. PICK r \in Requests : RequestStep(r)
      BY <1>1
    <2>2. gen' = gen
      BY <2>1, RequestEffect DEF IInv
    <2>3. CASE BumpUser(r)
      BY <1>0, <2>2, <2>3 DEF BumpUser, Current, IInv, TypeOK
    <2>4. CASE ~BumpUser(r)
      <3>1. bumps' = bumps
        BY <2>1, <2>4 DEF RequestStep, VoteStep, ReadStep, Upsert, Clear, Write, Repeat, StartRead,
           AnswerRepeat, Ack, ReadVotes, DropDeck, ServeCold, PickDeck, Serve
      <3> QED
        BY <1>0, <2>2, <3>1 DEF Current
    <2> QED
      BY <2>3, <2>4
  <1>2. CASE \E p \in Publishers : PublisherStep(p)
    BY <1>0, <1>2, PublisherEffect DEF IInv, Current
  <1>3. CASE (\E p \in Threads : TriggerWarm(p)) \/ \E w \in Workers : WarmStep(w)
    BY <1>0, <1>3, TriggerEffect, WorkerEffect DEF IInv, Current
  <1>4. CASE Restart
    <2>1. gen' >= Current(u) /\ bumps'[u] = 0
      BY <1>4 DEF Restart
    <2> QED
      BY <1>0, <2>1 DEF Current
  <1>5. CASE UNCHANGED vars
    BY <1>0, <1>5 DEF vars, Current
  <1> QED
    BY <1>1, <1>2, <1>3, <1>4, <1>5, StepOfSomeone

LEMMA AnswerStays ==
  ASSUME IInv, [Next]_vars, NEW u \in Users, NEW version \in Nat, NEW saw \in Nat,
         AnswerKept(u, version, saw)
  PROVE  AnswerKept(u, version, saw)'
  <1>1. Current(u) \in Nat /\ Current(u)' \in Nat
    BY StepKeepsIInv DEF IInv, TypeOK, Versions, Current
  <1> QED
    BY <1>1, CurrentGrows, PromiseKept DEF AnswerKept, NoEpoch

(* An answer that is on its way.                                            *)
LEMMA AnswerOnItsWay ==
  ASSUME IInv, [Next]_vars, Answers, NEW r \in Requests, AboutToAck(r),
         UNCHANGED <<user[r], held[r]>>
  PROVE  AnswerKept(user[r], held[r].version, held[r].saw)'
  <1>1. PICK u, version, saw : u = user[r] /\ version = held[r].version /\ saw = held[r].saw
    OBVIOUS
  <1>2. u \in Users /\ version \in Nat /\ saw \in Nat
    BY <1>1 DEF IInv, UserKnown, ForUser, TypeOK, Deck, AboutToAck, At, Threads
  <1>3. AnswerKept(u, version, saw)
    BY <1>1 DEF Answers
  <1>4. AnswerKept(u, version, saw)'
    BY <1>2, <1>3, AnswerStays
  <1> QED
    BY <1>1, <1>4

LEMMA StepKeepsAnswers == ASSUME IInv, Answers, [Next]_vars PROVE Answers'
  <1>t. TypeOK /\ TypeOK' /\ UserKnown /\ IInv'
    BY StepKeepsIInv DEF IInv
  <1>a. \A u \in Users : \A a \in acks[u] : AnswerKept(u, a.target, a.write)'
    <2> SUFFICES ASSUME NEW u \in Users, NEW a \in acks[u]
                 PROVE AnswerKept(u, a.target, a.write)'
      OBVIOUS
    <2>1. a.target \in Nat /\ a.write \in Nat
      BY <1>t DEF TypeOK
    <2> QED
      BY <2>1, AnswerStays DEF Answers
  <1>s. SUFFICES ASSUME Next PROVE Answers'
    <2>1. ASSUME UNCHANGED vars PROVE Answers'
      <3>1. acks' = acks /\ pc' = pc /\ back' = back /\ user' = user /\ held' = held
        BY <2>1 DEF vars, history, overlap, call
      <3>2. \A r \in Requests : AboutToAck(r)' => AboutToAck(r)
        BY <3>1 DEF AboutToAck, At
      <3> QED
        BY <1>a, <3>1, <3>2, AnswerOnItsWay DEF Answers
    <2> QED
      BY <2>1
  <1>1. CASE Restart
    <2>1. acks' = acks /\ \A r \in Requests : pc'[r] = "idle"
      BY <1>1 DEF Restart, Threads
    <2> QED
      BY <1>a, <2>1 DEF Answers, AboutToAck, At
  <1>2. ASSUME NEW p \in Threads, Alone(p), acks' = acks,
               p \in Requests /\ AboutToAck(p)' =>
                 AboutToAck(p) /\ user'[p] = user[p] /\ held'[p] = held[p]
        PROVE  Answers'
    <2>1. ASSUME NEW r \in Requests, AboutToAck(r)'
          PROVE  AnswerKept(user[r], held[r].version, held[r].saw)'
      BY <1>2, <2>1, AnswerOnItsWay DEF Alone, AboutToAck, At, Threads
    <2> QED
      BY <1>2, <1>a, <2>1 DEF Answers
  <1>3. CASE \E w \in Workers : WarmStep(w)
    BY <1>2, <1>3, <1>t, WorkerEffect, ThreadsAssumption DEF Threads
  <1>4. CASE \E p \in Publishers : PublisherStep(p)
    BY <1>2, <1>4, <1>t, PublisherEffect, ThreadsAssumption DEF Threads
  <1>5. CASE \E p \in Threads : TriggerWarm(p)
    <2>1. PICK p \in Threads : TriggerWarm(p)
      BY <1>5
    <2> QED
      BY <1>2, <1>t, <2>1, TriggerEffect DEF AboutToAck, At, history, overlap
  <1>6. CASE \E r \in Requests : RequestStep(r)
    <2>1. PICK r \in Requests : RequestStep(r)
      BY <1>6
    <2>2. Alone(r) /\ r \in Threads
      BY <1>t, <2>1, RequestEffect DEF Threads
    <2>3. ASSUME NEW q \in Requests \ {r}, AboutToAck(q)'
          PROVE  AnswerKept(user[q], held[q].version, held[q].saw)'
      BY <2>2, <2>3, AnswerOnItsWay DEF Alone, AboutToAck, At, Threads
    <2>4. CASE BumpUser(r)
      <3>1. PICK u, saw : u = user[r] /\ saw = held[r].saw
        OBVIOUS
      <3>2. u \in Users /\ saw \in Nat /\ saw <= writes[u] /\ Current(u) \in Nat
        BY <1>t, <2>2, <2>4, <3>1 DEF BumpUser, IInv, WritesCommitted, TypeOK, Deck, Versions, Current, At
      <3>3. PICK version : version = Current(u) + 1
        OBVIOUS
      <3>4. version \in Nat /\ Promise(u, version, saw, NoEpoch)
        BY <3>2, <3>3, NextPromises
      <3>5. Promise(u, version, saw, NoEpoch)'
        BY <3>2, <3>4, PromiseKept DEF NoEpoch
      <3>6. /\ user'[r] = u /\ held'[r].version = version /\ held'[r].saw = saw
            /\ acks' = acks /\ Current(u)' = version
        BY <1>t, <2>2, <2>4, <3>1, <3>2, <3>3, SMTT(30) DEF BumpUser, Hold, DeckOf, Current, TypeOK, Versions
      <3>7. AnswerKept(user[r], held[r].version, held[r].saw)'
        BY <3>4, <3>5, <3>6 DEF AnswerKept
      <3> QED
        BY <1>a, <2>3, <3>6, <3>7 DEF Answers
    <2>5. CASE AnswerRepeat(r)
      <3>1. PICK u, saw : u = user[r] /\ saw = Oldest(held[r].saw, counted[user[r]])
        OBVIOUS
      <3>2. PICK version : version = Current(u)
        OBVIOUS
      <3>3. u \in Users /\ saw \in Nat /\ saw <= counted[u] /\ version \in Nat
        BY <1>t, <2>2, <2>5, <3>1, <3>2
           DEF AnswerRepeat, Oldest, UserKnown, ForUser, TypeOK, Deck, Versions, Current, At
      <3>4. Promise(u, version, saw, NoEpoch)
        <4>1. published \in Nat
          BY <1>t DEF TypeOK
        <4> QED
          BY <3>2, <3>3, <4>1, CurrentPromises DEF NoEpoch
      <3>5. Promise(u, version, saw, NoEpoch)'
        BY <3>3, <3>4, PromiseKept DEF NoEpoch
      <3>6. /\ user'[r] = u /\ held'[r].version = version /\ held'[r].saw = saw
            /\ acks' = acks /\ Current(u)' = version
        BY <1>t, <2>2, <2>5, <3>1, <3>2, SMTT(30)
           DEF AnswerRepeat, Hold, DeckOf, Current, TypeOK, call, history, overlap
      <3>7. AnswerKept(user[r], held[r].version, held[r].saw)'
        BY <3>3, <3>5, <3>6 DEF AnswerKept
      <3> QED
        BY <1>a, <2>3, <3>6, <3>7 DEF Answers
    <2>6. CASE Ack(r)
      <3>1. /\ AboutToAck(r) /\ ~AboutToAck(r)' /\ user[r] \in Users
        BY <1>t, <2>2, <2>6 DEF Ack, AboutToAck, At, End, Go, TypeOK, UserKnown, ForUser
      <3>2. PICK u, a : u = user[r] /\ a = [target |-> held[r].version, write |-> held[r].saw]
        OBVIOUS
      <3>3. /\ acks'[u] = acks[u] \union {a}
            /\ \A v \in Users \ {u} : acks'[v] = acks[v]
        BY <1>t, <2>6, <3>1, <3>2 DEF Ack, TypeOK
      <3>4. u \in Users /\ a.target \in Nat /\ a.write \in Nat
        BY <1>t, <2>2, <3>1, <3>2 DEF TypeOK, Deck
      <3>5. AnswerKept(u, a.target, a.write)
        BY <3>1, <3>2 DEF Answers
      <3>6. AnswerKept(u, a.target, a.write)'
        BY <3>4, <3>5, AnswerStays
      <3> QED
        BY <1>a, <2>3, <3>1, <3>3, <3>6 DEF Answers
    <2>7. CASE ~BumpUser(r) /\ ~AnswerRepeat(r) /\ ~Ack(r)
      <3>1. acks' = acks /\ ~AboutToAck(r)'
        <4> USE <1>t, <2>2 DEF AboutToAck, At, Go, Begin, End, CallTrigger, TypeOK, history, overlap
        <4>1. CASE Upsert(r) \/ Clear(r) \/ Repeat(r) \/ \E u \in Users : StartRead(r, u)
          <5>1. CASE Upsert(r) \/ Clear(r)
            <6>1. acks' = acks /\ pc' = [pc EXCEPT ![r] = "bump"]
              BY ONLY <5>1 DEF Upsert, Clear, Write, Begin, Go, history
            <6> QED
              BY <6>1
          <5>2. CASE Repeat(r) \/ \E u \in Users : StartRead(r, u)
            BY <5>2 DEF Repeat, StartRead
          <5> QED
            BY <4>1, <5>1, <5>2
        <4>2. CASE ReadVotes(r) \/ DropDeck(r) \/ ServeCold(r) \/ Serve(r)
          BY <4>2 DEF ReadVotes, DropDeck, ServeCold, Serve
        <4>3. CASE PickDeck(r)
          BY <4>3 DEF PickDeck
        <4> QED
          BY <2>1, <2>7, <4>1, <4>2, <4>3 DEF RequestStep, VoteStep, ReadStep
      <3> QED
        BY <1>2, <2>2, <3>1
    <2> QED
      BY <2>4, <2>5, <2>6, <2>7
  <1> QED
    BY <1>s, <1>1, <1>3, <1>4, <1>5, <1>6, StepOfSomeone

-----------------------------------------------------------------------------
(* Reads.  The version a read started from promises what was counted and    *)
(* published by then; a view that was behind when it was picked stays       *)
(* behind.  Only the shared cold deck carries no version.                   *)

(* Stories as of e contain all that was announced, or is about to be by a   *)
(* publisher whose cold deck is stored.                                     *)
Complete(e) ==
  /\ e >= published
  /\ \A p \in Publishers : At(p, "bump_gen") => e >= ingested[p]

HoldsPool(p) == pc[p] \in {"store_pool", "set_cold"}

(* The pool a publisher got is complete until another's cold deck is stored,*)
(* and contains its own ingest; a cold deck that is not torn is complete.   *)
ColdKept ==
  /\ ~torn => Complete(coldDeck)
  /\ \A p \in Publishers : HoldsPool(p) =>
       /\ held[p].epoch >= ingested[p]
       /\ p \notin beside => Complete(held[p].epoch)

ReadHonest(r) ==
  /\ pc[r] \in {"votes", "drop", "cold", "pick"} =>
       Promise(user[r], ver[r], asked[r].counted, asked[r].published)
  /\ pc[r] \in {"drop", "cold"} => held[r].saw >= asked[r].counted
  /\ pc[r] \in {"trigger", "compare", "enqueue"} /\ back[r] = "serve" =>
       held[r].version < ver[r]

Reads == ColdKept /\ \A r \in Requests : ReadHonest(r)

LEMMA InitReads == ASSUME Init PROVE Reads
  <1>1. ColdKept
    BY DEF Init, ColdKept, Complete, HoldsPool, At, Threads
  <1>2. \A r \in Requests : pc[r] = "idle"
    BY DEF Init, Threads
  <1> QED
    BY <1>1, <1>2 DEF Reads, ReadHonest, At

(* A step that neither gets a pool nor announces nor stores a cold deck.    *)
ColdUntouched ==
  /\ coldDeck' = coldDeck /\ published' = published
  /\ \A p \in Publishers :
       /\ At(p, "bump_gen")' => At(p, "bump_gen") /\ ingested'[p] = ingested[p]
       /\ HoldsPool(p)' => /\ HoldsPool(p) /\ (p \in beside => p \in beside')
                           /\ ingested'[p] = ingested[p] /\ held'[p].epoch = held[p].epoch

LEMMA ColdStays == ASSUME ColdKept, ColdUntouched, torn' = torn PROVE ColdKept'
  <1>1. ASSUME NEW e, NEW e1, e1 = e, Complete(e)
        PROVE  e1 >= published' /\ \A p \in Publishers : At(p, "bump_gen")' => e1 >= ingested'[p]
    BY <1>1 DEF Complete, ColdUntouched
  <1>2. ~torn' => Complete(coldDeck)'
    BY <1>1 DEF ColdKept, ColdUntouched, Complete
  <1>3. ASSUME NEW p \in Publishers, HoldsPool(p)'
        PROVE  /\ held'[p].epoch >= ingested'[p]
               /\ p \notin beside' => Complete(held[p].epoch)'
    <2>1. /\ HoldsPool(p) /\ (p \in beside => p \in beside')
          /\ ingested'[p] = ingested[p] /\ held'[p].epoch = held[p].epoch
      BY <1>3 DEF ColdUntouched
    <2>2. held[p].epoch >= ingested[p] /\ (p \notin beside => Complete(held[p].epoch))
      BY <2>1 DEF ColdKept
    <2> QED
      BY <1>1, <2>1, <2>2 DEF Complete
  <1> QED
    BY <1>2, <1>3 DEF ColdKept

(* A publisher that gets the pool gets all that is announced by then.       *)
LEMMA GetPoolKeepsCold ==
  ASSUME IInv, ColdKept, NEW p \in Publishers, GetPool(p, "set_cold") PROVE ColdKept'
  <1>t. /\ TypeOK /\ p \in Threads /\ Publishers \subseteq Threads /\ At(p, "get_pool")
        /\ published \in Nat /\ epoch \in Nat /\ pool \in Nat
        /\ \A q \in Publishers : ingested[q] \in Nat
    BY DEF IInv, TypeOK, Threads, GetPool
  <1>u. /\ published' = published /\ ingested' = ingested /\ coldDeck' = coldDeck
        /\ torn' = torn /\ beside' = beside
    BY DEF GetPool, history, overlap
  <1>1. pc'[p] \in {"set_cold", "store_pool"} /\ held'[p].epoch \in {pool, epoch}
    BY <1>t DEF GetPool, UsePool, BuildPool, Go, Hold, DeckOf, TypeOK
  <1>2. held'[p].epoch = pool => pool # NoEpoch \/ held'[p].epoch = epoch
    BY <1>t DEF GetPool, UsePool, BuildPool, Go, Hold, DeckOf, TypeOK
  <1>3. \A q \in Publishers \ {p} : pc'[q] = pc[q] /\ held'[q] = held[q]
    BY <1>t DEF GetPool, UsePool, BuildPool, Go, Hold, TypeOK
  <1>4. pool # NoEpoch => Complete(pool) /\ pool >= ingested[p]
    BY <1>t DEF IInv, PoolFresh, PoolHas, Rebuilding, Complete, At
  <1>5. Complete(epoch) /\ epoch >= ingested[p]
    BY <1>t DEF IInv, EpochsCommitted, Complete
  <1>6. PICK e : e = held'[p].epoch
    OBVIOUS
  <1>7. Complete(e) /\ e >= ingested[p]
    BY <1>1, <1>2, <1>4, <1>5, <1>6
  <1>8. \A q \in Publishers : At(q, "bump_gen")' => At(q, "bump_gen")
    BY <1>1, <1>3 DEF At
  <1>9. ASSUME NEW d, NEW d1, d1 = d, Complete(d)
        PROVE  d1 >= published' /\ \A q \in Publishers : At(q, "bump_gen")' => d1 >= ingested'[q]
    BY <1>u, <1>8, <1>9 DEF Complete
  <1>10. ~torn' => Complete(coldDeck)'
    BY <1>u, <1>9 DEF ColdKept, Complete
  <1>11. ASSUME NEW q \in Publishers, HoldsPool(q)'
         PROVE  /\ held'[q].epoch >= ingested'[q]
                /\ q \notin beside' => Complete(held[q].epoch)'
    <2>1. CASE q = p
      BY <1>u, <1>6, <1>7, <1>9, <2>1 DEF Complete
    <2>2. CASE q # p
      BY <1>u, <1>3, <1>9, <1>11, <2>2 DEF ColdKept, Complete, HoldsPool
    <2> QED
      BY <2>1, <2>2
  <1> QED
    BY <1>10, <1>11 DEF ColdKept

(* A cold deck that is stored is complete, unless another was stored since  *)
(* its pool was got and was newer (or torn itself).                         *)
LEMMA SetColdDeckKeepsCold ==
  ASSUME IInv, ColdKept, NEW p \in Publishers, SetColdDeck(p) PROVE ColdKept'
  <1>t. /\ TypeOK /\ p \in Threads /\ Publishers \subseteq Threads
        /\ At(p, "set_cold") /\ HoldsPool(p)
        /\ published \in Nat /\ coldDeck \in Nat /\ held[p].epoch \in Nat
        /\ \A q \in Publishers : ingested[q] \in Nat
    BY DEF IInv, TypeOK, Deck, Threads, SetColdDeck, HoldsPool, At
  <1>u. /\ published' = published /\ ingested' = ingested /\ coldDeck' = held[p].epoch
        /\ pc' = [pc EXCEPT ![p] = "bump_gen"]
        /\ torn' = (p \in beside /\ (torn \/ held[p].epoch < coldDeck))
        /\ \A q \in Publishers \ {p} : HoldsPool(q) => q \in beside'
    BY DEF SetColdDeck, Go, HoldsPool
  <1>1. /\ pc'[p] = "bump_gen"
        /\ \A q \in Publishers \ {p} : pc'[q] = pc[q] /\ held'[q] = held[q]
    BY <1>t, <1>u DEF SetColdDeck, Hold, TypeOK
  <1>2. held[p].epoch >= ingested[p]
    BY <1>t DEF ColdKept
  <1>3. ~torn' => Complete(held[p].epoch)
    <2>1. CASE p \notin beside
      BY <1>t, <2>1 DEF ColdKept
    <2>2. CASE p \in beside /\ ~torn /\ held[p].epoch >= coldDeck
      BY <1>t, <2>2 DEF ColdKept, Complete
    <2>3. held[p].epoch >= coldDeck \/ held[p].epoch < coldDeck
      BY <1>t
    <2> QED
      BY <1>u, <2>1, <2>2, <2>3, Zenon
  <1>4. ~torn' => Complete(coldDeck)'
    <2> SUFFICES ASSUME ~torn'
                 PROVE  /\ coldDeck' >= published'
                        /\ \A q \in Publishers : At(q, "bump_gen")' => coldDeck' >= ingested'[q]
      BY DEF Complete
    <2> QED
      BY <1>u, <1>1, <1>2, <1>3 DEF Complete, At
  <1>5. ASSUME NEW q \in Publishers, HoldsPool(q)'
        PROVE  held'[q].epoch >= ingested'[q] /\ q \in beside'
    BY <1>u, <1>1, <1>5 DEF ColdKept, HoldsPool
  <1> QED
    BY <1>4, <1>5 DEF ColdKept

(* What is announced was complete a step before.                            *)
LEMMA BumpGenerationKeepsCold ==
  ASSUME IInv, ColdKept, NEW p \in Publishers, BumpGeneration(p) PROVE ColdKept'
  <1>t. /\ TypeOK /\ p \in Threads /\ Publishers \subseteq Threads /\ At(p, "bump_gen")
        /\ published \in Nat /\ ingested[p] \in Nat
    BY DEF IInv, TypeOK, Threads, BumpGeneration
  <1>u. /\ published' \in {published, ingested[p]} /\ ingested' = ingested /\ coldDeck' = coldDeck
        /\ torn' = torn /\ beside' = beside /\ held' = held
        /\ pc'[p] = "warm_cached" /\ \A q \in Publishers \ {p} : pc'[q] = pc[q]
    BY <1>t DEF BumpGeneration, Newest, Go, TypeOK, overlap
  <1>1. ASSUME NEW d, NEW d1, d1 = d, Complete(d)
        PROVE  d1 >= published' /\ \A q \in Publishers : At(q, "bump_gen")' => d1 >= ingested'[q]
    BY <1>t, <1>u, <1>1 DEF Complete, At
  <1>2. ~torn' => Complete(coldDeck)'
    BY <1>u, <1>1 DEF ColdKept, Complete
  <1>3. ASSUME NEW q \in Publishers, HoldsPool(q)'
        PROVE  /\ held'[q].epoch >= ingested'[q]
               /\ q \notin beside' => Complete(held[q].epoch)'
    BY <1>u, <1>1, <1>3 DEF ColdKept, Complete, HoldsPool
  <1> QED
    BY <1>2, <1>3 DEF ColdKept

LEMMA PublisherKeepsCold ==
  ASSUME IInv, ColdKept, NEW p \in Publishers, PublisherStep(p) PROVE ColdKept'
  <1>t. /\ pc \in [Threads -> Labels] /\ ingested \in [Publishers -> Nat]
        /\ p \in Threads /\ Publishers \subseteq Threads /\ Alone(p)
    BY PublisherEffect DEF IInv, TypeOK, Threads
  <1>1. CASE Ingest(p) \/ InvalidatePool(p) \/ StorePool(p, "set_cold") \/ PublishFails(p)
             \/ WarmCached(p) \/ EndPublish(p)
    <2>1. coldDeck' = coldDeck /\ published' = published
      BY <1>1 DEF Ingest, InvalidatePool, StorePool, PublishFails, WarmCached, EndPublish, history
    <2>2. torn' = torn
      BY <1>1, Zenon DEF Ingest, InvalidatePool, StorePool, PublishFails, WarmCached, EndPublish,
                         history, overlap
    <2>3. beside' = beside \/ beside' = beside \ {p}
      BY <1>1 DEF Ingest, InvalidatePool, StorePool, PublishFails, WarmCached, EndPublish,
                  history, overlap
    <2>4. \A q \in Publishers \ {p} : ingested'[q] = ingested[q]
      BY <1>1, <1>t DEF Ingest, InvalidatePool, StorePool, PublishFails, WarmCached, EndPublish, history
    <2>5. ASSUME NEW q \in Publishers, q # p
          PROVE  pc'[q] = pc[q] /\ held'[q] = held[q] /\ (q \in beside => q \in beside')
      BY <1>t, <2>3, <2>5 DEF Alone
    <2>6. CASE StorePool(p, "set_cold")
      <3>1. /\ At(p, "store_pool") /\ pc'[p] = "set_cold" /\ held' = held
            /\ ingested' = ingested /\ beside' = beside
        BY <1>t, <2>6 DEF StorePool, Go, history, overlap
      <3> QED
        BY <2>1, <2>2, <2>4, <2>5, <3>1, ColdStays DEF ColdUntouched, HoldsPool, At
    <2>7. CASE ~StorePool(p, "set_cold")
      <3>1. pc'[p] \in {"invalidate", "get_pool", "idle", "trigger"}
        BY <1>1, <1>t, <2>7 DEF Ingest, InvalidatePool, PublishFails, WarmCached, EndPublish,
                                Begin, End, CallTrigger, Go
      <3> QED
        BY <2>1, <2>2, <2>4, <2>5, <3>1, ColdStays DEF ColdUntouched, HoldsPool, At
    <2> QED
      BY <2>6, <2>7
  <1> QED
    BY <1>1, GetPoolKeepsCold, SetColdDeckKeepsCold, BumpGenerationKeepsCold
       DEF PublisherStep, PublishStep

LEMMA StepKeepsCold == ASSUME IInv, ColdKept, [Next]_vars PROVE ColdKept'
  <1>1. ASSUME coldDeck' = coldDeck, published' = published, ingested' = ingested,
               torn' = torn, beside' = beside,
               \A p \in Publishers : pc'[p] \in {"store_pool", "set_cold", "bump_gen"} =>
                 pc'[p] = pc[p] /\ held'[p] = held[p]
        PROVE  ColdKept'
    BY <1>1, ColdStays DEF ColdUntouched, HoldsPool, At
  <1>2. CASE UNCHANGED vars
    BY <1>1, <1>2 DEF vars, history, overlap
  <1>3. CASE Restart
    <2>1. /\ coldDeck' = epoch /\ published' = published
          /\ \A p \in Publishers : pc'[p] = "idle"
      BY <1>3 DEF Restart, Threads
    <2> QED
      BY <2>1 DEF ColdKept, Complete, HoldsPool, At, IInv, EpochsCommitted, TypeOK
  <1>4. CASE \E r \in Requests : RequestStep(r)
    BY <1>1, <1>4, RequestEffect, ThreadsAssumption DEF IInv, Alone, Threads, overlap
  <1>5. CASE \E w \in Workers : WarmStep(w)
    BY <1>1, <1>5, WorkerEffect, ThreadsAssumption DEF IInv, Alone, Threads, overlap
  <1>6. CASE \E p \in Threads : TriggerWarm(p)
    <2>1. PICK p \in Threads : TriggerWarm(p)
      BY <1>6
    <2>2. /\ Alone(p) /\ pc'[p] \notin {"store_pool", "set_cold", "bump_gen"} /\ coldDeck' = coldDeck
          /\ published' = published /\ ingested' = ingested /\ torn' = torn /\ beside' = beside
      BY <2>1, TriggerEffect DEF IInv, TypeOK, history, overlap
    <2> QED
      BY <1>1, <2>2 DEF Alone, Threads
  <1>7. CASE \E p \in Publishers : PublisherStep(p)
    BY <1>7, PublisherKeepsCold
  <1> QED
    BY <1>2, <1>3, <1>4, <1>5, <1>6, <1>7, StepOfSomeone

(* A read nobody moved: its promise is kept, the rest is its own.           *)
LEMMA ReadStays ==
  ASSUME IInv, [Next]_vars, NEW r \in Requests, ReadHonest(r),
         UNCHANGED <<pc[r], back[r], user[r], ver[r], held[r], asked[r]>>
  PROVE  ReadHonest(r)'
  <1>1. CASE pc[r] \in {"votes", "drop", "cold", "pick"}
    <2>1. PICK u, version, saw, from :
            u = user[r] /\ version = ver[r] /\ saw = asked[r].counted /\ from = asked[r].published
      OBVIOUS
    <2>2. u \in Users /\ version \in Nat /\ saw \in Nat /\ from \in Nat
      BY <1>1, <2>1 DEF IInv, TypeOK, UserKnown, ForUser, Threads
    <2>3. Promise(u, version, saw, from)'
      BY <1>1, <2>1, <2>2, PromiseKept DEF ReadHonest
    <2> QED
      BY <1>1, <2>1, <2>3 DEF ReadHonest, At, ViewReady
  <1>2. CASE pc[r] \notin {"votes", "drop", "cold", "pick"}
    BY <1>2 DEF ReadHonest, At, ViewReady
  <1> QED
    BY <1>1, <1>2

(* The request's own steps.                                                 *)
LEMMA RequestKeepsRead ==
  ASSUME IInv, ColdKept, NEW r \in Requests, ReadHonest(r), RequestStep(r)
  PROVE  ReadHonest(r)'
  <1>t. /\ TypeOK /\ UserKnown /\ r \in Threads
        /\ ver[r] \in Nat /\ held[r] \in Deck /\ asked[r].counted \in Nat
        /\ asked[r].published \in Nat /\ coldDeck \in Nat /\ published \in Nat
    BY DEF IInv, TypeOK, Threads
  <1>n. [Next]_vars
    BY DEF RequestStep, Next
  <1>p. ASSUME NEW u \in Users, u = user[r], user'[r] = u, ver'[r] = ver[r], asked'[r] = asked[r],
               Promise(user[r], ver[r], asked[r].counted, asked[r].published)
        PROVE  Promise(user[r], ver[r], asked[r].counted, asked[r].published)'
    <2>1. PICK version, saw, from :
            version = ver[r] /\ saw = asked[r].counted /\ from = asked[r].published
      OBVIOUS
    <2>2. Promise(u, version, saw, from)'
      BY <1>t, <1>n, <1>p, <2>1, PromiseKept
    <2> QED
      BY <1>p, <2>1, <2>2
  <1>1. CASE \E u \in Users : StartRead(r, u)
    <2>1. PICK u \in Users : StartRead(r, u)
      BY <1>1
    <2>2. PICK version, saw, from : version = Current(u) /\ saw = counted[u] /\ from = published
      OBVIOUS
    <2>3. version \in Nat /\ saw \in Nat /\ from \in Nat
      BY <1>t, <2>2 DEF TypeOK, Versions, Current
    <2>4. Promise(u, version, saw, from)
      BY <2>2, <2>3, CurrentPromises
    <2>5. Promise(u, version, saw, from)'
      BY <1>n, <2>3, <2>4, PromiseKept
    <2>6. /\ pc'[r] = "votes" /\ user'[r] = u /\ ver'[r] = version
          /\ asked'[r].counted = saw /\ asked'[r].published = from
      BY <1>t, <2>1, <2>2 DEF StartRead, Begin, Go, TypeOK
    <2> QED
      BY <2>5, <2>6 DEF ReadHonest, At
  <1>2. CASE ReadVotes(r)
    <2>1. /\ pc[r] = "votes" /\ pc'[r] \in {"drop", "pick"} /\ user[r] \in Users
          /\ user'[r] = user[r] /\ ver'[r] = ver[r] /\ asked'[r] = asked[r]
          /\ held'[r].saw = writes[user[r]]
      BY <1>2, <1>t DEF ReadVotes, At, Go, Hold, DeckOf, UserKnown, ForUser, TypeOK, call, history, overlap
    <2>2. Promise(user[r], ver[r], asked[r].counted, asked[r].published)
      BY <2>1 DEF ReadHonest
    <2>3. Promise(user[r], ver[r], asked[r].counted, asked[r].published)'
      BY <1>p, <2>1, <2>2
    <2>4. asked[r].counted <= writes[user[r]] /\ writes[user[r]] \in Nat
      BY <1>t, <2>1, <2>2 DEF Promise, TypeOK
    <2> QED
      BY <1>t, <2>1, <2>3, <2>4 DEF ReadHonest, At
  <1>3. CASE DropDeck(r)
    <2>1. /\ pc[r] = "drop" /\ pc'[r] = "cold" /\ user[r] \in Users
          /\ user'[r] = user[r] /\ ver'[r] = ver[r] /\ asked'[r] = asked[r] /\ held'[r] = held[r]
      BY <1>3, <1>t DEF DropDeck, At, Go, UserKnown, ForUser, TypeOK, call, history, overlap
    <2>2. Promise(user[r], ver[r], asked[r].counted, asked[r].published)'
      BY <1>p, <2>1 DEF ReadHonest
    <2> QED
      BY <2>1, <2>2 DEF ReadHonest, At
  <1>4. CASE ServeCold(r)
    <2>1. pc'[r] = "serve"
      BY <1>4, <1>t DEF ServeCold, At, Go, TypeOK
    <2> QED
      BY <2>1 DEF ReadHonest, At
  <1>5. CASE PickDeck(r)
    <2>1. /\ pc[r] = "pick" /\ user[r] \in Users /\ user'[r] = user[r] /\ asked'[r] = asked[r]
      BY <1>5, <1>t DEF PickDeck, At, UserKnown, ForUser, TypeOK, history, overlap
    <2>2. PICK deck : deck = IF decks[user[r]] = NoDeck THEN DeckOf(NoVersion, 0, coldDeck)
                                                        ELSE decks[user[r]]
      OBVIOUS
    <2>3. /\ held'[r] = deck
          /\ \/ deck.version < ver[r] /\ CallTrigger(r, ver[r], "serve")
             \/ deck.version >= ver[r] /\ pc'[r] = "serve" /\ ver'[r] = ver[r]
      BY <1>5, <1>t, <2>2 DEF PickDeck, Hold, Go, TypeOK
    <2>5. CASE pc'[r] = "serve"
      BY <2>5 DEF ReadHonest, At
    <2>6. CASE deck.version < ver[r] /\ CallTrigger(r, ver[r], "serve")
      <3>1. pc'[r] = "trigger" /\ ver'[r] = ver[r]
        BY <1>t, <2>6 DEF CallTrigger, Go, TypeOK
      <3> QED
        BY <2>3, <2>6, <3>1 DEF ReadHonest, At
    <2> QED
      BY <2>3, <2>5, <2>6
  <1>6. CASE BumpUser(r)
    <2>1. pc'[r] = "trigger" /\ back'[r] = "ack"
      BY <1>6, <1>t DEF BumpUser, CallTrigger, Go, TypeOK
    <2> QED
      BY <2>1 DEF ReadHonest, At
  <1>7. CASE Upsert(r) \/ Clear(r) \/ Repeat(r) \/ AnswerRepeat(r) \/ Ack(r) \/ Serve(r)
    <2>1. pc'[r] \in {"bump", "repeated", "ack", "idle"}
      BY <1>7, <1>t DEF Upsert, Clear, Write, Repeat, AnswerRepeat, Ack, Serve, Begin, End, Go, TypeOK
    <2> QED
      BY <2>1 DEF ReadHonest, At
  <1> QED
    BY <1>1, <1>2, <1>3, <1>4, <1>5, <1>6, <1>7 DEF RequestStep, VoteStep, ReadStep

(* A view that is behind stays behind: _trigger_warm only raises `ver`.     *)
LEMMA TriggerKeepsRead ==
  ASSUME IInv, NEW r \in Requests, ReadHonest(r), TriggerWarm(r)
  PROVE  ReadHonest(r)'
  <1>1. /\ pc[r] \in {"trigger", "compare", "enqueue"}
        /\ pc'[r] \in {"compare", "enqueue", back[r]}
        /\ back'[r] = back[r] /\ held'[r] = held[r] /\ ver'[r] >= ver[r]
        /\ back[r] \in {"idle", "ack", "serve", "finish", "warm_cached"}
    BY TriggerEffect DEF IInv, TypeOK, Threads
  <1>2. ver[r] \in Nat /\ ver'[r] \in Nat /\ held[r].version \in Nat
    BY StepKeepsIInv DEF IInv, TypeOK, Deck, Threads, Next
  <1>3. back[r] = "serve" => held[r].version < ver[r]
    BY <1>1 DEF ReadHonest
  <1>4. back[r] = "serve" => ~(held'[r].version >= ver'[r]) /\ held'[r].version < ver'[r]
    BY <1>1, <1>2, <1>3
  <1> QED
    BY <1>1, <1>4 DEF ReadHonest, At, ViewReady

LEMMA StepKeepsReads == ASSUME IInv, Reads, [Next]_vars PROVE Reads'
  <1>1. ColdKept' /\ ColdKept
    BY StepKeepsCold DEF Reads
  <1>2. ASSUME NEW r \in Requests PROVE ReadHonest(r)'
    <2>0. ReadHonest(r) /\ r \in Threads
      BY DEF Reads, Threads
    <2>1. CASE UNCHANGED vars
      BY <2>0, <2>1, ReadStays DEF vars, call, history, overlap
    <2>2. CASE Restart
      <3>1. pc'[r] = "idle"
        BY <2>0, <2>2 DEF Restart
      <3> QED
        BY <3>1 DEF ReadHonest, At
    <2>3. CASE \E q \in Requests : RequestStep(q)
      <3>1. PICK q \in Requests : RequestStep(q)
        BY <2>3
      <3>2. CASE q = r
        BY <1>1, <2>0, <3>1, <3>2, RequestKeepsRead
      <3>3. CASE q # r
        <4>1. asked'[r] = asked[r]
          <5> USE <3>1, <3>3 DEF IInv, TypeOK, history, overlap
          <5>1. CASE (\E u \in Users : StartRead(q, u)) \/ Serve(q)
            BY <5>1 DEF StartRead, Serve
          <5>2. CASE ~(\E u \in Users : StartRead(q, u)) /\ ~Serve(q)
            BY <5>2 DEF RequestStep, VoteStep, ReadStep, Upsert, Clear, Write, Repeat, AnswerRepeat,
                        BumpUser, Ack, ReadVotes, DropDeck, ServeCold, PickDeck
          <5> QED
            BY <5>1, <5>2
        <4> QED
          BY <2>0, <3>1, <3>3, <4>1, RequestEffect, ReadStays DEF IInv, Alone
      <3> QED
        BY <3>2, <3>3
    <2>4. CASE \E w \in Workers : WarmStep(w)
      BY <2>0, <2>4, WorkerEffect, ReadStays, ThreadsAssumption DEF IInv, Alone, Threads
    <2>5. CASE \E p \in Publishers : PublisherStep(p)
      BY <2>0, <2>5, PublisherEffect, ReadStays, ThreadsAssumption DEF IInv, Alone, Threads
    <2>6. CASE \E p \in Threads : TriggerWarm(p)
      <3>1. PICK p \in Threads : TriggerWarm(p)
        BY <2>6
      <3>2. CASE p = r
        BY <2>0, <3>1, <3>2, TriggerKeepsRead
      <3>3. CASE p # r
        BY <2>0, <3>1, <3>3, TriggerEffect, ReadStays DEF IInv, Alone, history, overlap
      <3> QED
        BY <3>2, <3>3
    <2> QED
      BY <2>1, <2>2, <2>3, <2>4, <2>5, <2>6, StepOfSomeone
  <1> QED
    BY <1>1, <1>2 DEF Reads

(* A view is picked from the cold deck, or from the cached deck: that has   *)
(* what its version promises, which is what was asked for.                  *)
LEMMA ReadyAtPick ==
  ASSUME IInv, Reads, [Next]_vars, NEW r \in Requests, ~At(r, "serve"), At(r, "serve")',
         ViewReady(r)'
  PROVE  /\ held'[r].saw >= asked[r].counted
         /\ \/ held'[r].epoch >= asked[r].published
            \/ At(r, "cold") /\ torn
  <1>t. /\ TypeOK /\ UserKnown /\ ReadHonest(r) /\ r \in Threads
        /\ pc[r] # "serve" /\ pc'[r] = "serve" /\ held'[r].version >= ver'[r]
        /\ ver[r] \in Nat /\ held[r] \in Deck /\ asked[r].counted \in Nat
        /\ asked[r].published \in Nat /\ coldDeck \in Nat /\ published \in Nat
    BY DEF IInv, TypeOK, Reads, Threads, At, ViewReady
  <1>1. RequestStep(r) \/ TriggerWarm(r)
    <2>1. ~(UNCHANGED vars)
      BY <1>t DEF vars
    <2>2. ~Restart
      BY <1>t DEF Restart
    <2>3. ASSUME NEW p \in Threads, Alone(p) PROVE p = r
      BY <1>t, <2>3 DEF Alone
    <2> QED
      BY <1>t, <2>1, <2>2, <2>3, StepOfSomeone, RequestEffect, WorkerEffect, PublisherEffect, TriggerEffect,
         ThreadsAssumption DEF Threads
  <1>2. ~TriggerWarm(r)
    <2> SUFFICES ASSUME TriggerWarm(r) PROVE FALSE
      OBVIOUS
    <2>1. /\ pc[r] \in {"trigger", "compare", "enqueue"} /\ back[r] = "serve"
          /\ held'[r] = held[r] /\ ver'[r] >= ver[r]
      BY <1>t, TriggerEffect
    <2>2. ver[r] \in Nat /\ ver'[r] \in Nat /\ held[r].version \in Nat
      BY StepKeepsIInv DEF IInv, TypeOK, Deck, Threads
    <2> QED
      BY <1>t, <2>1, <2>2 DEF ReadHonest
  <1>3. CASE ServeCold(r)
    <2>1. /\ pc[r] = "cold" /\ held'[r].saw = held[r].saw /\ held'[r].epoch = coldDeck
      BY <1>3, <1>t DEF ServeCold, At, Hold, DeckOf, TypeOK
    <2>2. ~torn => coldDeck >= asked[r].published
      BY <1>t, <2>1 DEF Reads, ReadHonest, Promise, ColdKept, Complete
    <2> QED
      BY <1>t, <2>1, <2>2 DEF ReadHonest, At
  <1>4. CASE PickDeck(r)
    <2>1. /\ pc[r] = "pick" /\ user[r] \in Users
      BY <1>4, <1>t DEF PickDeck, At, UserKnown, ForUser
    <2>2. PICK deck : deck = IF decks[user[r]] = NoDeck THEN DeckOf(NoVersion, 0, coldDeck)
                                                        ELSE decks[user[r]]
      OBVIOUS
    <2>3. held'[r] = deck /\ deck.version >= ver[r]
      <3>1. /\ held'[r] = deck
            /\ \/ pc'[r] = "trigger"
               \/ deck.version >= ver[r]
        BY <1>4, <1>t, <2>2 DEF PickDeck, Hold, CallTrigger, Go, TypeOK
      <3> QED
        BY <1>t, <3>1
    <2>4. Promise(user[r], ver[r], asked[r].counted, asked[r].published)
      BY <1>t, <2>1 DEF ReadHonest
    <2>5. deck = decks[user[r]]
      <3>1. ver[r] > 0 /\ DeckOf(NoVersion, 0, coldDeck).version = 0
        BY <1>t, <2>4 DEF Promise, Versions, DeckOf, NoVersion
      <3>2. deck # DeckOf(NoVersion, 0, coldDeck)
        BY <1>t, <2>3, <3>1
      <3> QED
        BY <2>2, <3>2
    <2> QED
      BY <2>3, <2>4, <2>5 DEF Promise
  <1>5. CASE RequestStep(r) /\ ~ServeCold(r) /\ ~PickDeck(r)
    <2>1. pc'[r] \in {"votes", "trigger", "drop", "pick", "cold", "bump", "repeated", "ack", "idle"}
      <3>t. pc \in [Threads -> Labels] /\ r \in Threads
        BY <1>t DEF TypeOK
      <3>1. CASE Upsert(r) \/ Clear(r) \/ Repeat(r) \/ \E u \in Users : StartRead(r, u)
        BY ONLY <3>t, <3>1 DEF Upsert, Clear, Write, Repeat, StartRead, Begin, Go
      <3>2. CASE BumpUser(r) \/ AnswerRepeat(r) \/ Ack(r)
        BY ONLY <3>t, <3>2 DEF BumpUser, AnswerRepeat, Ack, End, CallTrigger, Go
      <3>3. CASE ReadVotes(r) \/ DropDeck(r) \/ Serve(r)
        BY ONLY <3>t, <3>3 DEF ReadVotes, DropDeck, Serve, End, Go
      <3> QED
        BY <1>5, <3>1, <3>2, <3>3 DEF RequestStep, VoteStep, ReadStep
    <2> QED
      BY <1>t, <2>1
  <1> QED
    BY <1>1, <1>2, <1>3, <1>4, <1>5

-----------------------------------------------------------------------------
(* Warms on the way.  A queued warm must be newer than the deck to count: a *)
(* job for an older version would end at CheckDeck.                         *)
BringsNewer(p, u) ==
  \/ At(p, "trigger")
  \/ pc[p] \in {"compare", "enqueue"} /\ ver[p] > decks[u].version
  \/ p \in Workers /\ pc[p] \in Labelled \union {"label"}
  \/ p \in Workers /\ At(p, "check") /\ ver[p] > decks[u].version

NewerOnTheWay(u) ==
  \/ pending[u] > decks[u].version
  \/ \E p \in Threads : user[p] = u /\ BringsNewer(p, u)
  \/ \E p \in Publishers : u \in todo[p]

StaleDecksMove ==
  \A u \in Cached \ failed : decks[u].version < Current(u) => NewerOnTheWay(u)

LEMMA InitStaleDecksMove == ASSUME Init PROVE StaleDecksMove
  BY DEF Init, StaleDecksMove, Cached

(* Who is not the thread that moves stays on its way.                       *)
LEMMA OthersStayOnTheWay ==
  ASSUME IInv, NEW p \in Threads, Alone(p), NEW u \in Users, decks'[u] = decks[u],
         NEW q \in Threads \ {p}, user[q] = u, BringsNewer(q, u)
  PROVE  NewerOnTheWay(u)'
  <1>1. user'[q] = u /\ BringsNewer(q, u)'
    BY DEF Alone, BringsNewer, At
  <1> QED
    BY <1>1 DEF NewerOnTheWay

LEMMA RequestKeepsMoving ==
  ASSUME IInv, StaleDecksMove, NEW r \in Requests, RequestStep(r), NEW u \in Users,
         u \in Cached' \ failed', decks'[u].version < Current(u)'
  PROVE  NewerOnTheWay(u)'
  <1>t. TypeOK /\ UserKnown /\ r \in Threads /\ r \notin Workers
    BY ThreadsAssumption DEF IInv, Threads
  <1>1. /\ Alone(r) /\ pc[r] \notin {"trigger", "compare", "enqueue"}
        /\ gen' = gen /\ pending' = pending /\ todo' = todo
        /\ u \in Cached \ failed /\ decks'[u] = decks[u]
    BY <1>t, RequestEffect DEF Cached, queue
  <1>2. CASE decks[u].version < Current(u)
    <2>1. ~BringsNewer(r, u)
      BY <1>t, <1>1 DEF BringsNewer, At
    <2>2. NewerOnTheWay(u)
      BY <1>1, <1>2 DEF StaleDecksMove
    <2> QED
      BY <1>t, <1>1, <2>1, <2>2, OthersStayOnTheWay DEF NewerOnTheWay
  <1>3. CASE ~(decks[u].version < Current(u))
    <2>1. BumpUser(r) /\ u = user[r]
      <3>1. bumps'[u] # bumps[u]
        BY <1>1, <1>3 DEF Current
      <3>2. CASE BumpUser(r)
        BY <1>t, <3>1, <3>2 DEF BumpUser, TypeOK
      <3>3. CASE ~BumpUser(r)
        BY <3>1, <3>3 DEF RequestStep, VoteStep, ReadStep, Upsert, Clear, Write, Repeat, StartRead,
           AnswerRepeat, Ack, ReadVotes, DropDeck, ServeCold, PickDeck, Serve
      <3> QED
        BY <3>2, <3>3
    <2>2. At(r, "trigger")' /\ user'[r] = u
      BY <1>t, <2>1 DEF BumpUser, CallTrigger, Go, At, TypeOK
    <2> QED
      BY <1>t, <2>2 DEF NewerOnTheWay, BringsNewer
  <1> QED
    BY <1>2, <1>3

LEMMA PublisherKeepsMoving ==
  ASSUME IInv, StaleDecksMove, NEW p \in Publishers, PublisherStep(p), NEW u \in Users,
         u \in Cached' \ failed', decks'[u].version < Current(u)'
  PROVE  NewerOnTheWay(u)'
  <1>t. TypeOK /\ p \in Threads /\ p \notin Workers
    BY ThreadsAssumption DEF IInv, Threads
  <1>1. /\ Alone(p) /\ pc[p] \notin {"trigger", "compare", "enqueue"}
        /\ bumps' = bumps /\ pending' = pending /\ decks' = decks /\ u \in Cached \ failed
    BY <1>t, PublisherEffect DEF Cached, queue, deckVars
  <1>2. CASE BumpGeneration(p)
    <2>1. u \in todo'[p]
      BY <1>t, <1>1, <1>2 DEF BumpGeneration, TypeOK
    <2> QED
      BY <2>1 DEF NewerOnTheWay
  <1>3. CASE ~BumpGeneration(p)
    <2>1. gen' = gen
      BY <1>3 DEF PublisherStep, PublishStep, Ingest, InvalidatePool, GetPool, StorePool, SetColdDeck,
                  PublishFails, WarmCached, EndPublish
    <2>2. NewerOnTheWay(u) /\ ~BringsNewer(p, u)
      BY <1>t, <1>1, <2>1 DEF StaleDecksMove, Current, BringsNewer, At
    <2>3. CASE pending[u] > decks[u].version \/ \E q \in Threads : user[q] = u /\ BringsNewer(q, u)
      BY <1>t, <1>1, <2>2, <2>3, OthersStayOnTheWay DEF NewerOnTheWay
    <2>4. CASE \E q \in Publishers : u \in todo[q]
      <3>1. PICK q \in Publishers : u \in todo[q]
        BY <2>4
      <3>2. CASE u \in todo'[q]
        BY <3>2 DEF NewerOnTheWay
      <3>3. CASE u \notin todo'[q]
        <4>1. WarmCached(p)
          <5>1. ~PublishFails(p)
            BY <1>t, <3>1, <3>3 DEF PublishFails, TypeOK
          <5> QED
            BY <1>3, <3>1, <3>3, <5>1 DEF PublisherStep, PublishStep, Ingest, InvalidatePool, GetPool,
                      StorePool, SetColdDeck, EndPublish
        <4>2. At(p, "trigger")' /\ user'[p] = u
          BY <1>t, <3>1, <3>3, <4>1 DEF WarmCached, CallTrigger, Go, At, TypeOK
        <4> QED
          BY <1>t, <4>2 DEF NewerOnTheWay, BringsNewer
      <3> QED
        BY <3>2, <3>3
    <2> QED
      BY <2>2, <2>3, <2>4 DEF NewerOnTheWay
  <1> QED
    BY <1>2, <1>3

(* _trigger_warm drops a request only when the deck has its version, or     *)
(* when the running job was started for one at least as new: that job has   *)
(* stored such a deck, or is still going to.                                *)
LEMMA TriggerKeepsMoving ==
  ASSUME IInv, IInv', Jobs, StaleDecksMove, NEW p \in Threads, TriggerWarm(p), NEW u \in Users,
         u \in Cached' \ failed', decks'[u].version < Current(u)'
  PROVE  NewerOnTheWay(u)'
  <1>t. TypeOK /\ TypeOK' /\ user[p] \in Users
    BY TriggerEffect DEF IInv, UserKnown, ForUser
  <1>1. /\ Alone(p) /\ gen' = gen /\ bumps' = bumps /\ decks' = decks /\ u \in Cached \ failed
        /\ todo' = todo /\ user' = user /\ running' = running /\ back' = back
        /\ pc[p] \in {"trigger", "compare", "enqueue"}
        /\ pc'[p] \in {"compare", "enqueue", back[p]}
    BY TriggerEffect DEF IInv, Cached, deckVars, history, overlap
  <1>2. NewerOnTheWay(u) /\ decks[u].version < Current(u)
    BY <1>1 DEF StaleDecksMove, Current
  <1>n. /\ decks[u].version \in Nat /\ Current(u) \in Nat /\ ver[p] \in Nat
        /\ pending[u] \in Nat /\ running[u] \in Nat
    BY <1>t DEF TypeOK, Deck, Versions, Current
  <1>3. CASE \E q \in Threads \ {p} : user[q] = u /\ BringsNewer(q, u)
    BY <1>1, <1>3, OthersStayOnTheWay
  <1>4. CASE \E q \in Publishers : u \in todo[q]
    BY <1>1, <1>4 DEF NewerOnTheWay
  <1>5. CASE pending[u] > decks[u].version
    <2>1. pending'[u] >= pending[u] /\ pending'[u] \in Nat
      <3>1. CASE Enqueue(p)
        <4>1. CASE pending' = pending
          BY <1>n, <4>1
        <4>2. CASE pending' = [pending EXCEPT ![user[p]] = Queue!Newest(@, ver[p])]
          <5>1. pending'[u] = pending[u] \/ pending'[u] = Queue!Newest(pending[u], ver[p])
            BY <1>t, <4>2 DEF TypeOK
          <5> QED
            BY <1>n, <5>1 DEF Queue!Newest
        <4> QED
          BY <3>1, <4>1, <4>2 DEF Enqueue, Queue!Request
      <3>2. CASE RaiseVersion(p) \/ CompareDeck(p)
        BY <1>n, <3>2 DEF RaiseVersion, CompareDeck, queue
      <3> QED
        BY <3>1, <3>2 DEF TriggerWarm
    <2> QED
      BY <1>1, <1>n, <1>5, <2>1 DEF NewerOnTheWay
  <1>6. CASE user[p] = u /\ BringsNewer(p, u)
    <2>1. CASE RaiseVersion(p)
      <3>1. pc'[p] = "compare" /\ ver'[p] > decks[u].version
        BY <1>t, <1>2, <1>n, <1>6, <2>1 DEF RaiseVersion, Newest, Go, TypeOK
      <3> QED
        BY <1>1, <1>6, <3>1 DEF NewerOnTheWay, BringsNewer
    <2>2. CASE CompareDeck(p)
      <3>1. pc[p] = "compare" /\ ver[p] > decks[u].version /\ ver' = ver
        BY <1>6, <2>2 DEF CompareDeck, BringsNewer, At, Labelled, call
      <3>2. pc'[p] = "enqueue"
        BY <1>t, <1>n, <1>6, <2>2, <3>1 DEF CompareDeck, Go, TypeOK
      <3> QED
        BY <1>1, <1>6, <3>1, <3>2 DEF NewerOnTheWay, BringsNewer
    <2>3. CASE Enqueue(p)
      <3>1. ver[p] > decks[u].version /\ pc[p] = "enqueue"
        BY <1>6, <2>3 DEF Enqueue, BringsNewer, At, Labelled
      <3>2. CASE ~Queue!Covered(u, ver[p])
        <4>1. pending'[u] = Queue!Newest(pending[u], ver[p])
          BY <1>t, <1>6, <2>3, <3>2 DEF Enqueue, Queue!Request, TypeOK
        <4>2. pending'[u] > decks[u].version
          BY <1>n, <3>1, <4>1 DEF Queue!Newest
        <4> QED
          BY <1>1, <4>2 DEF NewerOnTheWay
      <3>3. CASE Queue!Covered(u, ver[p])
        <4>1. running[u] > decks[u].version /\ running[u] # NoVersion
          BY <1>n, <3>1, <3>3 DEF Queue!Covered, NoVersion
        <4>2. PICK w \in Workers : ~At(w, "idle") /\ user[w] = u
          BY <4>1 DEF Jobs, JobAlone
        <4>3. pc[w] \notin Past
          <5>1. pc[w] \in Past => decks[u].version >= running[u]
            BY <1>1, <4>2 DEF Jobs, JobVersion
          <5> QED
            BY <1>n, <4>1, <5>1
        <4>4. w # p /\ w \in Threads
          BY <1>1, <4>3 DEF Past, Threads
        <4>5. pc[w] \in WorkerLabels
          BY DEF Jobs, JobPlaced
        <4>6. BringsNewer(w, u)
          <5>1. ver[w] \in Nat /\ (At(w, "check") => ver[w] >= running[u])
            BY <1>t, <4>2, <4>4 DEF Jobs, JobVersion, At, TypeOK
          <5> QED
            BY <1>n, <4>1, <4>2, <4>3, <4>5, <5>1 DEF BringsNewer, WorkerLabels, Past, Labelled, At
        <4> QED
          BY <1>1, <4>2, <4>4, <4>6, OthersStayOnTheWay
      <3> QED
        BY <3>2, <3>3
    <2> QED
      BY <2>1, <2>2, <2>3 DEF TriggerWarm
  <1> QED
    BY <1>2, <1>3, <1>4, <1>5, <1>6 DEF NewerOnTheWay

(* A worker ends its job only with a deck as new as the job, or failing.    *)
LEMMA WorkerKeepsMoving ==
  ASSUME IInv, IInv', Jobs, StaleDecksMove, NEW w \in Workers, WarmStep(w), NEW u \in Users,
         u \in Cached' \ failed', decks'[u].version < Current(u)'
  PROVE  NewerOnTheWay(u)'
  <1>t. TypeOK /\ TypeOK' /\ w \in Threads /\ (~At(w, "idle") => user[w] \in Users)
    BY DEF IInv, UserKnown, Threads
  <1>1. /\ Alone(w) /\ gen' = gen /\ bumps' = bumps /\ todo' = todo
        /\ pc[w] \notin {"trigger", "compare", "enqueue"}
    BY WorkerEffect DEF IInv
  <1>n. /\ decks[u].version \in Nat /\ Current(u) \in Nat /\ ver[w] \in Nat /\ pending[u] \in Nat
    BY <1>t DEF TypeOK, Deck, Versions, Current
  <1>2. CASE StoreDeck(w) /\ u = user[w]
    <2>1. At(w, "trigger")' /\ user'[w] = u
      BY <1>t, <1>2 DEF StoreDeck, CallTrigger, Go, At, TypeOK
    <2> QED
      BY <1>t, <2>1 DEF NewerOnTheWay, BringsNewer
  <1>3. CASE ~(StoreDeck(w) /\ u = user[w])
    <2>1. decks'[u] = decks[u] /\ u \in Cached \ failed
      <3>1. CASE StoreDeck(w)
        <4>1. decks'[u] = decks[u] \/ decks'[u] = NoDeck
          BY <1>3, <3>1 DEF StoreDeck
        <4>2. u \notin failed
          BY <1>3, <3>1 DEF StoreDeck
        <4> QED
          BY <4>1, <4>2 DEF Cached
      <3>2. CASE ~StoreDeck(w)
        <4>1. decks' = decks /\ failed \subseteq failed'
          BY <3>2 DEF WarmStep, TakeJob, CheckDeck, LabelDeck, ReadFeedback, RankCold, GetPool, StorePool,
                      RankFails, FinishJob, deckVars, history, overlap
        <4> QED
          BY <4>1 DEF Cached
      <3> QED
        BY <3>1, <3>2
    <2>2. NewerOnTheWay(u) /\ decks[u].version < Current(u)
      BY <1>1, <2>1 DEF StaleDecksMove, Current
    <2>3. CASE \E q \in Threads \ {w} : user[q] = u /\ BringsNewer(q, u)
      BY <1>1, <1>t, <2>1, <2>3, OthersStayOnTheWay
    <2>4. CASE \E p \in Publishers : u \in todo[p]
      BY <1>1, <2>4 DEF NewerOnTheWay
    <2>5. CASE pending[u] > decks[u].version
      <3>1. CASE pending'[u] = pending[u]
        BY <2>1, <2>5, <3>1 DEF NewerOnTheWay
      <3>2. CASE pending'[u] # pending[u]
        <4>1. TakeJob(w)
          BY <3>2 DEF WarmStep, CheckDeck, LabelDeck, ReadFeedback, RankCold, GetPool, StorePool,
                      RankFails, StoreDeck, FinishJob, Queue!Finish, queue
        <4>2. PICK v \in Users : Queue!Take(v) /\ Begin(w, v, "check", pending[v])
          BY <4>1 DEF TakeJob
        <4>3. v = u
          BY <1>t, <3>2, <4>2 DEF Queue!Take, TypeOK
        <4>4. pc'[w] = "check" /\ user'[w] = u /\ ver'[w] = pending[u]
          BY <1>t, <4>2, <4>3 DEF Begin, Go, TypeOK
        <4> QED
          BY <1>t, <2>1, <2>5, <4>4 DEF NewerOnTheWay, BringsNewer, At
      <3> QED
        BY <3>1, <3>2
    <2>6. CASE user[w] = u /\ BringsNewer(w, u)
      <3>1. pc[w] \in Labelled \union {"label"} \/ (At(w, "check") /\ ver[w] > decks[u].version)
        BY <1>1, <2>6 DEF BringsNewer, At
      <3>2. user'[w] = u /\ pc'[w] \in Labelled \union {"label"}
        <4> USE <1>t, <1>3, <1>n, <2>6, <3>1 DEF Labelled, At, Go, call, TypeOK
        <4>1. CASE CheckDeck(w)
          BY <4>1, SMTT(30) DEF CheckDeck
        <4>2. CASE LabelDeck(w) \/ ReadFeedback(w) \/ RankCold(w)
          BY <4>2, SMTT(30) DEF LabelDeck, ReadFeedback, RankCold
        <4>3. CASE GetPool(w, "store") \/ StorePool(w, "store")
          BY <4>3, SMTT(30) DEF GetPool, UsePool, BuildPool, StorePool
        <4>4. CASE TakeJob(w) \/ FinishJob(w)
          BY <4>4, SMTT(30) DEF TakeJob, Begin, FinishJob
        <4>5. CASE RankFails(w)
          <5>1. u \in failed'
            BY <4>5 DEF RankFails
          <5> QED
            BY <5>1
        <4>6. CASE StoreDeck(w)
          BY <4>6
        <4> QED
          BY <4>1, <4>2, <4>3, <4>4, <4>5, <4>6 DEF WarmStep
      <3> QED
        BY <1>t, <3>2 DEF NewerOnTheWay, BringsNewer
    <2> QED
      BY <2>2, <2>3, <2>4, <2>5, <2>6 DEF NewerOnTheWay
  <1> QED
    BY <1>2, <1>3

LEMMA StepKeepsMoving ==
  ASSUME IInv, IInv', Jobs, StaleDecksMove, [Next]_vars PROVE StaleDecksMove'
  <1> SUFFICES ASSUME NEW u \in Users, u \in Cached' \ failed', decks'[u].version < Current(u)'
               PROVE  NewerOnTheWay(u)'
    BY DEF StaleDecksMove, Cached
  <1>1. CASE UNCHANGED vars
    BY <1>1 DEF vars, StaleDecksMove, NewerOnTheWay, BringsNewer, At, Cached, Current, queue, call,
                history, overlap, deckVars
  <1>2. CASE Restart
    BY <1>2 DEF Restart, Cached
  <1> QED
    BY <1>1, <1>2, StepOfSomeone, RequestKeepsMoving, PublisherKeepsMoving, TriggerKeepsMoving,
       WorkerKeepsMoving

-----------------------------------------------------------------------------
(* The whole invariant.                                                     *)
Inv == IInv /\ Jobs /\ Answers /\ Reads /\ StaleDecksMove

(* It holds in every reachable state.                                       *)
THEOREM Invariance == Spec => []Inv
  <1>1. Init => Inv
    BY InitIInv, InitJobs, InitAnswers, InitReads, InitStaleDecksMove DEF Inv
  <1>2. Inv /\ [Next]_vars => Inv'
    BY StepKeepsIInv, StepKeepsJobs, StepKeepsAnswers, StepKeepsReads, StepKeepsMoving DEF Inv
  <1> QED
    BY <1>1, <1>2, PTL DEF Spec

(* Every variable keeps its type, for any numbers of users and threads and  *)
(* any bounds.                                                              *)
THEOREM TypeCorrect == Spec => []TypeOK
  BY Invariance, PTL DEF Inv, IInv

(* The label of a deck is honest: a deck of the current version was ranked  *)
(* from every vote and story change that version counts.                    *)
THEOREM LabelHonest == Spec => []FreshDeckIsFresh
  BY Invariance, PTL DEF Inv, IInv

(* Nothing is labelled, queued or built ahead of its user's version.        *)
THEOREM NothingAhead == Spec => []NoVersionAhead
  BY Invariance, PTL DEF Inv, IInv

(* The version _handle_flask_feedback answers with is one whose decks       *)
(* contain the vote, however bumps, warms, repeats and restarts interleave. *)
THEOREM AnswersAreKept == Spec => []AckedVoteReachesDeck
  <1>1. Inv => AckedVoteReachesDeck
    BY DEF Inv, Answers, AnswerKept, Promise, AckedVoteReachesDeck
  <1> QED
    BY <1>1, Invariance, PTL

(* No client waits for a version its user has not reached, not even after a *)
(* restart has put the counters back.                                       *)
THEOREM AnswersAreReached == Spec => []TargetsReachable
  <1>1. Inv => TargetsReachable
    BY DEF Inv, Answers, AnswerKept, TargetsReachable
  <1> QED
    BY <1>1, Invariance, PTL

(* _deck_for_user: a view picked as ready has all that was published before *)
(* the read began, for any number of publishers; only a cold deck put over  *)
(* a newer one by a publisher that had its pool before may miss stories.    *)
THEOREM ReadyIsFresh == Spec => ReadyViewIsFresh
  <1>1. Inv /\ [Next]_vars =>
          [\A r \in Requests :
             ~At(r, "serve") /\ At(r, "serve")' /\ ViewReady(r)' =>
               /\ held'[r].saw >= asked[r].counted
               /\ \/ held'[r].epoch >= asked[r].published
                  \/ At(r, "cold") /\ torn]_vars
    BY ReadyAtPick DEF Inv
  <1> QED
    BY <1>1, Invariance, PTL DEF Spec, ReadyViewIsFresh

(* No cached deck is left behind: whoever made it stale sees to its next    *)
(* warm, and the queue drops a request only for a job that brings as much.  *)
THEOREM NothingForgotten == Spec => []NoForgottenDeck
  <1>1. Inv => NoForgottenDeck
    <2> SUFFICES ASSUME Inv, NEW u \in Cached \ failed, decks[u].version < Current(u)
                 PROVE  WarmOnTheWay(u)
      BY DEF NoForgottenDeck
    <2>1. NewerOnTheWay(u) /\ u \in Users
      BY DEF Inv, StaleDecksMove, Cached
    <2>2. decks[u].version \in Nat /\ pending[u] \in Nat
      BY <2>1 DEF Inv, IInv, TypeOK, Deck
    <2> QED
      BY <2>1, <2>2 DEF NewerOnTheWay, BringsNewer, WarmOnTheWay, Labelled, NoVersion
  <1> QED
    BY <1>1, Invariance, PTL

(* _run_warm_attempt never puts an older deck over a newer one.             *)
THEOREM DecksOnlyGrow == Spec => DeckNeverOlder
  <1>1. Inv /\ [Next]_vars => [\A u \in Users : decks'[u] # NoDeck =>
                                  decks'[u].version >= decks[u].version]_vars
    BY StepNeverOlder DEF Inv
  <1> QED
    BY <1>1, Invariance, PTL DEF Spec, DeckNeverOlder
=============================================================================
