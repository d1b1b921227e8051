--------------------------- MODULE HnDupesProofs ---------------------------
(***************************************************************************)
(* What holds of the duplicate worker for any pool, any Hacker News, and   *)
(* any number of regenerations, failures and restarts.                     *)
(***************************************************************************)
EXTENDS HnDupes, TLAPS

\* "Persist target first": the outcome whose resolution is written next has
\* its canonical story in the database.
TargetFirst ==
  worker = "row" => results # <<>> /\ results[1].target \in stored \cup {NoStory}

Inv == TypeOK /\ NoSnapshotStranded /\ TargetFirst /\ CanonicalStored

-----------------------------------------------------------------------------
\* _get_item returns an item, cached or not.
LEMMA ItemType ==
  ASSUME TypeOK, NEW s \in Stories
  PROVE  Item(s) \in Posts
BY StoriesAssumption DEF TypeOK, Item

\* The outcome of a resolution has its type and is of the story asked for.
LEMMA OutcomeType ==
  ASSUME TypeOK, NEW s \in Stories, NEW t \in Stories \cup {NoStory}
  PROVE  OutcomeOf(s, t) \in Results
<1>1. t # NoStory => Item(t) \in Posts
  BY ItemType
<1>2. t # NoStory => Item(t).live \in BOOLEAN
  BY <1>1 DEF Posts
<1> QED
  BY <1>2 DEF OutcomeOf, Results

\* The story found canonical is a story.
LEMMA TargetType ==
  ASSUME TypeOK, NEW s \in Stories, NEW t \in Chosen(s)
  PROVE  t \in Stories \cup {NoStory}
<1>1. Targets(s) \subseteq Stories
  BY ItemType DEF Targets, Posts
<1> QED
  BY <1>1 DEF Chosen, Best, TypeOK

\* What is cached after reads are items.
LEMMA ItemsType ==
  ASSUME TypeOK, NEW S
  PROVE  [t \in Stories |-> IF t \in S THEN Item(t) ELSE items[t]]
           \in [Stories -> Posts \cup {NotKnown}]
BY ItemType DEF TypeOK

-----------------------------------------------------------------------------
\* The caches of a resolver that has just been started.
LEMMA NothingKnown ==
  /\ [s \in Stories |-> NotKnown] \in [Stories -> Posts \cup {NotKnown}]
  /\ [s \in Stories |-> NotKnown] \in [Stories -> Stories \cup {NoStory, NotKnown}]
  /\ [s \in Stories |-> NotKnown] \in [Stories -> Resolutions \cup {NotKnown}]
  /\ <<>> \in Seq(Results)
OBVIOUS

LEMMA InitInv == Init => Inv
<1> SUFFICES ASSUME Init PROVE Inv
  OBVIOUS
<1>1. TypeOK
  <2>1. counts \in [{"submits", "moves", "expiries", "faults"} -> Nat]
    BY DEF Init
  <2> QED
    BY <2>1, NothingKnown, StoriesAssumption DEF Init, TypeOK
<1>2. NoSnapshotStranded /\ TargetFirst /\ CanonicalStored
  BY DEF Init, NoSnapshotStranded, TargetFirst, CanonicalStored
<1> QED
  BY <1>1, <1>2 DEF Inv

\* Every step keeps the invariant.
LEMMA StepInv == Inv /\ [Next]_vars => Inv'
<1> SUFFICES ASSUME Inv, [Next]_vars PROVE Inv'
  OBVIOUS
<1> USE DEF Inv, thread, caches
<1>1. CASE Submit
  BY <1>1 DEF Submit, Count, TypeOK, NoSnapshotStranded, TargetFirst, CanonicalStored
<1>2. CASE Take
  BY <1>2 DEF Take, TypeOK, NoSnapshotStranded, TargetFirst, CanonicalStored
<1>3. CASE TakeOrEnd
  BY <1>3 DEF TakeOrEnd, TypeOK, NoSnapshotStranded, TargetFirst, CanonicalStored
<1>4. ASSUME NEW s \in Stories, Resolve(s) PROVE Inv'
  <2>1. PICK t \in Chosen(s) :
          /\ memo' = [memo EXCEPT ![s] = t]
          /\ results' = Append(results, OutcomeOf(s, t))
    BY <1>4 DEF Resolve
  <2>2. t \in Stories \cup {NoStory}
    BY <2>1, TargetType
  <2>3. OutcomeOf(s, t) \in Results
    BY <2>2, OutcomeType
  <2>4. results' \in Seq(Results) /\ memo' \in [Stories -> Stories \cup {NoStory, NotKnown}]
    BY <2>1, <2>2, <2>3 DEF TypeOK
  <2>5. items' \in [Stories -> Posts \cup {NotKnown}]
    BY <1>4, ItemsType DEF Resolve
  <2>6. TypeOK'
    BY <1>4, <2>4, <2>5 DEF Resolve, TypeOK
  <2>7. results # <<>> => results' # <<>> /\ results'[1] = results[1]
    BY <2>1, <2>3 DEF TypeOK
  <2>8. TargetFirst'
    BY <1>4, <2>7 DEF Resolve, TargetFirst
  <2> QED
    BY <1>4, <2>6, <2>8 DEF Resolve, NoSnapshotStranded, CanonicalStored
<1>5. ASSUME NEW s \in Stories, ResolveFails(s) PROVE Inv'
  <2>1. results' = Append(results, [source |-> s, status |-> "retry", target |-> NoStory])
    BY <1>5 DEF ResolveFails
  <2>2. [source |-> s, status |-> "retry", target |-> NoStory] \in Results
    BY DEF Results
  <2>3. results' \in Seq(Results)
    BY <2>1, <2>2 DEF TypeOK
  <2>4. items' \in [Stories -> Posts \cup {NotKnown}]
    BY <1>5, ItemsType DEF ResolveFails
  <2>8. memo' \in [Stories -> Stories \cup {NoStory, NotKnown}]
    <3>1. CASE UNCHANGED memo
      BY <3>1 DEF TypeOK
    <3>2. ASSUME NEW target \in Chosen(s) \ {NoStory}, memo' = [memo EXCEPT ![s] = target]
          PROVE  memo' \in [Stories -> Stories \cup {NoStory, NotKnown}]
      <4>1. target \in Stories \cup {NoStory}
        BY <3>2, TargetType
      <4> QED
        BY <3>2, <4>1 DEF TypeOK
    <3> QED
      BY <1>5, <3>1, <3>2 DEF ResolveFails
  <2>9. counts' \in [{"submits", "moves", "expiries", "faults"} -> Nat]
    BY <1>5 DEF ResolveFails, Count, TypeOK
  <2>5. TypeOK'
    BY <1>5, <2>3, <2>4, <2>8, <2>9 DEF ResolveFails, TypeOK
  <2>6. results # <<>> => results' # <<>> /\ results'[1] = results[1]
    BY <2>1, <2>2 DEF TypeOK
  <2>7. TargetFirst'
    BY <1>5, <2>6 DEF ResolveFails, TargetFirst
  <2> QED
    BY <1>5, <2>5, <2>7 DEF ResolveFails, NoSnapshotStranded, CanonicalStored
<1>6. ASSUME NEW s \in Stories, Expire(s) PROVE Inv'
  <2>1. TypeOK'
    <3>1. counts' \in [{"submits", "moves", "expiries", "faults"} -> Nat]
      BY <1>6 DEF Expire, Count, TypeOK
    <3>2. /\ items' \in [Stories -> Posts \cup {NotKnown}]
          /\ memo' \in [Stories -> Stories \cup {NoStory, NotKnown}]
          /\ due' \subseteq Stories
      BY <1>6 DEF Expire, TypeOK
    <3> QED
      BY <1>6, <3>1, <3>2 DEF Expire, TypeOK
  <2>2. UNCHANGED <<stored, rows, pending, active, worker, results>>
    BY <1>6 DEF Expire
  <2> QED
    BY <2>1, <2>2 DEF NoSnapshotStranded, TargetFirst, CanonicalStored
<1>7. CASE StoreTarget
  <2>1. results[1] \in Results
    BY <1>7 DEF StoreTarget, TypeOK
  <2>2. TypeOK'
    BY <1>7, <2>1 DEF StoreTarget, TypeOK, Results
  <2> QED
    BY <1>7, <2>2 DEF StoreTarget, NoSnapshotStranded, TargetFirst, CanonicalStored
<1>8. CASE StoreRow
  <2> DEFINE r == results[1]
  <2>1. /\ rows' = [rows EXCEPT ![r.source] = [status |-> r.status, target |-> r.target]]
        /\ due' = due \ {r.source}
    BY <1>8 DEF StoreRow
  <2>2. r \in Results /\ r.target \in stored \cup {NoStory}
    BY <1>8 DEF StoreRow, TypeOK, TargetFirst
  <2>3. Tail(results) \in Seq(Results)
    BY <1>8 DEF StoreRow, TypeOK, TargetFirst
  <2>4. [status |-> r.status, target |-> r.target] \in Resolutions /\ r.source \in Stories
    BY <2>2 DEF Results, Resolutions
  <2>5. TypeOK'
    BY <1>8, <2>1, <2>3, <2>4 DEF StoreRow, TypeOK
  <2>6. CanonicalStored'
    BY <1>8, <2>1, <2>2, <2>4 DEF StoreRow, TypeOK, CanonicalStored
  <2> QED
    BY <1>8, <2>5, <2>6 DEF StoreRow, NoSnapshotStranded, TargetFirst
<1>9. CASE EndBatch
  BY <1>9 DEF EndBatch, TypeOK, NoSnapshotStranded, TargetFirst, CanonicalStored
<1>10. CASE WriteFails
  BY <1>10 DEF WriteFails, Count, TypeOK, NoSnapshotStranded, TargetFirst, CanonicalStored
<1>11. CASE Move
  BY <1>11 DEF Move, Count, TypeOK, NoSnapshotStranded, TargetFirst, CanonicalStored
<1>12. CASE Restart
  <2>1. counts' \in [{"submits", "moves", "expiries", "faults"} -> Nat]
    BY <1>12 DEF Restart, Count, TypeOK
  <2>2. TypeOK'
    BY <1>12, <2>1, NothingKnown DEF Restart, TypeOK
  <2> QED
    BY <1>12, <2>2 DEF Restart, NoSnapshotStranded, TargetFirst, CanonicalStored
<1>13. CASE UNCHANGED vars
  BY <1>13 DEF vars, TypeOK, NoSnapshotStranded, TargetFirst, CanonicalStored
<1> QED
  BY <1>1, <1>2, <1>3, <1>4, <1>5, <1>6, <1>7, <1>8, <1>9, <1>10, <1>11, <1>12, <1>13
  DEF Next

LEMMA InvHolds == Spec => []Inv
BY InitInv, StepInv, PTL DEF Spec

\* Types are kept, whatever the items and the order of the answers.
THEOREM TypeCorrect == Spec => []TypeOK
BY InvHolds, PTL DEF Inv

\* submit and the worker's last look share a lock, so no snapshot is left
\* without a thread, and no second thread is started beside one.
THEOREM SnapshotTaken == Spec => []NoSnapshotStranded
BY InvHolds, PTL DEF Inv

\* A cached canonical story can be shown from the database alone, whichever
\* write failed and wherever the process died.
THEOREM TargetPersisted == Spec => []CanonicalStored
BY InvHolds, PTL DEF Inv
=============================================================================
