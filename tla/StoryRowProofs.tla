--------------------------- MODULE StoryRowProofs ---------------------------
(***************************************************************************)
(* What holds of a story's row for any number of writers, texts of any     *)
(* length and any number of changes of the discussion.                     *)
(***************************************************************************)
EXTENDS StoryRow, TLAPS

\* The text of a copy is the one composed of its fields.
Whole(story) == story.text = Composed(story.self, story.comments, story.body)

\* The comments, the marker and the count of a copy belong together: the
\* comments are of a known version, an HN marker is the count of that version,
\* and the best known count is never below the marker.
Belongs(story) ==
  /\ story.comments.version \in 0 .. Len(thread)
  /\ story.comments.length > 0 <=> story.comments.version > 0
  /\ source = "hn" /\ story.comments.length > 0 =>
       story.marker = thread[story.comments.version].count
  /\ story.count >= story.marker

Fits(story) == story \in Story /\ Whole(story) /\ Belongs(story)

\* A writer's copy belongs together however old it is.  Only the copy of a
\* body job, a ranking copy without texts, may have a text of other fields;
\* a pointer's copy is a note, and only RSS rows get contexts.
JobFits(j) ==
  /\ j \in Jobs
  /\ j.kind \notin {"none", "prewarmRead", "hot"} =>
       \/ j.story = Missing /\ j.kind = "ingest"
       \/ /\ j.story \in Story
          /\ Belongs(j.story)
          /\ j.kind # "body" => Whole(j.story)
  /\ j.kind \in {"follow", "followWrite"} => IsNote(j.story.comments)
  /\ j.kind = "context" => source = "rss"

Inv ==
  /\ TypeOK
  /\ Stored => Fits(row)
  /\ \A w \in Writers : JobFits(job[w])

-----------------------------------------------------------------------------
\* Max of two numbers.
LEMMA MaxOfTwo ==
  ASSUME NEW a \in Int, NEW b \in Int
  PROVE  Max({a, b}) = IF a >= b THEN a ELSE b
<1>1. PICK m \in {a, b} : m = IF a >= b THEN a ELSE b
  OBVIOUS
<1>2. \A y \in {a, b} : m >= y
  BY <1>1
<1>3. \A n \in {a, b} : (\A y \in {a, b} : n >= y) => n = m
  BY <1>2
<1> QED
  BY <1>1, <1>2, <1>3 DEF Max

\* A stored row is no missing row.
LEMMA MissingIsNoStory == Missing \notin Story
<1>1. DOMAIN Missing = {"missing"}
  BY DEF Missing
<1>2. \A s \in Story : DOMAIN s = {"self", "comments", "body", "text", "count", "marker"}
  BY DEF Story
<1>3. "missing" \notin {"self", "comments", "body", "text", "count", "marker"}
  OBVIOUS
<1> QED
  BY <1>1, <1>2, <1>3

\* The fields of a story.
LEMMA Fields ==
  ASSUME NEW s \in Story
  PROVE  /\ s.self \in TextLengths /\ s.body \in TextLengths
         /\ s.self \in Int /\ s.body \in Int
         /\ s.comments \in Comments /\ s.comments.length \in Nat
         /\ s.text \in Texts /\ s.count \in Nat /\ s.marker \in Nat
BY ConstantsAssumption DEF Story, Comments, TextLengths, Lengths

LEMMA LongerText ==
  ASSUME NEW a \in TextLengths, NEW b \in TextLengths
  PROVE  Max({a, b}) \in TextLengths /\ Max({a, b}) >= a /\ Max({a, b}) >= b
BY MaxOfTwo, ConstantsAssumption DEF TextLengths

LEMMA LargerCount ==
  ASSUME NEW a \in Nat, NEW b \in Nat
  PROVE  Max({a, b}) \in Nat /\ Max({a, b}) >= a /\ Max({a, b}) >= b
BY MaxOfTwo

\* What a composed text is made of.
LEMMA ComposedType ==
  ASSUME NEW a \in TextLengths, NEW c \in Comments, NEW b \in TextLengths
  PROVE  Composed(a, c, b) \in Texts
BY DEF Composed, Texts

LEMMA ElementType ==
  ASSUME NEW S, NEW s \in Seq(S), NEW i \in 1 .. Len(s)
  PROVE  s[i] \in S
OBVIOUS

\* Every version of the discussion has a count, and the comments taken from
\* it are of it.
LEMMA VersionType ==
  ASSUME TypeOK, NEW v \in Snapshots
  PROVE  /\ v \in 1 .. MaxVersions /\ v \in 1 .. Len(thread)
         /\ thread[v].count \in Nat
         /\ CommentsOf(v) \in Comments
         /\ CommentsOf(v).version \in {0, v}
         /\ CommentsOf(v).length > 0 <=> CommentsOf(v).version > 0
<1>1. v \in 1 .. MaxVersions /\ v \in 1 .. Len(thread)
  BY ConstantsAssumption DEF TypeOK, Snapshots
<1>2. thread[v] \in [count : Nat, length : Lengths, note : BOOLEAN]
  BY <1>1, ElementType DEF TypeOK
<1>3. CASE thread[v].length = 0
  BY <1>1, <1>2, <1>3, ConstantsAssumption DEF CommentsOf, NoComments, Comments, Lengths
<1>4. CASE thread[v].length # 0
  BY <1>1, <1>2, <1>4, ConstantsAssumption DEF CommentsOf, Comments, Lengths
<1> QED
  BY <1>1, <1>2, <1>3, <1>4

LEMMA LiveCountType ==
  ASSUME TypeOK
  PROVE  LiveCount \in Nat
<1>1. Len(thread) \in Snapshots
  BY DEF TypeOK, Snapshots
<1> QED
  BY <1>1, VersionType DEF LiveCount
-----------------------------------------------------------------------------
(* upsert_story                                                           *)

\* The fields a merge makes of a stored row and a writer's story.
LEMMA MergedFields ==
  ASSUME row \in Story, NEW s \in Story, NEW a \in BOOLEAN,
         NEW m, m = Merged(s, a)
  PROVE  /\ m \in Story
         /\ m.self >= row.self /\ m.body >= row.body
         /\ m.count >= row.count /\ m.count >= s.count
         /\ \/ m.comments = s.comments /\ m.marker = s.marker
               /\ (a \/ (s.marker >= row.marker /\ s.comments.length >= row.comments.length))
            \/ m.comments = row.comments /\ m.marker = row.marker /\ ~a
         /\ Whole(s) => Whole(m)
<1> DEFINE self == Max({s.self, row.self})
           body == Max({s.body, row.body})
           count == Max({s.count, row.count})
           takes == TakesComments(s, a)
           comments == IF takes THEN s.comments ELSE row.comments
           marker == IF takes THEN s.marker ELSE row.marker
           composed == Composed(self, comments, body)
           text == IF self # s.self \/ comments # s.comments \/ body # s.body
                     THEN composed ELSE s.text
<1>1. m = [self |-> self, comments |-> comments, body |-> body,
           text |-> text, count |-> count, marker |-> marker]
  BY DEF Merged
<1>2. /\ self \in TextLengths /\ self >= row.self
      /\ body \in TextLengths /\ body >= row.body
  BY Fields, LongerText
<1>3. count \in Nat /\ count >= row.count /\ count >= s.count
  BY Fields, LargerCount
<1>4. comments \in Comments /\ marker \in Nat
  BY Fields
<1>5. text \in Texts
  <2>1. composed \in Texts
    BY <1>2, <1>4, ComposedType
  <2> HIDE DEF self, body, comments, composed
  <2> QED
    BY <2>1, Fields
<1>6. \/ comments = s.comments /\ marker = s.marker
         /\ (a \/ (s.marker >= row.marker /\ s.comments.length >= row.comments.length))
      \/ comments = row.comments /\ marker = row.marker /\ ~a
  BY DEF TakesComments
<1>7. Whole(s) => text = composed
  BY DEF Whole
<1> HIDE DEF self, body, count, comments, marker, text
<1>8. m \in Story
  BY <1>1, <1>2, <1>3, <1>4, <1>5 DEF Story
<1>9. Whole(s) => Whole(m)
  BY <1>1, <1>7 DEF Whole
<1> QED
  BY <1>1, <1>2, <1>3, <1>6, <1>8, <1>9

\* Whatever the writer holds, the row that is left belongs together.
LEMMA UpsertedFits ==
  ASSUME TypeOK, Stored => Fits(row), NEW s, Fits(s), NEW a \in BOOLEAN,
         NEW m, m = Upserted(s, a)
  PROVE  Fits(m)
<1>1. CASE row = Missing
  BY <1>1 DEF Upserted
<1>2. CASE row # Missing
  <2>1. m = Merged(s, a) /\ row \in Story /\ s \in Story
    BY <1>2 DEF Upserted, Fits, TypeOK
  <2>2. m \in Story /\ Whole(m) /\ m.count >= row.count /\ m.count >= s.count
    BY <2>1, MergedFields DEF Fits
  <2>3. \/ m.comments = s.comments /\ m.marker = s.marker
        \/ m.comments = row.comments /\ m.marker = row.marker
    BY <2>1, MergedFields
  <2>4. Belongs(s) /\ Belongs(row)
    BY <1>2 DEF Fits, Stored
  <2>5. m.marker <= m.count
    BY <2>1, <2>2, <2>3, <2>4, Fields DEF Belongs
  <2>6. Belongs(m)
    <3>1. CASE m.comments = s.comments /\ m.marker = s.marker
      BY <2>4, <2>5, <3>1 DEF Belongs
    <3>2. CASE m.comments = row.comments /\ m.marker = row.marker
      BY <2>4, <2>5, <3>2 DEF Belongs
    <3> QED
      BY <2>3, <3>1, <3>2
  <2> QED
    BY <2>2, <2>6 DEF Fits
<1> QED
  BY <1>1, <1>2

-----------------------------------------------------------------------------
(* What each writer writes belongs together.                              *)

LEMMA CountRaisedFits ==
  ASSUME NEW s, Fits(s), NEW n \in Nat, NEW m, m = [s EXCEPT !.count = Max({@, n})]
  PROVE  Fits(m)
<1>1. s \in Story /\ s.count \in Nat /\ s.marker \in Nat
  BY Fields DEF Fits
<1>2. Max({s.count, n}) \in Nat /\ Max({s.count, n}) >= s.count
  BY <1>1, LargerCount
<1>3. /\ m \in Story
      /\ m.count >= s.count /\ m.marker = s.marker
      /\ m.self = s.self /\ m.comments = s.comments /\ m.body = s.body /\ m.text = s.text
  BY <1>1, <1>2 DEF Story
<1> QED
  BY <1>1, <1>2, <1>3, Fields DEF Fits, Whole, Belongs

\* A story of the live window, and a feed's with the snippet as its text.
LEMMA FromLiveWindowFits ==
  ASSUME TypeOK, NEW n \in Nat, NEW k \in TextLengths
  PROVE  /\ Fits(FromLiveWindow(n))
         /\ Fits([FromLiveWindow(n) EXCEPT !.self = k, !.text = Composed(k, NoComments, 0)])
<1> DEFINE live == FromLiveWindow(n)
           feed == [live EXCEPT !.self = k, !.text = Composed(k, NoComments, 0)]
<1>1. /\ NoComments \in Comments /\ 0 \in TextLengths
      /\ NoComments.version = 0 /\ NoComments.length = 0
  BY ConstantsAssumption DEF NoComments, Comments, Lengths, TextLengths
<1>2. Composed(0, NoComments, 0) \in Texts /\ Composed(k, NoComments, 0) \in Texts
  BY <1>1, ComposedType
<1>3. /\ live \in Story /\ live.comments = NoComments
      /\ live.self = 0 /\ live.body = 0 /\ live.text = Composed(0, NoComments, 0)
      /\ live.count >= live.marker
  BY <1>1, <1>2 DEF FromLiveWindow, Story
<1> HIDE DEF live
<1>4. /\ feed \in Story /\ feed.comments = live.comments /\ feed.body = live.body
      /\ feed.self = k /\ feed.text = Composed(k, NoComments, 0)
      /\ feed.count = live.count /\ feed.marker = live.marker
  BY <1>2, <1>3 DEF Story
<1> HIDE DEF feed
<1>5. Belongs(live) /\ Belongs(feed)
  BY <1>1, <1>3, <1>4 DEF Belongs, TypeOK
<1>6. Whole(live) /\ Whole(feed)
  BY <1>3, <1>4 DEF Whole
<1> QED
  BY <1>3, <1>4, <1>5, <1>6 DEF Fits, live, feed

LEMMA HydratedFits ==
  ASSUME TypeOK, NEW v \in Snapshots, NEW body \in TextLengths
  PROVE  Fits(Hydrated(v, body))
<1>1. 0 \in TextLengths
  BY ConstantsAssumption DEF TextLengths
<1>2. Composed(0, CommentsOf(v), body) \in Texts
  BY <1>1, VersionType, ComposedType
<1> QED
  BY <1>1, <1>2, VersionType DEF Hydrated, Fits, Whole, Belongs, Story

LEMMA PrewarmFits ==
  ASSUME TypeOK, NEW s, Fits(s), NEW v \in Snapshots
  PROVE  /\ Fits(PrewarmStory(s, v))
         /\ s.comments.length = 0 =>
              Fits([s EXCEPT !.count = thread[v].count, !.marker = thread[v].count])
<1>1. s \in Story /\ Whole(s) /\ Belongs(s)
  BY DEF Fits
<1>2. Composed(s.self, CommentsOf(v), s.body) \in Texts
  BY <1>1, Fields, VersionType, ComposedType
<1>3. Fits(PrewarmStory(s, v))
  <2> DEFINE m == PrewarmStory(s, v)
  <2>1. /\ m \in Story /\ m.self = s.self /\ m.body = s.body
        /\ m.comments = CommentsOf(v)
        /\ m.text = Composed(s.self, CommentsOf(v), s.body)
        /\ m.count = thread[v].count /\ m.marker = thread[v].count
    BY <1>1, <1>2, VersionType DEF PrewarmStory, Story
  <2> HIDE DEF m
  <2>2. Belongs(m)
    BY <2>1, VersionType DEF Belongs
  <2> QED
    BY <2>1, <2>2 DEF Fits, Whole, m
<1>4. ASSUME s.comments.length = 0
      PROVE  Fits([s EXCEPT !.count = thread[v].count, !.marker = thread[v].count])
  <2> DEFINE m == [s EXCEPT !.count = thread[v].count, !.marker = thread[v].count]
  <2>1. /\ m \in Story /\ m.self = s.self /\ m.body = s.body
        /\ m.comments = s.comments /\ m.text = s.text
        /\ m.count = thread[v].count /\ m.marker = thread[v].count
    BY <1>1, VersionType DEF Story
  <2> HIDE DEF m
  <2>2. Belongs(m)
    BY <1>1, <1>4, <2>1, VersionType DEF Belongs
  <2> QED
    BY <1>1, <2>1, <2>2 DEF Fits, Whole, m
<1> QED
  BY <1>3, <1>4

\* A body job's copy belongs together once its text is composed.
LEMMA WithBodyFits ==
  ASSUME NEW s \in Story, Belongs(s), NEW n \in TextLengths
  PROVE  Fits([s EXCEPT !.body = n, !.text = Composed(s.self, s.comments, n)])
<1>1. Composed(s.self, s.comments, n) \in Texts
  BY Fields, ComposedType
<1> QED
  BY <1>1, Fields DEF Fits, Whole, Belongs, Story

\* A note stays of its version when the comments it points to replace it.
LEMMA FollowedFits ==
  ASSUME NEW s, Fits(s), IsNote(s.comments), NEW n \in Lengths \ {0},
         NEW c, c = [s.comments EXCEPT !.followed = TRUE, !.length = n],
         NEW m, m = [s EXCEPT !.comments = c, !.text = Composed(s.self, c, s.body)]
  PROVE  Fits(m)
<1>1. s \in Story /\ s.comments \in Comments
  BY Fields DEF Fits
<1>2. c \in Comments /\ c.version = s.comments.version /\ c.length > 0
  <2>1. /\ s.comments.version \in 0 .. MaxVersions
        /\ c = [version |-> s.comments.version, followed |-> TRUE, length |-> n]
    BY <1>1 DEF Comments
  <2>2. n \in Lengths /\ n > 0
    BY ConstantsAssumption DEF Lengths
  <2> QED
    BY <2>1, <2>2 DEF Comments
<1>3. Composed(s.self, c, s.body) \in Texts
  BY <1>1, <1>2, Fields, ComposedType
<1>4. s.comments.version > 0
  BY DEF IsNote
<1>5. /\ m \in Story /\ Whole(m)
      /\ m.comments = c /\ m.count = s.count /\ m.marker = s.marker
  BY <1>1, <1>2, <1>3 DEF Story, Whole
<1> QED
  BY <1>1, <1>2, <1>4, <1>5, Fields DEF Fits, Belongs

LEMMA WithContextFits ==
  ASSUME TypeOK, source = "rss", NEW s, Fits(s), NEW k \in TextLengths, NEW v \in Snapshots,
         NEW m, m = WithContext(s, k, v)
  PROVE  Fits(m)
<1> DEFINE longest == Max({s.self, k})
           comments == IF CommentsOf(v).length > s.comments.length
                         THEN CommentsOf(v) ELSE s.comments
           text == Composed(longest, comments, s.body)
           count == Max({s.count, thread[v].count})
           marker == Max({s.marker, thread[v].count})
<1>1. s \in Story /\ s.count >= s.marker
  BY DEF Fits, Belongs
<1>2. longest \in TextLengths
  BY <1>1, Fields, LongerText
<1>3. /\ comments \in Comments /\ comments.version \in 0 .. Len(thread)
      /\ comments.length > 0 <=> comments.version > 0
  <2>1. Len(thread) \in Nat
    BY DEF TypeOK
  <2> QED
    BY <1>1, <2>1, Fields, VersionType DEF Fits, Belongs
<1>4. count \in Nat /\ marker \in Nat /\ count >= marker
  <2>1. s.count \in Nat /\ s.marker \in Nat /\ thread[v].count \in Nat
    BY <1>1, Fields, VersionType
  <2>2. /\ count = IF s.count >= thread[v].count THEN s.count ELSE thread[v].count
        /\ marker = IF s.marker >= thread[v].count THEN s.marker ELSE thread[v].count
    BY <2>1, MaxOfTwo
  <2> QED
    BY <1>1, <2>1, <2>2
<1>5. text \in Texts
  BY <1>1, <1>2, <1>3, Fields, ComposedType
<1>6. m = [s EXCEPT !.self = longest, !.comments = comments, !.text = text,
                    !.count = count, !.marker = marker]
  BY <1>1 DEF WithContext, Story
<1> HIDE DEF longest, comments, text, count, marker
<1>7. /\ m \in Story
      /\ m.self = longest /\ m.comments = comments /\ m.body = s.body
      /\ m.text = text /\ m.count = count /\ m.marker = marker
  BY <1>1, <1>2, <1>3, <1>4, <1>5, <1>6 DEF Story
<1>8. Whole(m)
  BY <1>7 DEF Whole, text
<1> QED
  BY <1>3, <1>4, <1>7, <1>8 DEF Fits, Belongs

-----------------------------------------------------------------------------
(* What writers hold                                                      *)

LiveKinds == {"tapRead", "grownRead", "tapFetch", "grownFetch", "tapHeal"}
CopyKinds == {"tapProbe", "grownProbe", "fetch", "follow", "followWrite", "context", "prewarm"}

\* What the kind of a job says of what its writer holds.
LEMMA Held ==
  ASSUME Inv, NEW w \in Writers
  PROVE  /\ At(w, "ingest") =>
              job[w].count \in Nat /\ (job[w].story = Missing \/ Fits(job[w].story))
         /\ job[w].kind \in CopyKinds \cup LiveKinds => Fits(job[w].story)
         /\ At(w, "body") => job[w].story \in Story /\ Belongs(job[w].story)
         /\ job[w].kind \in LiveKinds => job[w].live \in Nat
         /\ job[w].kind \in {"prewarmRead", "prewarm"} => job[w].version \in Snapshots
         /\ At(w, "hot") => job[w].count \in Nat
         /\ job[w].kind \in {"follow", "followWrite"} => IsNote(job[w].story.comments)
         /\ At(w, "context") => source = "rss"
         /\ job[w].kind \notin {"none", "ingest"} => Stored /\ Fits(row)
<1> DEFINE j == job[w]
<1>1. JobFits(j) /\ j \in Jobs
  BY DEF Inv, JobFits
<1>2. /\ j.kind = "ingest" => j.count \in Nat
      /\ j.kind \in LiveKinds => j.live \in Nat
      /\ j.kind \in {"prewarmRead", "prewarm"} => j.version \in Snapshots
      /\ j.kind = "hot" => j.count \in Nat
  BY <1>1 DEF Jobs, NoJob, LiveKinds
<1>3. /\ j.kind = "ingest" => j.story = Missing \/ Fits(j.story)
      /\ j.kind \in CopyKinds \cup LiveKinds => Fits(j.story)
      /\ j.kind = "body" => j.story \in Story /\ Belongs(j.story)
  BY <1>1 DEF JobFits, Fits, CopyKinds, LiveKinds
<1>4. j.kind \notin {"none", "ingest"} => Stored /\ Fits(row)
  BY DEF Inv, TypeOK, Stored
<1> QED
  BY <1>1, <1>2, <1>3, <1>4 DEF JobFits, At

LEMMA IdleJob == JobFits(NoJob)
BY DEF JobFits, Jobs, NoJob

LEMMA CopyJob ==
  ASSUME NEW s, Fits(s), NEW k \in {"tapProbe", "grownProbe", "fetch", "body"}
  PROVE  JobFits([kind |-> k, story |-> s])
BY DEF Fits, JobFits, Jobs

LEMMA LiveJob ==
  ASSUME NEW s, Fits(s), NEW n \in Nat, NEW k \in LiveKinds
  PROVE  JobFits([kind |-> k, story |-> s, live |-> n])
BY DEF Fits, JobFits, Jobs, LiveKinds

-----------------------------------------------------------------------------
(* Steps                                                                  *)

\* A row that is left alone, or replaced by one that belongs together, with a
\* writer that goes on to a job that fits, keeps the invariant.
LEMMA RowAndJobStep ==
  ASSUME Inv, UNCHANGED <<source, thread>>,
         row' = row \/ Fits(row'),
         \/ UNCHANGED job
         \/ \E w \in Writers : \E j : /\ job' = [job EXCEPT ![w] = j] /\ JobFits(j)
                                      /\ row' = Missing => j.kind \in {"none", "ingest"}
  PROVE  Inv'
<1>1. row' \in Story \cup {Missing} /\ (row' # Missing => Fits(row'))
  BY DEF Inv, TypeOK, Fits, Stored
<1>2. row' = Missing => row = Missing
  BY MissingIsNoStory DEF Fits
<1>3. /\ job' \in [Writers -> Jobs]
      /\ \A w \in Writers : JobFits(job'[w])
      /\ row' = Missing => \A w \in Writers : job'[w].kind \in {"none", "ingest"}
  <2>1. CASE UNCHANGED job
    BY <1>2, <2>1 DEF Inv, TypeOK
  <2>2. CASE \E w \in Writers : \E j : /\ job' = [job EXCEPT ![w] = j] /\ JobFits(j)
                                       /\ row' = Missing => j.kind \in {"none", "ingest"}
    <3> DEFINE Goes(w, j) == /\ job' = [job EXCEPT ![w] = j] /\ JobFits(j)
                             /\ row' = Missing => j.kind \in {"none", "ingest"}
    <3>1. \E w \in Writers : \E j : Goes(w, j)
      BY <2>2
    <3> HIDE DEF Goes
    <3>2. PICK w \in Writers : \E j : Goes(w, j)
      BY <3>1
    <3>3. PICK j : Goes(w, j)
      BY <3>2
    <3>4. /\ job' = [job EXCEPT ![w] = j] /\ JobFits(j)
          /\ row' = Missing => j.kind \in {"none", "ingest"}
      BY <3>3 DEF Goes
    <3>5. j \in Jobs
      BY <3>4 DEF JobFits
    <3>6. \A u \in Writers : job'[u] = IF u = w THEN j ELSE job[u]
      BY <3>4 DEF Inv, TypeOK
    <3>7. \A u \in Writers : JobFits(job[u])
      BY DEF Inv
    <3>8. row' = Missing => \A u \in Writers : job[u].kind \in {"none", "ingest"}
      BY <1>2 DEF Inv, TypeOK
    <3> QED
      BY <3>4, <3>5, <3>6, <3>7, <3>8 DEF Inv, TypeOK
  <2> QED
    BY <2>1, <2>2
<1>6. Jobs' = Jobs
  BY DEF Jobs, Snapshots
<1>7. TypeOK'
  BY <1>1, <1>3, <1>6 DEF Inv, TypeOK
<1> QED
  BY <1>1, <1>3, <1>6, <1>7, ZenonT(30) DEF Inv, Stored, Fits, Whole, Belongs, JobFits, IsNote

LEMMA GotoStep ==
  ASSUME Inv, UNCHANGED <<source, thread>>,
         NEW w \in Writers, NEW j, Goto(w, j), JobFits(j),
         \/ Fits(row')
         \/ row' = row /\ (Stored \/ j.kind \in {"none", "ingest"})
  PROVE  Inv'
<1>1. row' = Missing => j.kind \in {"none", "ingest"}
  BY MissingIsNoStory DEF Fits, Stored
<1> QED
  BY <1>1, RowAndJobStep DEF Goto

\* The discussion grows by a version; the earlier ones stay.
LEMMA DiscussionMovesInv == Inv /\ DiscussionMoves => Inv'
<1> SUFFICES ASSUME Inv, DiscussionMoves PROVE Inv'
  OBVIOUS
<1> DEFINE V == [count : Nat, length : Lengths, note : BOOLEAN]
<1>1. PICK d \in 0 .. 1, n \in Lengths, b \in BOOLEAN :
        thread' = Append(thread, [count |-> LiveCount + d, length |-> n, note |-> b])
  BY DEF DiscussionMoves
<1>2. thread \in Seq(V) /\ Len(thread) \in 1 .. MaxVersions
  BY DEF Inv, TypeOK
<1>3. [count |-> LiveCount + d, length |-> n, note |-> b] \in V
  BY LiveCountType DEF Inv
<1> HIDE DEF V
<1>4. /\ thread' \in Seq(V) /\ Len(thread') = Len(thread) + 1
      /\ \A i \in 1 .. Len(thread) : thread'[i] = thread[i]
  BY <1>1, <1>2, <1>3
<1>5. Len(thread') \in 1 .. MaxVersions
  BY <1>2, <1>4, ConstantsAssumption DEF DiscussionMoves
<1>6. Snapshots \subseteq Snapshots'
  BY <1>2, <1>4 DEF Snapshots
<1>7. \A j \in Jobs : j \in Jobs'
  BY <1>6 DEF Jobs
<1>8. TypeOK'
  BY <1>4, <1>5, <1>7 DEF Inv, TypeOK, DiscussionMoves, V
<1>9. \A s \in Story : Belongs(s) => s.comments.version \in 0 .. Len(thread')
                                 /\ (s.comments.version > 0 => thread'[s.comments.version] = thread[s.comments.version])
  BY <1>2, <1>4 DEF Belongs
<1>10. Stored' => Fits(row)'
  BY <1>9, Fields DEF Inv, Stored, Fits, Whole, Belongs, DiscussionMoves
<1>11. ASSUME NEW w \in Writers PROVE JobFits(job[w])'
  <2> DEFINE j == job[w]
  <2>1. JobFits(j)
    BY DEF Inv
  <2>2. j' = j /\ source' = source
    BY DEF DiscussionMoves
  <2>3. j \in Jobs'
    BY <1>7, <2>1 DEF JobFits
  <2>4. j.kind \in {"follow", "followWrite"} => j.story \in Story /\ Belongs(j.story)
    BY <2>1 DEF JobFits
  <2> HIDE DEF j
  <2>5. j.story \in Story /\ Belongs(j.story) =>
          /\ j.story.comments.version \in 0 .. Len(thread')
          /\ j.story.comments.length > 0 <=> j.story.comments.version > 0
          /\ source' = "hn" /\ j.story.comments.length > 0 =>
               j.story.marker = thread'[j.story.comments.version].count
          /\ j.story.count >= j.story.marker
    BY <1>9, <2>2, Fields DEF Belongs
  <2>6. j.kind \in {"follow", "followWrite"} =>
          /\ j.story.comments.version > 0 /\ ~j.story.comments.followed
          /\ thread'[j.story.comments.version].note
    BY <1>9, <2>1, <2>4 DEF JobFits, IsNote
  <2> QED
    BY <2>1, <2>2, <2>3, <2>5, <2>6 DEF JobFits, Belongs, IsNote, Whole, j
<1> QED
  BY <1>8, <1>10, <1>11 DEF Inv

\* A step leaves the row as it is or one that belongs together, and takes
\* nothing away from it but what the two properties of its steps allow.
RowStep ==
  /\ row' = row \/ Fits(row')
  /\ Stored =>
       /\ row'.self >= row.self /\ row'.body >= row.body /\ row'.count >= row.count
       /\ \/ row.comments.length = 0
          \/ row'.comments.length > 0
          \/ \E w \in Writers : PrewarmWrites(w) /\ job[w].story.comments.length = 0
       /\ AuthoritativeStep \/ row'.marker >= row.marker

LEMMA RowKept == Inv /\ UNCHANGED row => RowStep
<1> SUFFICES ASSUME Inv, UNCHANGED row PROVE RowStep
  OBVIOUS
<1>1. Stored => row \in Story
  BY DEF Inv, Fits
<1> QED
  BY <1>1, Fields DEF RowStep

LEMMA RoutineUpsert ==
  ASSUME Inv, NEW s, Fits(s), Upsert(s, FALSE)
  PROVE  RowStep /\ Fits(row')
<1>1. Fits(row')
  BY UpsertedFits DEF Upsert, Inv
<1>2. ASSUME Stored PROVE row \in Story /\ s \in Story /\ row' = Merged(s, FALSE)
  BY <1>2 DEF Upsert, Upserted, Stored, Inv, Fits
<1>3. ASSUME Stored
      PROVE  /\ row'.self >= row.self /\ row'.body >= row.body /\ row'.count >= row.count
             /\ row.comments.length = 0 \/ row'.comments.length > 0
             /\ row'.marker >= row.marker
  <2>1. \/ /\ row'.comments = s.comments /\ row'.marker = s.marker
           /\ s.marker >= row.marker /\ s.comments.length >= row.comments.length
        \/ row'.comments = row.comments /\ row'.marker = row.marker
    BY <1>2, <1>3, MergedFields, ZenonT(30)
  <2>2. row.comments.length \in Nat /\ s.comments.length \in Nat /\ row.marker \in Nat
    BY <1>2, <1>3, Fields
  <2>3. row'.self >= row.self /\ row'.body >= row.body /\ row'.count >= row.count
    BY <1>2, <1>3, MergedFields
  <2> QED
    BY <2>1, <2>2, <2>3
<1> QED
  BY <1>1, <1>3 DEF RowStep

LEMMA AuthoritativeUpsert ==
  ASSUME Inv, NEW s, Fits(s), Upsert(s, TRUE), AuthoritativeStep,
         \/ s.comments.length > 0
         \/ \E w \in Writers : PrewarmWrites(w) /\ job[w].story.comments.length = 0
  PROVE  RowStep /\ Fits(row')
<1>1. Fits(row')
  BY UpsertedFits DEF Upsert, Inv
<1>2. ASSUME Stored PROVE row \in Story /\ s \in Story /\ row' = Merged(s, TRUE)
  BY <1>2 DEF Upsert, Upserted, Stored, Inv, Fits
<1>3. ASSUME Stored
      PROVE  /\ row'.self >= row.self /\ row'.body >= row.body /\ row'.count >= row.count
             /\ row'.comments = s.comments
  <2>1. row'.comments = s.comments \/ ~TRUE
    BY <1>2, <1>3, MergedFields
  <2> QED
    BY <1>2, <1>3, <2>1, MergedFields
<1>4. Stored => \/ row'.comments.length > 0
                \/ \E w \in Writers : PrewarmWrites(w) /\ job[w].story.comments.length = 0
  BY <1>3
<1> QED
  BY <1>1, <1>3, <1>4 DEF RowStep

-----------------------------------------------------------------------------
(* Every operation of a writer                                            *)

LEMMA IngestSteps ==
  ASSUME Inv, NEW w \in Writers, IngestReads(w) \/ IngestWrites(w) \/ FeedIngest(w)
  PROVE  RowStep /\ Inv'
<1>1. CASE IngestReads(w)
  <2>1. PICK v \in Snapshots :
          Goto(w, [kind |-> "ingest", count |-> thread[v].count, story |-> row])
    BY <1>1 DEF IngestReads
  <2>2. JobFits([kind |-> "ingest", count |-> thread[v].count, story |-> row])
    BY VersionType DEF Inv, JobFits, Jobs, TypeOK, Fits, Stored
  <2> QED
    BY <1>1, <2>1, <2>2, GotoStep, RowKept DEF IngestReads
<1>2. CASE IngestWrites(w)
  <2> DEFINE known == job[w].story
  <2>1. job[w].count \in Nat /\ (known = Missing \/ Fits(known))
    BY <1>2, Held DEF IngestWrites
  <2>2. CASE known = Missing
    <3>1. Upsert(FromLiveWindow(job[w].count), FALSE)
      BY <1>2, <2>2 DEF IngestWrites
    <3>2. Fits(FromLiveWindow(job[w].count))
      <4>1. 0 \in TextLengths
        BY ConstantsAssumption DEF TextLengths
      <4> QED
        BY <2>1, <4>1, FromLiveWindowFits DEF Inv
    <3>3. RowStep /\ Fits(row')
      BY <3>1, <3>2, RoutineUpsert
    <3> QED
      BY <1>2, <3>3, IdleJob, GotoStep DEF IngestWrites, Done
  <2>3. CASE known # Missing
    <3> DEFINE raised == [known EXCEPT !.count = Max({@, job[w].count})]
    <3>1. Fits(raised)
      BY <2>1, <2>3, CountRaisedFits
    <3>2. Upsert(raised, FALSE) \/ UNCHANGED row
      BY <1>2, <2>3 DEF IngestWrites
    <3>3. RowStep /\ (Fits(row') \/ UNCHANGED row)
      BY <3>1, <3>2, RoutineUpsert, RowKept
    <3>4. NoJob.kind \in {"none", "ingest"}
      BY DEF NoJob
    <3> QED
      BY <1>2, <3>3, <3>4, IdleJob, GotoStep DEF IngestWrites, Done
  <2> QED
    BY <2>2, <2>3
<1>3. CASE FeedIngest(w)
  <2>1. RowStep /\ Fits(row')
    BY <1>3, FromLiveWindowFits, RoutineUpsert DEF FeedIngest, Inv
  <2> QED
    BY <1>3, <2>1, MissingIsNoStory, RowAndJobStep DEF FeedIngest
<1> QED
  BY <1>1, <1>2, <1>3

LEMMA ReadingSteps ==
  ASSUME Inv, NEW w \in Writers,
         \/ CaptureRow(w, "tapProbe") \/ CaptureRow(w, "grownProbe") \/ FetchReads(w)
         \/ ForcedFetchReads(w, "tapRead", "tapFetch")
         \/ ForcedFetchReads(w, "grownRead", "grownFetch")
         \/ PrewarmQueries(w) \/ PrewarmReads(w) \/ HotProbe(w)
         \/ BodyStarts(w) \/ FollowStarts(w) \/ FollowAnswers(w) \/ ContextStarts(w)
  PROVE  RowStep /\ Inv'
<1>1. UNCHANGED <<source, thread, row>>
  BY DEF CaptureRow, FetchReads, ForcedFetchReads, PrewarmQueries, PrewarmReads, HotProbe,
         BodyStarts, FollowStarts, FollowAnswers, ContextStarts
<1>2. Stored => Fits(row)
  BY DEF Inv
<1>3. Stored
  BY Held DEF CaptureRow, FetchReads, ForcedFetchReads, PrewarmQueries, PrewarmReads, HotProbe,
              BodyStarts, FollowStarts, FollowAnswers, ContextStarts, Stored, At
<1>4. \E j : Goto(w, j) /\ JobFits(j)
  <2>1. CASE CaptureRow(w, "tapProbe") \/ CaptureRow(w, "grownProbe") \/ FetchReads(w)
    BY <1>2, <1>3, <2>1, CopyJob DEF CaptureRow, FetchReads
  <2>2. CASE ForcedFetchReads(w, "tapRead", "tapFetch")
    BY <1>2, <1>3, <2>2, Held, LiveJob DEF ForcedFetchReads, At, LiveKinds
  <2>3. CASE ForcedFetchReads(w, "grownRead", "grownFetch")
    BY <1>2, <1>3, <2>3, Held, LiveJob DEF ForcedFetchReads, At, LiveKinds
  <2>4. CASE PrewarmQueries(w)
    <3>1. ASSUME NEW v \in Snapshots PROVE JobFits([kind |-> "prewarmRead", version |-> v])
      BY DEF JobFits, Jobs
    <3> QED
      BY <2>4, <3>1 DEF PrewarmQueries
  <2>5. CASE PrewarmReads(w)
    <3>1. job[w].version \in Snapshots
      BY <2>5, Held DEF PrewarmReads, At
    <3>2. JobFits([kind |-> "prewarm", version |-> job[w].version, story |-> row])
      BY <1>2, <1>3, <3>1 DEF JobFits, Jobs, Fits
    <3> QED
      BY <2>5, <3>2 DEF PrewarmReads
  <2>6. CASE HotProbe(w)
    <3>1. JobFits([kind |-> "hot", count |-> LiveCount])
      BY LiveCountType DEF JobFits, Jobs, Inv
    <3> QED
      BY <2>6, <3>1 DEF HotProbe
  <2>7. CASE BodyStarts(w)
    <3> DEFINE c == [row EXCEPT !.self = 0, !.comments = NoComments, !.body = 0]
    <3>1. row \in Story /\ Belongs(row)
      BY <1>2, <1>3 DEF Fits
    <3>2. /\ NoComments \in Comments /\ 0 \in TextLengths
          /\ NoComments.version = 0 /\ NoComments.length = 0
      BY ConstantsAssumption DEF NoComments, Comments, Lengths, TextLengths
    <3>3. /\ c \in Story /\ c.comments = NoComments
          /\ c.count = row.count /\ c.marker = row.marker
      BY <3>1, <3>2 DEF Story
    <3> HIDE DEF c
    <3>4. Belongs(c)
      BY <3>1, <3>2, <3>3 DEF Belongs, Inv, TypeOK
    <3>5. JobFits([kind |-> "body", story |-> c])
      BY <3>3, <3>4 DEF JobFits, Jobs
    <3> QED
      BY <2>7, <3>5 DEF BodyStarts, c
  <2>8. CASE FollowStarts(w)
    <3>1. JobFits([kind |-> "follow", story |-> row])
      BY <1>2, <1>3, <2>8 DEF FollowStarts, JobFits, Jobs, Fits
    <3> QED
      BY <2>8, <3>1 DEF FollowStarts
  <2>9. CASE FollowAnswers(w)
    <3>1. IsNote(job[w].story.comments)
      BY <2>9, Held DEF FollowAnswers, At
    <3>2. ASSUME IsNote(row.comments) PROVE JobFits([kind |-> "followWrite", story |-> row])
      BY <1>2, <1>3, <3>2 DEF JobFits, Jobs, Fits
    <3> QED
      BY <2>9, <3>1, <3>2, IdleJob DEF FollowAnswers, Done
  <2>10. CASE ContextStarts(w)
    <3>1. JobFits([kind |-> "context", story |-> row])
      BY <1>2, <1>3, <2>10 DEF ContextStarts, JobFits, Jobs, Fits
    <3> QED
      BY <2>10, <3>1 DEF ContextStarts
  <2> QED
    BY <2>1, <2>2, <2>3, <2>4, <2>5, <2>6, <2>7, <2>8, <2>9, <2>10
<1> QED
  BY <1>1, <1>3, <1>4, GotoStep, RowKept

LEMMA ProbeAnswersStep ==
  ASSUME Inv, NEW w \in Writers,
         NEW kind \in {"tapProbe", "grownProbe"}, NEW next \in {"tapRead", "grownRead"},
         ProbeAnswers(w, kind, next)
  PROVE  RowStep /\ Inv'
<1> DEFINE story == job[w].story
           healed == [story EXCEPT !.count = Max({@, LiveCount})]
<1>1. Fits(story) /\ Stored
  BY Held DEF ProbeAnswers, At, CopyKinds
<1>2. LiveCount \in Nat
  BY LiveCountType DEF Inv
<1>3. Fits(healed)
  BY <1>1, <1>2, CountRaisedFits
<1>4. Upsert(healed, FALSE) \/ UNCHANGED row
  BY DEF ProbeAnswers
<1>5. RowStep /\ (Fits(row') \/ UNCHANGED row)
  BY <1>3, <1>4, RoutineUpsert, RowKept
<1>6. \E j : Goto(w, j) /\ JobFits(j)
  BY <1>2, <1>3, CopyJob, LiveJob, IdleJob DEF ProbeAnswers, Done, LiveKinds
<1> QED
  BY <1>1, <1>5, <1>6, GotoStep DEF ProbeAnswers

LEMMA FetchSteps ==
  ASSUME Inv, NEW w \in Writers, FetchAnswers(w) \/ FetchFails(w) \/ TapHeals(w)
  PROVE  RowStep /\ Inv'
<1>1. Stored /\ Fits(job[w].story) /\ job[w].kind \in {"fetch", "grownFetch", "tapFetch", "tapHeal"}
  BY Held DEF FetchAnswers, FetchFails, TapHeals, At, CopyKinds, LiveKinds
<1>2. job[w].kind \in {"tapFetch", "tapHeal"} => job[w].live \in Nat
  BY Held DEF LiveKinds
<1>3. CASE FetchAnswers(w)
  <2>1. PICK v \in Snapshots :
          /\ FetchStores(w, v)
          /\ IF At(w, "tapFetch")
               THEN Goto(w, [kind |-> "tapHeal", story |-> row', live |-> job[w].live])
               ELSE Done(w)
    BY <1>3 DEF FetchAnswers
  <2> DEFINE s == Hydrated(v, job[w].story.body)
  <2>2. Fits(s)
    BY <1>1, HydratedFits, Fields DEF Fits, Inv
  <2>3. s.comments = CommentsOf(v)
    BY DEF Hydrated
  <2>4. AuthoritativeStep
    BY <1>3 DEF AuthoritativeStep
  <2> HIDE DEF s
  <2>5. Upsert(s, CommentsOf(v).length > 0)
    BY <2>1 DEF FetchStores, s
  <2>6. RowStep /\ Fits(row')
    <3>1. CASE CommentsOf(v).length > 0
      <4>1. Upsert(s, TRUE)
        BY <2>5, <3>1 DEF Upsert, Upserted, Merged, TakesComments
      <4> QED
        BY <2>2, <2>3, <2>4, <3>1, <4>1, AuthoritativeUpsert
    <3>2. CASE ~(CommentsOf(v).length > 0)
      <4>1. Upsert(s, FALSE)
        BY <2>5, <3>2 DEF Upsert, Upserted, Merged, TakesComments
      <4> QED
        BY <2>2, <4>1, RoutineUpsert
    <3> QED
      BY <3>1, <3>2
  <2>7. \E j : Goto(w, j) /\ JobFits(j)
    BY <1>2, <2>1, <2>6, LiveJob, IdleJob DEF Done, At, LiveKinds
  <2> QED
    BY <1>3, <2>6, <2>7, GotoStep DEF FetchAnswers
<1>4. CASE FetchFails(w)
  <2>1. \E j : Goto(w, j) /\ JobFits(j)
    BY <1>1, <1>4, CopyJob, IdleJob DEF FetchFails, Done
  <2> QED
    BY <1>1, <1>4, <2>1, GotoStep, RowKept DEF FetchFails
<1>5. CASE TapHeals(w)
  <2> DEFINE healed == [job[w].story EXCEPT !.count = Max({@, job[w].live})]
  <2>1. Fits(healed)
    BY <1>1, <1>2, <1>5, CountRaisedFits DEF TapHeals, At
  <2>2. (Upsert(healed, FALSE) \/ UNCHANGED row) /\ Goto(w, [kind |-> "body", story |-> healed])
    BY <1>5 DEF TapHeals
  <2>3. RowStep /\ (Fits(row') \/ UNCHANGED row)
    BY <2>1, <2>2, RoutineUpsert, RowKept
  <2> QED
    BY <1>1, <1>5, <2>1, <2>2, <2>3, CopyJob, GotoStep DEF TapHeals
<1> QED
  BY <1>3, <1>4, <1>5

LEMMA PrewarmWritesStep ==
  ASSUME Inv, NEW w \in Writers, PrewarmWrites(w)
  PROVE  RowStep /\ Inv'
<1> DEFINE story == job[w].story
           v == job[w].version
           marked == [story EXCEPT !.count = thread[v].count, !.marker = thread[v].count]
<1>1. Fits(story) /\ v \in Snapshots /\ Stored
  BY Held DEF PrewarmWrites, At, CopyKinds
<1>2. Fits(PrewarmStory(story, v)) /\ (story.comments.length = 0 => Fits(marked))
  BY <1>1, PrewarmFits DEF Inv
<1>3. PrewarmStory(story, v).comments = CommentsOf(v)
  BY <1>1 DEF PrewarmStory, Fits, Story
<1>4. AuthoritativeStep
  BY DEF AuthoritativeStep
<1>5. \/ CommentsOf(v).length > 0 /\ Upsert(PrewarmStory(story, v), TRUE)
      \/ story.comments.length = 0 /\ Upsert(marked, TRUE)
      \/ UNCHANGED row
  BY DEF PrewarmWrites
<1> HIDE DEF story, v, marked
<1>6. CASE CommentsOf(v).length > 0 /\ Upsert(PrewarmStory(story, v), TRUE)
  <2>1. RowStep /\ Fits(row')
    BY <1>2, <1>3, <1>4, <1>6, AuthoritativeUpsert
  <2> QED
    BY <1>1, <2>1, IdleJob, GotoStep DEF PrewarmWrites, Done
<1>7. CASE story.comments.length = 0 /\ Upsert(marked, TRUE)
  <2>1. \E u \in Writers : PrewarmWrites(u) /\ job[u].story.comments.length = 0
    BY <1>7 DEF story
  <2>2. RowStep /\ Fits(row')
    BY <1>2, <1>4, <1>7, <2>1, AuthoritativeUpsert
  <2> QED
    BY <1>1, <2>2, IdleJob, GotoStep DEF PrewarmWrites, Done
<1>8. CASE UNCHANGED row
  BY <1>1, <1>8, RowKept, IdleJob, GotoStep DEF PrewarmWrites, Done
<1> QED
  BY <1>5, <1>6, <1>7, <1>8

LEMMA HotWritesStep ==
  ASSUME Inv, NEW w \in Writers, HotWrites(w)
  PROVE  RowStep /\ Inv'
<1>1. job[w].count \in Nat /\ Stored /\ Fits(row) /\ row \in Story
  BY Held DEF HotWrites, At, Fits
<1>2. Max({row.count, job[w].count}) \in Nat /\ Max({row.count, job[w].count}) >= row.count
  BY <1>1, Fields, LargerCount
<1>3. Fits(row')
  BY <1>1, CountRaisedFits DEF HotWrites
<1>4. /\ row'.self = row.self /\ row'.body = row.body /\ row'.count >= row.count
      /\ row'.comments = row.comments /\ row'.marker = row.marker
  BY <1>1, <1>2 DEF HotWrites, Story
<1>5. RowStep
  BY <1>1, <1>3, <1>4, Fields DEF RowStep
<1> QED
  BY <1>3, <1>5, IdleJob, GotoStep DEF HotWrites, Done

LEMMA BodyArrivesStep ==
  ASSUME Inv, NEW w \in Writers, BodyArrives(w)
  PROVE  RowStep /\ Inv'
<1> DEFINE story == job[w].story
<1>1. story \in Story /\ Belongs(story) /\ Stored
  BY Held DEF BodyArrives, At
<1>2. \/ \E n \in TextLengths :
           Upsert([story EXCEPT !.body = n,
                     !.text = Composed(story.self, story.comments, n)], FALSE)
      \/ UNCHANGED row
  BY DEF BodyArrives
<1> HIDE DEF story
<1>3. RowStep /\ (Fits(row') \/ UNCHANGED row)
  BY <1>1, <1>2, WithBodyFits, RoutineUpsert, RowKept
<1> QED
  BY <1>1, <1>3, IdleJob, GotoStep DEF BodyArrives, Done

LEMMA FollowWritesStep ==
  ASSUME Inv, NEW w \in Writers, FollowWrites(w)
  PROVE  RowStep /\ Inv'
<1> DEFINE story == job[w].story
           comments(n) == [story.comments EXCEPT !.followed = TRUE, !.length = n]
           followed(n) == [story EXCEPT !.comments = comments(n),
                             !.text = Composed(story.self, comments(n), story.body)]
<1>1. Fits(story) /\ IsNote(story.comments) /\ story \in Story /\ story.comments \in Comments
  BY Held, Fields DEF FollowWrites, At, CopyKinds, Fits
<1>2. PICK n \in Lengths \ {0} : Upsert(followed(n), TRUE)
  BY DEF FollowWrites
<1>3. Fits(followed(n))
  BY <1>1, FollowedFits
<1>4. comments(n).length > 0
  BY <1>1, ConstantsAssumption DEF Comments, Lengths
<1>5. followed(n).comments = comments(n)
  BY <1>1 DEF Story
<1>6. AuthoritativeStep
  BY DEF AuthoritativeStep
<1> HIDE DEF story, comments, followed
<1>7. RowStep /\ Fits(row')
  BY <1>2, <1>3, <1>4, <1>5, <1>6, AuthoritativeUpsert
<1> QED
  BY <1>7, IdleJob, GotoStep DEF FollowWrites, Done

LEMMA ContextAnswersStep ==
  ASSUME Inv, NEW w \in Writers, ContextAnswers(w)
  PROVE  RowStep /\ Inv'
<1> DEFINE story == job[w].story
<1>1. Fits(story) /\ source = "rss" /\ Stored
  BY Held DEF ContextAnswers, At, CopyKinds
<1>2. \/ \E n \in TextLengths, v \in Snapshots : Upsert(WithContext(story, n, v), FALSE)
      \/ UNCHANGED row
  BY DEF ContextAnswers
<1>3. \A n \in TextLengths, v \in Snapshots : Fits(WithContext(story, n, v))
  BY <1>1, WithContextFits DEF Inv
<1> HIDE DEF story
<1>4. RowStep /\ (Fits(row') \/ UNCHANGED row)
  BY <1>2, <1>3, RoutineUpsert, RowKept
<1> QED
  BY <1>1, <1>4, IdleJob, GotoStep DEF ContextAnswers, Done

-----------------------------------------------------------------------------
LEMMA InitInv == Init => Inv
<1> SUFFICES ASSUME Init PROVE Inv
  OBVIOUS
<1> DEFINE V == [count : Nat, length : Lengths, note : BOOLEAN]
<1>1. PICK n \in Lengths, b \in BOOLEAN : thread = <<[count |-> 1, length |-> n, note |-> b]>>
  BY DEF Init
<1>2. thread \in Seq(V) /\ Len(thread) = 1
  BY <1>1
<1>3. Len(thread) \in 1 .. MaxVersions
  BY <1>2, ConstantsAssumption
<1>4. TypeOK
  BY <1>2, <1>3 DEF Init, TypeOK, Jobs, NoJob
<1> QED
  BY <1>4, IdleJob DEF Init, Inv, Stored

\* Every step keeps the invariant and is a step of the row.
LEMMA StepInv == Inv /\ [Next]_vars => Inv' /\ RowStep
<1> SUFFICES ASSUME Inv, [Next]_vars PROVE Inv' /\ RowStep
  OBVIOUS
<1>1. CASE UNCHANGED vars
  BY <1>1, RowAndJobStep, RowKept DEF vars
<1>2. CASE DiscussionMoves
  BY <1>2, DiscussionMovesInv, RowKept DEF DiscussionMoves
<1>3. ASSUME NEW w \in Writers,
             \/ IngestReads(w) \/ IngestWrites(w) \/ FeedIngest(w)
             \/ CaptureRow(w, "tapProbe") \/ CaptureRow(w, "grownProbe")
             \/ ProbeAnswers(w, "tapProbe", "tapRead")
             \/ ProbeAnswers(w, "grownProbe", "grownRead")
             \/ FetchReads(w)
             \/ ForcedFetchReads(w, "tapRead", "tapFetch")
             \/ ForcedFetchReads(w, "grownRead", "grownFetch")
             \/ FetchAnswers(w) \/ FetchFails(w) \/ TapHeals(w)
             \/ PrewarmQueries(w) \/ PrewarmReads(w) \/ PrewarmWrites(w)
             \/ HotProbe(w) \/ HotWrites(w)
             \/ BodyStarts(w) \/ BodyArrives(w)
             \/ FollowStarts(w) \/ FollowAnswers(w) \/ FollowWrites(w)
             \/ ContextStarts(w) \/ ContextAnswers(w)
      PROVE  Inv' /\ RowStep
  BY <1>3, IngestSteps, ReadingSteps, ProbeAnswersStep, FetchSteps, PrewarmWritesStep,
     HotWritesStep, BodyArrivesStep, FollowWritesStep, ContextAnswersStep
<1> QED
  BY <1>1, <1>2, <1>3 DEF Next

\* The inductive invariant: what belongs together does so in the row and in
\* every copy a writer holds, however long it has held it.
THEOREM CopiesBelong == Spec => []Inv
BY InitInv, StepInv, PTL DEF Spec

\* The row, the discussion and the writers' copies keep their types.
THEOREM TypeCorrect == Spec => []TypeOK
<1>1. Inv => TypeOK
  BY DEF Inv
<1> QED
  BY <1>1, CopiesBelong, PTL

\* Whoever wrote last, and from however old a copy: the row's text is composed
\* of its fields and an HN row's marker is the count of the version its
\* comments are from.
THEOREM RowAlwaysAgrees == Spec => []RowAgrees
<1>1. Inv => RowAgrees
  BY DEF Inv, Fits, Whole, Belongs, RowAgrees, TextAgrees, MarkerAgrees
<1> QED
  BY <1>1, CopiesBelong, PTL

\* No write takes away what another writer has found, but for the prewarm that
\* read the row before it had comments.
THEOREM NothingIsLost == Spec => NothingLost
<1>1. Inv /\ [Next]_vars =>
        [Stored =>
           /\ row'.self >= row.self
           /\ row'.body >= row.body
           /\ \/ row.comments.length = 0
              \/ row'.comments.length > 0
              \/ \E w \in Writers : /\ PrewarmWrites(w)
                                   /\ job[w].story.comments.length = 0]_vars
  BY StepInv DEF RowStep
<1> QED
  BY <1>1, CopiesBelong, PTL DEF Spec, NothingLost

\* Routine ingestion never replaces comments by those of an earlier count.
THEOREM RoutineIsNeverOlder == Spec => RoutineNeverOlder
<1>1. Inv /\ [Next]_vars =>
        [Stored /\ ~AuthoritativeStep => row'.marker >= row.marker]_vars
  BY StepInv DEF RowStep
<1> QED
  BY <1>1, CopiesBelong, PTL DEF Spec, RoutineNeverOlder

\* A newer snapshot that an authoritative write replaced by an older one shows:
\* the count of the row is above its marker.
THEOREM OverwritingIsVisible == Spec => OverwrittenIsVisible
<1>1. Inv /\ [Next]_vars =>
        [Stored /\ row'.marker < row.marker => row'.count > row'.marker]_vars
  <2> SUFFICES ASSUME Inv, [Next]_vars, Stored, row'.marker < row.marker
               PROVE  row'.count > row'.marker
    OBVIOUS
  <2>1. RowStep /\ Fits(row)
    BY StepInv DEF Inv
  <2>2. row \in Story /\ row' \in Story
    BY <2>1 DEF RowStep, Fits
  <2>3. row'.count >= row.count /\ row.count >= row.marker
    BY <2>1 DEF RowStep, Fits, Belongs
  <2> QED
    BY <2>2, <2>3, Fields
<1> QED
  BY <1>1, CopiesBelong, PTL DEF Spec, OverwrittenIsVisible
=============================================================================
