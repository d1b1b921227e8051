------------------------------ MODULE StoryRow ------------------------------
(***************************************************************************)
(* The stored row of one story and everybody who writes it: ingestion,    *)
(* the bulk prewarm, forced and routine hydrations, count heals, article  *)
(* bodies, pointer threads and the contexts of RSS sources.  Each writer  *)
(* captures a copy of the row, waits for the network and writes that copy *)
(* back; upsert_story merges it with what others stored meanwhile.        *)
(*                                                                        *)
(* Texts are their lengths, and the comments a record: the version of the *)
(* discussion they were taken from, whether they were replaced by those   *)
(* of the thread a lone note points to, and their length.                 *)
(***************************************************************************)
EXTENDS Integers, Sequences, FiniteSetsExt

CONSTANTS
  Writers,       \* threads that may be writing the row at the same time
  MaxVersions,   \* bound on the changes of the discussion
  MaxLength,     \* longest comments
  MaxText,       \* longest self text and article body
  Pointers       \* whether a discussion may be a note that points elsewhere

ASSUME ConstantsAssumption ==
  /\ MaxVersions \in Nat \ {0}
  /\ MaxLength \in Nat \ {0}
  /\ MaxText \in Nat \ {0}
  /\ Pointers \in BOOLEAN

Lengths == 0 .. MaxLength
TextLengths == 0 .. MaxText
NoComments == [version |-> 0, followed |-> FALSE, length |-> 0]
Comments == [version : 0 .. MaxVersions, followed : BOOLEAN, length : Lengths]

Texts == [self : TextLengths, comments : Comments, body : TextLengths]

\* A Story: its texts, the text composed of them, the best known comment
\* count and the count when the comments were fetched.
Story == [self : TextLengths, comments : Comments, body : TextLengths,
          text : Texts, count : Nat, marker : Nat]

\* compose_story_text.
Composed(self, comments, body) ==
  [self |-> self, comments |-> comments, body |-> body]

Missing == [missing |-> TRUE]
NoJob == [kind |-> "none"]

VARIABLES
  source,    \* "hn", or "rss" for a feed whose comments are fetched by context
  thread,    \* the versions of the discussion so far: count, length, note
  row,       \* the row in the stories table, or Missing
  job        \* what each writer is doing, with the copies it holds

vars == <<source, thread, row, job>>

Snapshots == 1 .. Len(thread)
LiveCount == thread[Len(thread)].count
CommentsOf(v) ==
  IF thread[v].length = 0 THEN NoComments
  ELSE [version |-> v, followed |-> FALSE, length |-> thread[v].length]

\* MUTANT of TakesComments: only the length decides, as it does for texts.
LongerTaken(story, authoritative) ==
  \/ authoritative
  \/ story.comments.length >= row.comments.length

\* Whether a write replaces the stored comments.
TakesComments(story, authoritative) ==
  \/ authoritative
  \/ /\ story.marker >= row.marker
     /\ story.comments.length >= row.comments.length

\* MUTANT of Merged: the writer's count is stored as it is.
CountClobbered(story, authoritative) ==
  LET takes == TakesComments(story, authoritative)
      self == Max({story.self, row.self})
      body == Max({story.body, row.body})
      comments == IF takes THEN story.comments ELSE row.comments
  IN  [self |-> self, comments |-> comments, body |-> body,
       text |-> Composed(self, comments, body),
       count |-> story.count,
       marker |-> IF takes THEN story.marker ELSE row.marker]

\* What upsert_story makes of a stored row: the longest self text and body,
\* one side's comments together with their marker, the largest count, and a
\* text composed anew when a field differs from the writer's.
Merged(story, authoritative) ==
  LET takes == TakesComments(story, authoritative)
      self == Max({story.self, row.self})
      body == Max({story.body, row.body})
      comments == IF takes THEN story.comments ELSE row.comments
      recomposed == \/ self # story.self
                    \/ comments # story.comments
                    \/ body # story.body
  IN  [self |-> self, comments |-> comments, body |-> body,
       text |-> IF recomposed THEN Composed(self, comments, body)
                              ELSE story.text,
       count |-> Max({story.count, row.count}),
       marker |-> IF takes THEN story.marker ELSE row.marker]

\* upsert_story: one transaction that reserves the writer before it reads.
Upserted(story, authoritative) ==
  IF row = Missing THEN story ELSE Merged(story, authoritative)

Upsert(story, authoritative) == row' = Upserted(story, authoritative)

Idle(w) == job[w].kind = "none"
At(w, kind) == job[w].kind = kind
Goto(w, next) == job' = [job EXCEPT ![w] = next]
Done(w) == Goto(w, NoJob)

-----------------------------------------------------------------------------
Init ==
  /\ source \in {"hn", "rss"}
  /\ \E n \in Lengths, b \in IF Pointers THEN BOOLEAN ELSE {FALSE} :
       thread = <<[count |-> 1, length |-> n, note |-> b]>>
  /\ row = Missing
  /\ job = [w \in Writers |-> NoJob]

\* Readers comment on the discussion, or edit what they wrote: the count
\* grows or stays, and the selected comments get longer or shorter.
DiscussionMoves ==
  /\ Len(thread) < MaxVersions
  /\ \E d \in 0 .. 1, n \in Lengths, b \in IF Pointers THEN BOOLEAN ELSE {FALSE} :
       thread' = Append(thread, [count |-> LiveCount + d, length |-> n, note |-> b])
  /\ UNCHANGED <<source, row, job>>

-----------------------------------------------------------------------------
(* Ingestion                                                              *)

\* fetch_candidates asks ClickHouse, which lags, then reads the stored rows.
IngestReads(w) ==
  /\ Idle(w) /\ source = "hn"
  /\ \E v \in Snapshots : Goto(w, [kind |-> "ingest", count |-> thread[v].count,
                                   story |-> row])
  /\ UNCHANGED <<source, thread, row>>

\* _ch_story_item_to_story: a story as the live window has it.
FromLiveWindow(count) ==
  [self |-> 0, comments |-> NoComments, body |-> 0,
   text |-> Composed(0, NoComments, 0), count |-> count, marker |-> 0]

\* A story it knew is written if its count, or its score, grew; one it did
\* not know is inserted, or merged into a row that another writer inserted
\* meanwhile.
IngestWrites(w) ==
  /\ At(w, "ingest")
  /\ LET known == job[w].story
     IN  IF known = Missing
           THEN Upsert(FromLiveWindow(job[w].count), FALSE)
           ELSE \/ Upsert([known EXCEPT !.count = Max({@, job[w].count})], FALSE)
                \/ job[w].count <= known.count /\ UNCHANGED row
  /\ Done(w)
  /\ UNCHANGED <<source, thread>>

\* fetch_rss_feeds: a feed entry has a snippet of the text and no comments.
FeedIngest(w) ==
  /\ Idle(w) /\ source = "rss"
  /\ \E n \in TextLengths :
       Upsert([FromLiveWindow(0) EXCEPT !.self = n,
                                        !.text = Composed(n, NoComments, 0)], FALSE)
  /\ UNCHANGED <<source, thread, job>>

-----------------------------------------------------------------------------
(* Hydration of an HN discussion                                          *)

\* A tap, or the regen's growth refresh, holds a copy of the row.
CaptureRow(w, kind) ==
  /\ Idle(w) /\ row # Missing /\ source = "hn"
  /\ Goto(w, [kind |-> kind, story |-> row])
  /\ UNCHANGED <<source, thread, row>>

\* The live count of the probe stands: nothing was fetched at that count yet.
Grew(story) == LiveCount > story.marker

\* _probe_live_counts answers with the live count: a count above the copy's
\* is stored through the copy, and a discussion that grew is fetched.
ProbeAnswers(w, kind, next) ==
  /\ At(w, kind)
  /\ LET story == job[w].story
         healed == [story EXCEPT !.count = Max({@, LiveCount})]
     IN  /\ IF LiveCount > story.count THEN Upsert(healed, FALSE) ELSE UNCHANGED row
         /\ IF Grew(story) THEN Goto(w, [kind |-> next, story |-> healed, live |-> LiveCount])
            ELSE IF kind = "tapProbe" THEN Goto(w, [kind |-> "body", story |-> healed])
            ELSE Done(w)
  /\ UNCHANGED <<source, thread>>

\* fetch_story reads the row before it asks Algolia; a copy with fresh
\* comments, or many of them, is returned unless the fetch is forced.
FetchReads(w) ==
  /\ Idle(w) /\ row # Missing /\ source = "hn"
  /\ row.comments.length = 0 \/ row.count > row.marker
  /\ Goto(w, [kind |-> "fetch", story |-> row])
  /\ UNCHANGED <<source, thread, row>>

\* The forced fetch of a tap or of the growth refresh reads the row again.
ForcedFetchReads(w, kind, next) ==
  /\ At(w, kind)
  /\ Goto(w, [kind |-> next, story |-> row, live |-> job[w].live])
  /\ UNCHANGED <<source, thread, row>>

\* The story Algolia describes, with the body of the captured row.
Hydrated(v, body) ==
  [self |-> 0, comments |-> CommentsOf(v), body |-> body,
   text |-> Composed(0, CommentsOf(v), body),
   count |-> thread[v].count, marker |-> thread[v].count]

\* MUTANT of FetchStores: a fetch that found no comments is authoritative too.
FetchAlwaysStores(w, v) ==
  Upsert(Hydrated(v, job[w].story.body), TRUE)

\* A fetched snapshot with comments replaces what is stored.
FetchStores(w, v) ==
  Upsert(Hydrated(v, job[w].story.body), CommentsOf(v).length > 0)

\* Algolia answers, perhaps behind the live count, or fails: a tap then
\* goes on with the copy it had.
FetchAnswers(w) ==
  /\ \/ At(w, "fetch") \/ At(w, "grownFetch") \/ At(w, "tapFetch")
  /\ \E v \in Snapshots :
       /\ FetchStores(w, v)
       /\ IF At(w, "tapFetch")
            THEN Goto(w, [kind |-> "tapHeal", story |-> row', live |-> job[w].live])
            ELSE Done(w)
  /\ UNCHANGED <<source, thread>>

FetchFails(w) ==
  /\ \/ At(w, "fetch") \/ At(w, "grownFetch") \/ At(w, "tapFetch")
  /\ IF At(w, "tapFetch") THEN Goto(w, [kind |-> "body", story |-> job[w].story])
                          ELSE Done(w)
  /\ UNCHANGED <<source, thread, row>>

\* The tap stores the live count again where Algolia was behind it.
TapHeals(w) ==
  /\ At(w, "tapHeal")
  /\ LET story == job[w].story
         healed == [story EXCEPT !.count = Max({@, job[w].live})]
     IN  /\ IF story.count < job[w].live THEN Upsert(healed, FALSE) ELSE UNCHANGED row
         /\ Goto(w, [kind |-> "body", story |-> healed])
  /\ UNCHANGED <<source, thread>>

-----------------------------------------------------------------------------
(* The hourly prewarm and the hot-count refresh                            *)

\* prewarm_top_stories asks ClickHouse before it reads the rows.
PrewarmQueries(w) ==
  /\ Idle(w) /\ source = "hn" /\ row # Missing
  /\ \E v \in Snapshots : Goto(w, [kind |-> "prewarmRead", version |-> v])
  /\ UNCHANGED <<source, thread, row>>

PrewarmReads(w) ==
  /\ At(w, "prewarmRead")
  /\ Goto(w, [kind |-> "prewarm", version |-> job[w].version, story |-> row])
  /\ UNCHANGED <<source, thread, row>>

\* MUTANT of PrewarmStory: the comments are replaced and their marker is not.
PrewarmKeepsMarker(story, v) ==
  [story EXCEPT !.comments = CommentsOf(v),
                !.text = Composed(story.self, CommentsOf(v), story.body),
                !.count = thread[v].count]

\* The read row with the comments and the count of the snapshot.
PrewarmStory(story, v) ==
  [story EXCEPT !.comments = CommentsOf(v),
                !.text = Composed(story.self, CommentsOf(v), story.body),
                !.count = thread[v].count,
                !.marker = thread[v].count]

\* The write is authoritative; an empty tree only marks a row that has no
\* comments as fetched.
PrewarmWrites(w) ==
  /\ At(w, "prewarm")
  /\ LET story == job[w].story
         v == job[w].version
     IN  IF CommentsOf(v).length > 0
           THEN Upsert(PrewarmStory(story, v), TRUE)
           ELSE IF story.comments.length = 0
             THEN Upsert([story EXCEPT !.count = thread[v].count,
                                       !.marker = thread[v].count], TRUE)
             ELSE UNCHANGED row
  /\ Done(w)
  /\ UNCHANGED <<source, thread>>

\* refresh_hot_counts probes the live count ...
HotProbe(w) ==
  /\ Idle(w) /\ source = "hn" /\ row # Missing
  /\ Goto(w, [kind |-> "hot", count |-> LiveCount])
  /\ UNCHANGED <<source, thread, row>>

\* ... and update_story_counts raises the stored one to it.
HotWrites(w) ==
  /\ At(w, "hot")
  /\ row' = [row EXCEPT !.count = Max({@, job[w].count})]
  /\ Done(w)
  /\ UNCHANGED <<source, thread>>

-----------------------------------------------------------------------------
(* Article bodies, pointer threads and source contexts                     *)

\* fetch_and_cache_article_bodies starts from the deck's ranking copy, which
\* has no texts.
BodyStarts(w) ==
  /\ Idle(w) /\ row # Missing
  /\ Goto(w, [kind |-> "body",
              story |-> [row EXCEPT !.self = 0, !.comments = NoComments, !.body = 0]])
  /\ UNCHANGED <<source, thread, row>>

\* The article arrives, or does not.
BodyArrives(w) ==
  /\ At(w, "body")
  /\ LET story == job[w].story
     IN  \/ \E n \in TextLengths \ {0} :
              Upsert([story EXCEPT !.body = n,
                        !.text = Composed(story.self, story.comments, n)], FALSE)
         \/ UNCHANGED row
  /\ Done(w)
  /\ UNCHANGED <<source, thread>>

IsNote(comments) ==
  /\ comments.version > 0 /\ ~comments.followed /\ thread[comments.version].note

\* _follow_pointer_thread: the stored comments are a note, and the comments
\* it points to are fetched.
FollowStarts(w) ==
  /\ Idle(w) /\ source = "hn" /\ row # Missing /\ IsNote(row.comments)
  /\ Goto(w, [kind |-> "follow", story |-> row])
  /\ UNCHANGED <<source, thread, row>>

\* The answer makes it read the row again: comments that are no note any
\* more supersede it.
FollowAnswers(w) ==
  /\ At(w, "follow")
  /\ IF \/ row.comments = job[w].story.comments
        \/ IsNote(row.comments)
       THEN Goto(w, [kind |-> "followWrite", story |-> row])
       ELSE Done(w)
  /\ UNCHANGED <<source, thread, row>>

\* The write is authoritative: the other thread may be shorter than the note.
FollowWrites(w) ==
  /\ At(w, "followWrite")
  /\ LET story == job[w].story
     IN  \E n \in Lengths \ {0} :
           LET comments == [story.comments EXCEPT !.followed = TRUE, !.length = n]
           IN  Upsert([story EXCEPT !.comments = comments,
                         !.text = Composed(story.self, comments, story.body)], TRUE)
  /\ Done(w)
  /\ UNCHANGED <<source, thread>>

\* A prewarm or a tap fetches the post and the comments of an RSS story.
ContextStarts(w) ==
  /\ Idle(w) /\ source = "rss" /\ row # Missing
  /\ Goto(w, [kind |-> "context", story |-> row])
  /\ UNCHANGED <<source, thread, row>>

\* _merge_source_context: the longer self text, the longer comments (the
\* Reddit prewarm comes here only with longer ones) and the largest counts.
WithContext(story, self, v) ==
  LET longest == Max({story.self, self})
      comments == IF CommentsOf(v).length > story.comments.length
                    THEN CommentsOf(v) ELSE story.comments
  IN  [story EXCEPT !.self = longest,
                    !.comments = comments,
                    !.text = Composed(longest, comments, story.body),
                    !.count = Max({@, thread[v].count}),
                    !.marker = Max({@, thread[v].count})]

ContextAnswers(w) ==
  /\ At(w, "context")
  /\ \/ \E n \in TextLengths, v \in Snapshots :
          /\ n > 0 \/ CommentsOf(v).length > 0
          /\ Upsert(WithContext(job[w].story, n, v), FALSE)
     \/ UNCHANGED row
  /\ Done(w)
  /\ UNCHANGED <<source, thread>>

-----------------------------------------------------------------------------
Next ==
  \/ DiscussionMoves
  \/ \E w \in Writers :
       \/ IngestReads(w) \/ IngestWrites(w) \/ FeedIngest(w)
       \/ CaptureRow(w, "tapProbe") \/ CaptureRow(w, "grownProbe")
       \/ ProbeAnswers(w, "tapProbe", "tapRead")
       \/ ProbeAnswers(w, "grownProbe", "grownRead")
       \/ FetchReads(w)
       \/ ForcedFetchReads(w, "tapRead", "tapFetch")
       \/ ForcedFetchReads(w, "grownRead", "grownFetch")
       \/ FetchAnswers(w) \/ FetchFails(w) \/ TapHeals(w)
       \/ PrewarmQueries(w) \/ PrewarmReads(w) \/ PrewarmWrites(w)
       \/ HotProbe(w) \/ HotWrites(w)
       \/ BodyStarts(w) \/ BodyArrives(w)
       \/ FollowStarts(w) \/ FollowAnswers(w) \/ FollowWrites(w)
       \/ ContextStarts(w) \/ ContextAnswers(w)

Spec == Init /\ [][Next]_vars

-----------------------------------------------------------------------------
Stored == row # Missing

\* What a writer may be doing, with the copies it holds.
Jobs ==
  {NoJob}
    \cup [kind : {"ingest"}, count : Nat, story : Story \cup {Missing}]
    \cup [kind : {"tapProbe", "grownProbe", "fetch", "body", "follow",
                  "followWrite", "context"}, story : Story]
    \cup [kind : {"tapRead", "grownRead", "tapFetch", "grownFetch", "tapHeal"},
          story : Story, live : Nat]
    \cup [kind : {"prewarmRead"}, version : Snapshots]
    \cup [kind : {"prewarm"}, version : Snapshots, story : Story]
    \cup [kind : {"hot"}, count : Nat]

\* The row, the discussion and the writers' copies keep their types, and only
\* an ingestion may hold a story that is not stored.
TypeOK ==
  /\ source \in {"hn", "rss"}
  /\ thread \in Seq([count : Nat, length : Lengths, note : BOOLEAN])
  /\ Len(thread) \in 1 .. MaxVersions
  /\ row \in Story \cup {Missing}
  /\ job \in [Writers -> Jobs]
  /\ row = Missing => \A w \in Writers : job[w].kind \in {"none", "ingest"}

\* The text that is embedded and summarised is the one composed of the row's
\* own fields, although writers merge fields of copies taken at different
\* times (upsert_story recomposes).
TextAgrees ==
  Stored => row.text = Composed(row.self, row.comments, row.body)

\* "Authoritative comments and their fetched-count marker move together": the
\* marker of an HN row is the count of the version its comments are from, so
\* growth is measured against what is really stored.
MarkerAgrees ==
  Stored /\ source = "hn" /\ row.comments.length > 0 =>
    row.marker = thread[row.comments.version].count

\* Whoever wrote last, and from however old a copy, the row belongs together.
RowAgrees == TextAgrees /\ MarkerAgrees

\* No writer takes away what another has found: the self text and the body
\* never get shorter, and stored comments are never replaced by none.  The
\* exception is a prewarm that read the row before it had comments and whose
\* snapshot has none: it marks the row as fetched, and wipes what came since.
NothingLost ==
  [][Stored =>
       /\ row'.self >= row.self
       /\ row'.body >= row.body
       /\ \/ row.comments.length = 0
          \/ row'.comments.length > 0
          \/ \E w \in Writers : /\ PrewarmWrites(w)
                               /\ job[w].story.comments.length = 0]_vars

\* A write whose comments are authoritative.
AuthoritativeStep ==
  \E w \in Writers : FetchAnswers(w) \/ PrewarmWrites(w) \/ FollowWrites(w)

\* Routine ingestion never replaces comments by those of an earlier count
\* (the guard of upsert_story), whatever copy it held and for how long.
RoutineNeverOlder ==
  [][Stored /\ ~AuthoritativeStep => row'.marker >= row.marker]_vars

\* Hydrations and prewarms may store an older snapshot over a newer one (both
\* are authoritative).  When they do, the row shows it: its count stays above
\* its marker, so the next probe, tap or prewarm fetches again.
OverwrittenIsVisible ==
  [][Stored /\ row'.marker < row.marker => row'.count > row'.marker]_vars
=============================================================================
