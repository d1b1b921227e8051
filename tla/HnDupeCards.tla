---------------------------- MODULE HnDupeCards ----------------------------
(***************************************************************************)
(* Decks over the stored resolutions: canonical_outcomes                   *)
(* (pipeline/hn_dupes.py) replaces the cards of HN stories by the          *)
(* discussions they duplicate, drops them, or leaves them alone.           *)
(*                                                                         *)
(* A list of cards comes with what one call reads: the canonical stories,  *)
(* the stories that are HN's, the user's up and neutral votes, the stories *)
(* like one of them, and the stories that can be shown.                    *)
(***************************************************************************)
EXTENDS SequencesExt

CONSTANT NoStory   \* what a story that duplicates none duplicates

Dropped == NoStory

\* MUTANT of Outcome: a discussion that was just put on the list does not count
\* as being there.
Twice(read, story, emitted) ==
  LET target == read.canonical[story]
      itself == IF story \in emitted THEN Dropped ELSE story
      taken == read.voted \cup Range(read.ranked)
  IN  IF story \notin read.hn THEN itself
      ELSE IF story \in read.alike THEN Dropped
      ELSE IF target = NoStory THEN itself
      ELSE IF target \in taken THEN Dropped
      ELSE IF target \in read.showable THEN target ELSE itself

\* The outcome of an HN card: dropped if it is like a story that was voted
\* on, or if its canonical story was voted on, is on the list or was put
\* there; replaced by its canonical story; or itself, if that cannot be shown.
Outcome(read, story, emitted) ==
  LET target == read.canonical[story]
      itself == IF story \in emitted THEN Dropped ELSE story
      taken == read.voted \cup Range(read.ranked) \cup emitted
  IN  CASE story \notin read.hn -> itself
        [] story \in read.hn \cap read.alike -> Dropped
        [] story \in read.hn \ read.alike /\ target = NoStory -> itself
        [] story \in read.hn \ read.alike /\ target # NoStory ->
             IF target \in taken THEN Dropped
             ELSE IF target \in read.showable THEN target
             ELSE itself

\* One pass over the list.  emitted holds every story whose turn it was, the
\* dropped ones too, but for a replaced one its canonical story instead.
Outcomes(read) ==
  LET done[n \in 0 .. Len(read.ranked)] ==
        IF n = 0 THEN [cards |-> <<>>, emitted |-> {}]
        ELSE LET before == done[n - 1]
                 story == read.ranked[n]
                 card == Outcome(read, story, before.emitted)
             IN  [cards   |-> Append(before.cards, card),
                  emitted |-> before.emitted \cup {IF card = Dropped THEN story ELSE card}]
  IN  done[Len(read.ranked)].cards
=============================================================================
