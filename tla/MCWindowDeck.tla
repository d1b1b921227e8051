---------------------------- MODULE MCWindowDeck ----------------------------
(* WindowDeck on small instances: seven candidates, a discussion outside the *)
(* pool that is too old for a day, and a story that was voted on.            *)
EXTENDS WindowDeck, TLC

Outside == 8
VotedOn == 9
Posts == 1 .. 7

Days == "day" :> 1 @@ "week" :> 9

Plain ==
  [ranked    |-> <<1, 2, 3, 4, 5, 6, 7>>,
   entropy   |-> <<7, 5, 3, 1, 6, 4, 2>>,
   gravity   |-> <<6, 2, 8, 1, 3, 9>>,
   arms      |-> <<>>,
   age       |-> [s \in Stories |-> IF s = Outside THEN 5 ELSE 0],
   votes     |-> VotedOn :> "up" @@ [s \in Stories |-> "none"],
   far       |-> {},
   interest  |-> [s \in Stories |-> 1 + (s % 2)],
   hn        |-> {1, 2, 3, 6, 8, 9},
   url       |-> [s \in Stories |-> s],
   near      |-> <<>>,
   titles    |-> {},
   worth     |-> [s \in Stories |-> [source |-> IF s \in {1, 2, 3, 6, 8, 9} THEN 1 ELSE 2,
                                     points |-> s]],
   canonical |-> [s \in Stories |-> NoStory],
   showable  |-> Stories]

Challenger == <<7, 3, 6, 2, 1, 5, 4>>

\* Stories that leave the day, and stories far from the up-vote.
Ageing ==
  {[Plain EXCEPT !.far = far, !.arms = arms,
                 !.age = [s \in Stories |-> IF s \in old THEN 1 ELSE @[s]]] :
     far \in {{2}, {3}, {2, 7}, {3, 6}, {2, 3, 6, 7}},
     old \in {{}, {3}, {1, 3, 6}}, arms \in {<<>>, <<Challenger>>}}

\* Duplicates: what was voted on, close and equal stories, stored resolutions.
Duplicates ==
  {[Plain EXCEPT !.votes = VotedOn :> trial.action @@ @, !.near = near, !.canonical = links @@ @,
                 !.url = same @@ @, !.arms = trial.arms, !.far = {2, 6}] :
     trial \in {[action |-> "none", arms |-> <<>>], [action |-> "down", arms |-> <<>>],
               [action |-> "up", arms |-> <<Challenger>>]},
     near \in {<<{1, 2}>>, <<{4, 9}, {3, 4}>>},
     links \in {1 :> 8 @@ 2 :> 8, 1 :> 3 @@ 3 :> 8, 2 :> 9 @@ 6 :> 1},
     same \in {6 :> 1, 5 :> 4 @@ 7 :> 4, 3 :> 9}}

\* Similar titles, and discussions that cannot be shown.
Similar ==
  {[Plain EXCEPT !.titles = {{3, 9}, {5, 9}}, !.canonical = 1 :> 8 @@ 6 :> 8 @@ @,
                 !.showable = shown, !.entropy = entropy, !.far = {5, 7}] :
     shown \in {Stories, Posts}, entropy \in {<<>>, Plain.entropy}}

\* A story of the archive stands for a newer one, and duplicates one that is not
\* in the archive.
Archived ==
  {[Plain EXCEPT !.near = <<{s, 6}>>, !.canonical = 6 :> Outside @@ @,
                 !.age = 6 :> 12 @@ Outside :> age @@ @,
                 !.worth = [@ EXCEPT ![6].points = points]] :
     s \in {1, 2}, age \in {0, 5, 12}, points \in {0, 90}}

\* What may be voted on for a while only is preferred to what was picked.
Withdrawn ==
  {[Plain EXCEPT !.url = Outside :> 2 @@ @, !.worth = [@ EXCEPT ![Outside].source = 0]]}

\* Posts that were each resolved to another when that was the stronger one.
Circles ==
  {[Plain EXCEPT !.canonical = links @@ @, !.near = near] :
     links \in {1 :> 2 @@ 2 :> 1, 1 :> 2 @@ 2 :> 3 @@ 3 :> 1, 1 :> 2 @@ 2 :> 1 @@ 3 :> 8},
     near \in {<<>>, <<{1, 2}>>, <<{2, 3}>>, <<{3, 4}>>}}

MCPools == Ageing \cup Duplicates \cup Similar \cup Archived \cup Withdrawn \cup Circles
=============================================================================
