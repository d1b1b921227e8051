----------------------------- MODULE MCHnDupes -----------------------------
(* HnDupes on small instances.                                              *)
EXTENDS HnDupes, TLC

CONSTANTS a, b, c

I(score, comments, links) ==
  [live |-> TRUE, score |-> score, comments |-> comments, links |-> links]

\* Two posts of the pool and a discussion outside it: both duplicate it, one
\* by way of the other, ...
Chain == a :> I(1, 0, {b}) @@ b :> I(1, 1, {c}) @@ c :> I(2, 3, {})
\* ... it has died, and the posts have grown ...
Dead == [Chain EXCEPT ![c].live = FALSE, ![a].comments = 2]
\* ... or b's comments link back to a, which has overtaken it.
Overtaken == a :> I(3, 1, {b, c}) @@ b :> I(1, 1, {a}) @@ c :> I(2, 3, {a})

Moving == {Chain, Dead, Overtaken}
=============================================================================
