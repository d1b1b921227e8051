----------------------------- MODULE MCStoryRow -----------------------------
(* StoryRow on small instances.                                             *)
EXTENDS StoryRow, TLC

CONSTANTS w1, w2

WriterSymmetry == Permutations({w1, w2})
=============================================================================
