-------------------------- MODULE MCRedditRefresh --------------------------
(* RedditRefresh on small instances.                                        *)
EXTENDS RedditRefresh
=============================================================================
