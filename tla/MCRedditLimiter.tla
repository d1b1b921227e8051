-------------------------- MODULE MCRedditLimiter --------------------------
(* RedditLimiter on small instances.                                        *)
EXTENDS RedditLimiter

Backoff23 == <<2, 3>>

(* Like the code's constants, the instance's are such that a probe is alone. *)
ASSUME LikeTheCode == CooldownOutlasts
=============================================================================
