-------------------------- MODULE MCWarmScheduler --------------------------
(* WarmScheduler on two keys and two worker threads.                        *)
EXTENDS WarmScheduler, TLC

MCDelays == {0, 1}

(* Workers and callers are interchangeable; no property names one.          *)
Symmetric == Permutations(Workers) \union Permutations(Callers)
=============================================================================
