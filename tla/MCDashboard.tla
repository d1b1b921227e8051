---------------------------- MODULE MCDashboard ----------------------------
(* Dashboard on small instances.  Threads of one kind and users are alike.  *)
EXTENDS Dashboard, TLC

Symmetric ==
  UNION {Permutations(Users), Permutations(Requests), Permutations(Workers),
         Permutations(Publishers)}
=============================================================================
