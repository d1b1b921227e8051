------------------------------ MODULE MCClient ------------------------------
(* Client on small instances.                                               *)
EXTENDS Client
=============================================================================
