----------------------------- MODULE MCLearning -----------------------------
(* A small switch for Learning.  A host may come back to where it was.     *)
EXTENDS Learning

CONSTANTS a, b

MCHost == {a, b}

MCPort == 1..2
=============================================================================
