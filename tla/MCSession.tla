------------------------------ MODULE MCSession ------------------------------
(***************************************************************************)
(* Session for TLC.  Calls and requests are interchangeable.               *)
(***************************************************************************)
EXTENDS Session, TLC

SessionSymmetry == Permutations(Calls) \cup Permutations(Requests)
=============================================================================
