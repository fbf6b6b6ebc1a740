---------------------------- MODULE MCUploadSync ----------------------------
(***************************************************************************)
(* UploadSync for TLC.  Calls and requests are interchangeable.            *)
(***************************************************************************)
EXTENDS UploadSync, TLC

CallSymmetry == Permutations(Calls) \cup Permutations(Requests)
=============================================================================
