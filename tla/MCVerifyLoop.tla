---------------------------- MODULE MCVerifyLoop ----------------------------
(* Values for the checks of VerifyLoop. *)
EXTENDS VerifyLoop, TLC

\* Sessions, paths and tool calls are interchangeable.
MCSymmetry == Permutations(Sessions) \cup Permutations(Files) \cup Permutations(Calls)
=============================================================================
