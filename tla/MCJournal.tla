----------------------------- MODULE MCJournal -----------------------------
(* Values for the checks of Journal. *)
EXTENDS Journal, TLC

CONSTANTS f1, f2, f3, p1, p2

\* Two processes, one of them with two concurrent callers.
MCSiblings == (f1 :> p1) @@ (f2 :> p1) @@ (f3 :> p2)

\* Two processes with one caller each.
MCStrangers == (f1 :> p1) @@ (f3 :> p2)

\* The strangers change places together with their processes; the requests
\* are interchangeable.
MCSymmetry ==
  Permutations(Requests) \cup {(f1 :> f3) @@ (f3 :> f1) @@ (p1 :> p2) @@ (p2 :> p1)}
=============================================================================
