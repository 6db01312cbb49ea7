---------------------------- MODULE MCBenchmark ----------------------------
(* Small instances of Benchmark for TLC. *)
EXTENDS Benchmark

\* The better total has the worse checks.
MCScores == {[total |-> 1, checks |-> 2], [total |-> 2, checks |-> 1]}

\* One candidate's directory: trials differ only in their place, and a judge's is
\* cleaned up by the same operator (for every set see BenchmarkProofs).
MCStuck == {<<1, "candidate">>}
=============================================================================
