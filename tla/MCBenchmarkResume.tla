------------------------- MODULE MCBenchmarkResume -------------------------
(* Two questions, any agent, for BenchmarkResume. *)
EXTENDS BenchmarkResume

MCQids == <<1, 2>>
=============================================================================
