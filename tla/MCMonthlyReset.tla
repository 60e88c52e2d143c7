--------------------------- MODULE MCMonthlyReset ---------------------------
(* Model-checking instance of MonthlyReset. *)
EXTENDS MonthlyReset, TLC

\* Instances and requests are interchangeable in the runs without liveness.
Symmetry == Permutations(Instances) \cup Permutations(Requests)
=============================================================================
