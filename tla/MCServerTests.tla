---- MODULE MCServerTests ----
(* Programs are interchangeable; so are process ids. *)
EXTENDS ServerTests, TLC
Symmetry == Permutations(Procs) \cup Permutations(Pids)
====
