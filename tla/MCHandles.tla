------------------------------ MODULE MCHandles ------------------------------
(* Handles with interchangeable clients, endpoints and descriptors. *)
EXTENDS Handles, TLC

Symmetry == Permutations(Clients) \cup Permutations(Endpoints)
              \cup Permutations(Fds)
=============================================================================
