--------------------------- MODULE MCActivityLog ---------------------------
(* Connections, descriptors and servers are interchangeable.               *)
EXTENDS ActivityLog, TLC

Symmetry == Permutations(Conns) \cup Permutations(Fds) \cup Permutations(Servers)

=============================================================================
