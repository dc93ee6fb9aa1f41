------------------------ MODULE MCSessionCoordinator ------------------------
(* SessionCoordinator on small instances. *)
EXTENDS SessionCoordinator, TLC

Interchangeable == Permutations(Session) \cup Permutations(Thread)

=============================================================================
