------------------------- MODULE MCPrototypeServer -------------------------
(* Instances of PrototypeServer for TLC. *)
EXTENDS PrototypeServer

\* A negative number, the terminal, server_fd, the two lowest descriptors that
\* accept may give.
MCGarbage == {-1, 1, 3, 4, 5}

=============================================================================
