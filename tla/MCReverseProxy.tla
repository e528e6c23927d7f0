--------------------------- MODULE MCReverseProxy ---------------------------
(* Instances of ReverseProxy for TLC. *)
EXTENDS ReverseProxy, TLC

CONSTANTS s1, s2

MCOrderOne == <<s1>>
MCOrderTwo == <<s1, s2>>

\* Connections are interchangeable.
Symmetry == Permutations(Conns)

=============================================================================
