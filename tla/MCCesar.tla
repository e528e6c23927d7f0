------------------------------ MODULE MCCesar ------------------------------
(* Instances of Cesar for TLC. *)
EXTENDS Cesar

\* The ends of the printable range, a line feed and a byte of a UTF-8 letter.
MCTexts == {<<126, 32>>, <<33>>, <<10, 125, 195>>}
MCResponses == {<<>>, <<32, 126>>, <<10, 124, 195>>}

=============================================================================
