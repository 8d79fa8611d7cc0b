--------------------------- MODULE MCGrootPolicy ---------------------------
(* A chunk of three actions and five queries: every position of a chunk    *)
(* can be the one at which a reset, a re-query, a repeat or a failed query *)
(* arrives, and several chunks follow each other.                          *)
EXTENDS GrootPolicy

=============================================================================
