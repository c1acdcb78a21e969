------------------------- MODULE MCSourceLifecycle -------------------------
(* A small instance of SourceLifecycle for TLC.                            *)
EXTENDS SourceLifecycle
=============================================================================
