--------------------------- MODULE MCUpstreamAuth ---------------------------
(* Small instances of UpstreamAuth. *)
EXTENDS UpstreamAuth

CONSTANTS c1
=============================================================================
