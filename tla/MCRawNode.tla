----------------------------- MODULE MCRawNode -----------------------------
(* Requests to a node for TLC. *)
EXTENDS RawNode
=============================================================================
