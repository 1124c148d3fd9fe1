--------------------------- MODULE MCTcpService ---------------------------
(* The TCP side of h9d for TLC. *)
EXTENDS TcpService, TLC

ClientSymmetry == Permutations(Clients)
=============================================================================
