--------------------------- MODULE MCNetworkClient ---------------------------
(* NetworkClient with an owner that writes as fast as it can. *)
EXTENDS NetworkClient
=============================================================================
