--------------------------- MODULE MCClientToServer ---------------------------
(***************************************************************************)
(* ClientToServer with the server's packets bounded by MaxSent.            *)
(***************************************************************************)
EXTENDS ClientToServer
=============================================================================
