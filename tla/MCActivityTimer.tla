--------------------------- MODULE MCActivityTimer ---------------------------
(* The timer of a connection whose two directions end with SetTimeout. *)
EXTENDS ActivityTimer
=============================================================================
