---------------------------- MODULE MCHealthPing ----------------------------
(* Two outbounds and two rounds at a time. *)
EXTENDS HealthPing
=============================================================================
