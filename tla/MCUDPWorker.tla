----------------------------- MODULE MCUDPWorker -----------------------------
(* One source address, whose connections follow one another. *)
EXTENDS UDPWorker
=============================================================================
