------------------------------- MODULE MCPipe -------------------------------
(* One reader and two writers that compete, with and without overflow. *)
EXTENDS Pipe
=============================================================================
