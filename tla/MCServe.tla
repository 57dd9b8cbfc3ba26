------------------------------- MODULE MCServe -------------------------------
(* One command after another and two server processes for TLC. *)
EXTENDS Serve
=============================================================================
