---------------------------- MODULE MCClientAuth ----------------------------
(* ClientAuth for TLC. *)
EXTENDS ClientAuth
=============================================================================
