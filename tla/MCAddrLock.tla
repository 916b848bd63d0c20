----------------------------- MODULE MCAddrLock -----------------------------
(***************************************************************************)
(* Three calls over two wallets, two attempts each, with two transactions  *)
(* of outsiders per wallet: a queue of three on one address while the      *)
(* other address is used, a retry, and retries that run out.               *)
(***************************************************************************)
EXTENDS AddrLock
=============================================================================
