------------------------------ MODULE MCSession -----------------------------
(***************************************************************************)
(* An instance of Session for TLC: the processes that register, and what   *)
(* two killed runs left, one while it destroyed and one while it created.  *)
(***************************************************************************)
EXTENDS Session

Processes == {"main", "wallet"}

KilledTwice == {{0, 1, 2, 6, 7, 8}}
=============================================================================
