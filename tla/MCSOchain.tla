------------------------------ MODULE MCSOchain -----------------------------
(***************************************************************************)
(* Instances of SOchain for TLC: what the user may type.                   *)
(***************************************************************************)
EXTENDS SOchain

(* What create_transaction refuses: a wallet that does not exist, on each  *)
(* side, an amount that is not positive, one above any balance.            *)
Refused == {<<-1, 0, 1>>, <<NWallets, 0, 1>>, <<0, NWallets, 1>>, <<0, -1, 1>>,
            <<0, 0, 0>>, <<0, 0, 100>>}

ToOne       == {<<0, 1, 1>>, <<1, 1, 2>>} \cup Refused
FromZero    == {<<0, 1, 1>>}
ToSelf      == {<<0, 0, 1>>} \cup Refused
AllOfIt     == {<<0, 1, 2>>}

(* The first transaction, and one that is never created. *)
SomeIds == {0, 5}
==============================================================================
