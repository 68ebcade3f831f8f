----------------------------- MODULE MCConsole ------------------------------
(***************************************************************************)
(* Instances of Console for TLC: what is typed.                            *)
(***************************************************************************)
EXTENDS Console

Numbers == [n \in {"-1", "0", "1", "2", "5"} |->
              CASE n = "-1" -> -1 [] n = "0" -> 0 [] n = "1" -> 1
                [] n = "2" -> 2 [] n = "5" -> 5]

(* Transfers that are accepted, past the limit and refused for each other  *)
(* reason, arguments missing, an end in the place of an argument, no end   *)
(* at all.                                                                 *)
Typed ==
  {<<"trx", "0", "0", "1", "trx", "0", "0", "2", "trx", "0", "0", "1">>,
   <<"trx", "0", "0", "1", "rcp", "0", "trx", "0", "end">>,
   <<"bal", "0", "trx", "0", "0", "1", "trx", "0", "0", "1", "bal", "5", "5", "end">>,
   <<"trx", "0", "0", "trx", "0", "0", "2", "rcp", "5", "stat", "rcp", "end">>,
   <<"trx", "1", "0", "1", "trx", "0", "-1", "1", "trx", "0", "0", "-1",
     "trx", "0", "0", "5", "help", "bal", "end">>,
   <<"rcp", "0", "rcp">>, <<"trx">>,
   <<>>}

TypedTransfers ==
  {<<Numbers[s[i+1]], Numbers[s[i+2]], Numbers[s[i+3]]>> :
     <<s, i>> \in {<<s, i>> \in Typed \X (1 .. 19) :
       /\ i + 3 <= Len(s) /\ s[i] = "trx"
       /\ \A k \in 1 .. 3 : s[i+k] \in DOMAIN Numbers}}

TypedIds ==
  {Numbers[s[i+1]] : <<s, i>> \in {<<s, i>> \in Typed \X (1 .. 19) :
     i + 1 <= Len(s) /\ s[i] = "rcp" /\ s[i+1] \in DOMAIN Numbers}}
=============================================================================
