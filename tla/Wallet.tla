------------------------------- MODULE Wallet -------------------------------
(***************************************************************************)
(* execute_wallet (wallet.c): a wallet polls main's buffer for its own     *)
(* transactions, signs them and passes them on to the servers.             *)
(***************************************************************************)
EXTENDS SharedMemory

(* The loop body starts with a new, unassigned struct transaction.         *)
(* wallet_receive_transaction returns at once when terminate is set.       *)
WalletReceive(p) ==
  /\ pc[p] = "top"
  /\ tx' = [tx EXCEPT ![p] = IndeterminateTx]
  /\ Goto(p, IF terminate = 1 THEN "got" ELSE "r_flag")
  /\ UNCHANGED <<flags, money, stats, mw, ws, sm, ledger, idx, wrd, mainVar>>

(* read_main_wallets_buffer *)
WalletRead(p) ==
  /\ MW!Read(p)
  /\ UNCHANGED <<flags, money, stats, ws, sm, ledger, mainVar>>

(* The second look at terminate, after the read. *)
WalletExit(p) ==
  /\ pc[p] = "got"
  /\ terminate = 1
  /\ Goto(p, "exited")
  /\ tx' = [tx EXCEPT ![p] = IndeterminateTx]
  /\ UNCHANGED <<flags, money, stats, mw, ws, sm, ledger, idx, wrd, mainVar>>

(* A faulty variant of WalletIdle: the loop ends when nothing was read. *)
WalletIdleStops(p) ==
  /\ pc[p] = "got"
  /\ terminate # 1
  /\ tx[p].id = NoTx
  /\ Goto(p, "exited")
  /\ UNCHANGED <<flags, money, stats, mw, ws, sm, ledger, tx, idx, wrd,
                 mainVar>>

(* Nothing was read: usleep, then again. *)
WalletIdle(p) ==
  /\ pc[p] = "got"
  /\ terminate # 1
  /\ tx[p].id = NoTx
  /\ Goto(p, "top")
  /\ UNCHANGED <<flags, money, stats, mw, ws, sm, ledger, tx, idx, wrd,
                 mainVar>>

(* wallet_process_transaction signs if the transaction is this wallet's;   *)
(* a signature of this wallet, wherever it comes from, sends it on.        *)
WalletProcess(p) ==
  LET w      == Id(p)
      own    == tx[p].src_id = w
      signed == IF own THEN [tx[p] EXCEPT !.wallet_signature = w] ELSE tx[p]
  IN /\ pc[p] = "got"
     /\ terminate # 1
     /\ tx[p].id # NoTx
     /\ tx' = [tx EXCEPT ![p] = signed]
     /\ wallets_stats' = [wallets_stats EXCEPT ![w] = IF own THEN @ + 1 ELSE @]
     /\ Goto(p, IF signed.wallet_signature = w THEN "put_in" ELSE "top")
     /\ UNCHANGED <<flags, money, servers_stats, mw, ws, sm, ledger, idx, wrd,
                    mainVar>>

(* wallet_send_transaction *)
WalletSend(p) ==
  /\ WS!Put(p)
  /\ UNCHANGED <<flags, money, stats, mw, sm, ledger, mainVar>>

WalletStep(p) ==
  \/ WalletReceive(p) \/ WalletRead(p) \/ WalletExit(p) \/ WalletIdle(p)
  \/ WalletProcess(p) \/ WalletSend(p)
=============================================================================
