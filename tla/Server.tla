------------------------------- MODULE Server -------------------------------
(***************************************************************************)
(* execute_server (server.c): a server polls the ring of signed            *)
(* transactions, moves the money, writes the ledger and leaves a receipt   *)
(* for main.                                                               *)
(***************************************************************************)
EXTENDS SharedMemory

CONSTANT LedgerMayFail  \* whether fopen of ledger.txt may return NULL

ASSUME LedgerAssumption == LedgerMayFail \in BOOLEAN

(* A new, unassigned struct transaction; server_receive_transaction        *)
(* returns at once when terminate is set.                                  *)
ServerReceive(p) ==
  /\ pc[p] = "top"
  /\ tx' = [tx EXCEPT ![p] = IndeterminateTx]
  /\ Goto(p, IF terminate = 1 THEN "got" ELSE "get_in")
  /\ UNCHANGED <<flags, money, stats, mw, ws, sm, ledger, idx, wrd, mainVar>>

(* read_wallets_servers_buffer *)
ServerRead(p) ==
  /\ WS!Get(p)
  /\ UNCHANGED <<flags, money, stats, mw, sm, ledger, mainVar>>

(* A faulty variant of ServerExit: only a server with nothing to do ends. *)
ServerExitIdle(p) ==
  /\ pc[p] = "got"
  /\ terminate = 1
  /\ tx[p].id = NoTx
  /\ Goto(p, "exited")
  /\ tx' = [tx EXCEPT ![p] = IndeterminateTx]
  /\ UNCHANGED <<flags, money, stats, mw, ws, sm, ledger, idx, wrd, mainVar>>

(* The second look at terminate, after the read. *)
ServerExit(p) ==
  /\ pc[p] = "got"
  /\ terminate = 1
  /\ Goto(p, "exited")
  /\ tx' = [tx EXCEPT ![p] = IndeterminateTx]
  /\ UNCHANGED <<flags, money, stats, mw, ws, sm, ledger, idx, wrd, mainVar>>

(* A faulty variant of ServerIdle: the loop ends when nothing was read. *)
ServerIdleStops(p) ==
  /\ pc[p] = "got"
  /\ terminate # 1
  /\ tx[p].id = NoTx
  /\ Goto(p, "exited")
  /\ UNCHANGED <<flags, money, stats, mw, ws, sm, ledger, tx, idx, wrd,
                 mainVar>>

(* A faulty variant of ServerIdle: it looks at the id before terminate. *)
ServerIdleFirst(p) ==
  /\ pc[p] = "got"
  /\ tx[p].id = NoTx
  /\ Goto(p, "top")
  /\ UNCHANGED <<flags, money, stats, mw, ws, sm, ledger, tx, idx, wrd,
                 mainVar>>

(* Nothing was read: usleep, then again. *)
ServerIdle(p) ==
  /\ pc[p] = "got"
  /\ terminate # 1
  /\ tx[p].id = NoTx
  /\ Goto(p, "top")
  /\ UNCHANGED <<flags, money, stats, mw, ws, sm, ledger, tx, idx, wrd,
                 mainVar>>

(* server_process_transaction refuses what its source wallet did not sign. *)
(* The caller then compares server_signature, which nobody has assigned.   *)
ServerReject(p) ==
  /\ pc[p] = "got"
  /\ terminate # 1
  /\ tx[p].id # NoTx
  /\ tx[p].src_id # tx[p].wallet_signature
  /\ Goto(p, IF tx[p].server_signature = Id(p) THEN "w_flag" ELSE "top")
  /\ UNCHANGED <<flags, money, stats, mw, ws, sm, ledger, tx, idx, wrd,
                 mainVar>>

ServerAccept(p) ==
  /\ pc[p] = "got"
  /\ terminate # 1
  /\ tx[p].id # NoTx
  /\ tx[p].src_id = tx[p].wallet_signature
  /\ Goto(p, "load_dest")
  /\ UNCHANGED <<flags, money, stats, mw, ws, sm, ledger, tx, idx, wrd,
                 mainVar>>

(* balances[dest_id] += amount: a load, then a store. *)
LoadDest(p) ==
  /\ pc[p] = "load_dest"
  /\ reg' = [reg EXCEPT ![Id(p)] = balances[tx[p].dest_id]]
  /\ Goto(p, "store_dest")
  /\ UNCHANGED <<flags, balances, stats, mw, ws, sm, ledger, tx, idx, wrd,
                 mainVar>>

StoreDest(p) ==
  /\ pc[p] = "store_dest"
  /\ balances' = [balances EXCEPT ![tx[p].dest_id] = reg[Id(p)] + tx[p].amount]
  /\ reg' = [reg EXCEPT ![Id(p)] = 0]
  /\ Goto(p, "load_src")
  /\ UNCHANGED <<flags, stats, mw, ws, sm, ledger, tx, idx, wrd, mainVar>>

(* balances[src_id] -= amount *)
LoadSrc(p) ==
  /\ pc[p] = "load_src"
  /\ reg' = [reg EXCEPT ![Id(p)] = balances[tx[p].src_id]]
  /\ Goto(p, "store_src")
  /\ UNCHANGED <<flags, balances, stats, mw, ws, sm, ledger, tx, idx, wrd,
                 mainVar>>

(* A faulty variant of StoreSrc: the source is credited. *)
StoreSrcPlus(p) ==
  /\ pc[p] = "store_src"
  /\ balances' = [balances EXCEPT ![tx[p].src_id] = reg[Id(p)] + tx[p].amount]
  /\ reg' = [reg EXCEPT ![Id(p)] = 0]
  /\ Goto(p, "sign")
  /\ UNCHANGED <<flags, stats, mw, ws, sm, ledger, tx, idx, wrd, mainVar>>

StoreSrc(p) ==
  /\ pc[p] = "store_src"
  /\ balances' = [balances EXCEPT ![tx[p].src_id] = reg[Id(p)] - tx[p].amount]
  /\ reg' = [reg EXCEPT ![Id(p)] = 0]
  /\ Goto(p, "sign")
  /\ UNCHANGED <<flags, stats, mw, ws, sm, ledger, tx, idx, wrd, mainVar>>

(* The signature, and the counter only this server writes. *)
ServerSign(p) ==
  /\ pc[p] = "sign"
  /\ tx' = [tx EXCEPT ![p].server_signature = Id(p)]
  /\ servers_stats' = [servers_stats EXCEPT ![Id(p)] = @ + 1]
  /\ Goto(p, "ledger")
  /\ UNCHANGED <<flags, money, wallets_stats, mw, ws, sm, ledger, idx, wrd,
                 mainVar>>

(* What a transfer of this transaction adds to the balance of w. *)
NetOf(t, w) == (IF t.dest_id = w THEN t.amount ELSE 0)
             - (IF t.src_id  = w THEN t.amount ELSE 0)

(* write_ledger: one append of one line.  The text is abstracted to the    *)
(* amounts it moves and the server it names.                               *)
WriteLedger(p) ==
  /\ pc[p] = "ledger"
  /\ ledger_net' = [w \in Wallets |-> ledger_net[w] + NetOf(tx[p], w)]
  /\ ledger_lines' = [ledger_lines EXCEPT ![Id(p)] = @ + 1]
  /\ Goto(p, IF tx[p].server_signature = Id(p) THEN "w_flag" ELSE "top")
  /\ UNCHANGED <<flags, money, stats, mw, ws, sm, tx, idx, wrd, mainVar>>

(* fopen fails: no line, and the caller ignores the result: the money has  *)
(* moved, and the receipt is sent all the same.                            *)
LedgerFails(p) ==
  /\ pc[p] = "ledger"
  /\ LedgerMayFail
  /\ Goto(p, IF tx[p].server_signature = Id(p) THEN "w_flag" ELSE "top")
  /\ UNCHANGED <<flags, money, stats, mw, ws, sm, ledger, tx, idx, wrd,
                 mainVar>>

(* server_send_transaction *)
ServerSend(p) ==
  /\ SM!Write(p)
  /\ UNCHANGED <<flags, money, stats, mw, ws, ledger, mainVar>>

ServerStep(p) ==
  \/ ServerReceive(p) \/ ServerRead(p) \/ ServerExit(p) \/ ServerIdle(p)
  \/ ServerReject(p) \/ ServerAccept(p)
  \/ LoadDest(p) \/ StoreDest(p) \/ LoadSrc(p) \/ StoreSrc(p)
  \/ ServerSign(p) \/ WriteLedger(p) \/ LedgerFails(p) \/ ServerSend(p)
=============================================================================
