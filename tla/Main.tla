-------------------------------- MODULE Main --------------------------------
(***************************************************************************)
(* The main process (main.c and process.c): it launches the children,      *)
(* serves the user's commands, then ends the run.  The commands bal, stat  *)
(* and help, and every command the code refuses, change nothing: they are  *)
(* stuttering steps.                                                       *)
(***************************************************************************)
EXTENDS SharedMemory

CONSTANTS
  Transfers,   \* the <<src_id, dest_id, amount>> the user may type after trx
  RcpIds,      \* the ids the user may type after rcp
  ForkMayFail  \* whether fork may return -1

ASSUME InputsAssumption ==
  /\ Transfers \subseteq Int \X Int \X Int
  /\ RcpIds \subseteq Int
  /\ ForkMayFail \in BOOLEAN

NChildren == NWallets + NServers

(* The order of the loops over wallets_pids, then servers_pids. *)
ChildAt(k) == IF k < NWallets THEN <<"wallet", k>>
                              ELSE <<"server", k - NWallets>>

(* The next turn of such a pair of loops, or their end. *)
NextChild(label) ==
  /\ idx' = [idx EXCEPT ![Main] = IF @ + 1 = NChildren THEN 0 ELSE @ + 1]
  /\ pc' = [pc EXCEPT ![Main] = IF idx[Main] + 1 = NChildren THEN label ELSE @]

-----------------------------------------------------------------------------
(* create_processes.  When fork returns -1 main keeps -1 as the pid and    *)
(* goes on with one child less.                                            *)

(* A faulty variant of SetBalance: only a new segment is filled. *)
SetBalanceIfNew(k) ==
  balances' = IF k < NWallets /\ balances[k] = 0
              THEN [balances EXCEPT ![k] = InitBalance] ELSE balances

SetBalance(k) ==
  balances' = IF k < NWallets THEN [balances EXCEPT ![k] = InitBalance]
                              ELSE balances

Launch ==
  LET c == ChildAt(idx[Main])
      last == idx[Main] + 1 = NChildren
  IN /\ pc[Main] = "create"
     /\ SetBalance(idx[Main])
     /\ forked' = [forked EXCEPT ![c] = TRUE]
     /\ pc' = [pc EXCEPT ![c] = "top",
                         ![Main] = IF last THEN "prompt" ELSE @]
     /\ idx' = [idx EXCEPT ![Main] = IF last THEN 0 ELSE @ + 1]
     /\ UNCHANGED <<flags, reg, stats, mw, ws, sm, ledger, tx, wrd,
                    tx_counter, rcp_id, receipts>>

LaunchFails ==
  /\ pc[Main] = "create"
  /\ ForkMayFail
  /\ SetBalance(idx[Main])
  /\ NextChild("prompt")
  /\ UNCHANGED <<flags, reg, stats, mw, ws, sm, ledger, tx, wrd, mainVar>>

-----------------------------------------------------------------------------
(* create_transaction: the checks in their order, then a transaction whose *)
(* signature fields are left as they were found on the stack.              *)
Accepted(src, dest, amount) ==
  /\ tx_counter # MaxTxs
  /\ src \in Wallets
  /\ dest \in Wallets
  /\ amount > 0
  /\ balances[src] >= amount

CreateTransaction(src, dest, amount) ==
  /\ pc[Main] = "prompt"
  /\ Accepted(src, dest, amount)
  /\ \E ws_sig, ss_sig \in Residue :
       tx' = [tx EXCEPT ![Main] =
                [id |-> tx_counter, src_id |-> src, dest_id |-> dest,
                 amount |-> amount, wallet_signature |-> ws_sig,
                 server_signature |-> ss_sig]]
  /\ Goto(Main, "w_flag")
  /\ UNCHANGED <<flags, money, stats, mw, ws, sm, ledger, idx, wrd, mainVar>>

(* write_main_wallets_buffer *)
MainWrite ==
  /\ MW!Write(Main)
  /\ UNCHANGED <<flags, money, stats, ws, sm, ledger, mainVar>>

(* The counter advances whether or not the buffer had room. *)
CountTransaction ==
  /\ pc[Main] = "count"
  /\ tx_counter' = tx_counter + 1
  /\ tx' = [tx EXCEPT ![Main] = IndeterminateTx]
  /\ Goto(Main, "prompt")
  /\ UNCHANGED <<flags, money, stats, mw, ws, sm, ledger, idx, wrd, rcp_id,
                 forked, receipts>>

-----------------------------------------------------------------------------
(* receive_receipt *)
AskReceipt(id) ==
  /\ pc[Main] = "prompt"
  /\ rcp_id' = id
  /\ Goto(Main, "r_flag")
  /\ UNCHANGED <<flags, money, stats, mw, ws, sm, ledger, tx, idx, wrd,
                 tx_counter, forked, receipts>>

(* read_servers_main_buffer *)
MainRead ==
  /\ SM!Read(Main)
  /\ UNCHANGED <<flags, money, stats, mw, ws, ledger, mainVar>>

ShowReceipt ==
  /\ pc[Main] = "show"
  /\ receipts' = IF tx[Main].id = NoTx THEN receipts
                 ELSE receipts \cup {[asked |-> rcp_id, got |-> tx[Main]]}
  /\ rcp_id' = 0
  /\ tx' = [tx EXCEPT ![Main] = IndeterminateTx]
  /\ Goto(Main, "prompt")
  /\ UNCHANGED <<flags, money, stats, mw, ws, sm, ledger, idx, wrd,
                 tx_counter, forked>>

-----------------------------------------------------------------------------
(* end_execution: the flag, then one waitpid per entry of wallets_pids and *)
(* of servers_pids.                                                        *)
EndExecution ==
  /\ pc[Main] = "prompt"
  /\ terminate' = 1
  /\ Goto(Main, "wait")
  /\ UNCHANGED <<mapped, money, stats, mw, ws, sm, ledger, tx, idx, wrd,
                 mainVar>>

Unreaped(c) == pc[c] \notin {"unborn", "reaped"}

(* The children a waitpid with the pid of entry k may collect: that child, *)
(* or with the pid -1 of a failed fork any child.                          *)
Waitable(k) == IF forked[ChildAt(k)] THEN {ChildAt(k)} ELSE Children

Reap(c) ==
  LET last == idx[Main] + 1 = NChildren
  IN /\ pc[Main] = "wait"
     /\ c \in Waitable(idx[Main])
     /\ pc[c] = "exited"
     /\ pc' = [pc EXCEPT ![c] = "reaped",
                         ![Main] = IF last THEN "destroy" ELSE @]
     /\ idx' = [idx EXCEPT ![Main] = IF last THEN 0 ELSE @ + 1]
     /\ UNCHANGED <<flags, money, stats, mw, ws, sm, ledger, tx, wrd, mainVar>>

(* A faulty variant of ReapNone: main does not wait (WNOHANG). *)
ReapNoneNoHang ==
  /\ pc[Main] = "wait"
  /\ NextChild("destroy")
  /\ UNCHANGED <<flags, money, stats, mw, ws, sm, ledger, tx, wrd, mainVar>>

(* waitpid fails with ECHILD: no such child is left, and main goes on. *)
ReapNone ==
  /\ pc[Main] = "wait"
  /\ \A c \in Waitable(idx[Main]) : ~Unreaped(c)
  /\ NextChild("destroy")
  /\ UNCHANGED <<flags, money, stats, mw, ws, sm, ledger, tx, wrd, mainVar>>

(* write_final_statistics, then destroy_shared_memory_structs. *)
Destroy ==
  /\ pc[Main] = "destroy"
  /\ mapped' = FALSE
  /\ Goto(Main, "done")
  /\ UNCHANGED <<terminate, money, stats, mw, ws, sm, ledger, tx, idx, wrd,
                 mainVar>>

-----------------------------------------------------------------------------
(* The commands the user may type, and the steps main takes on its own. *)
UserCommand ==
  \/ \E t \in Transfers : CreateTransaction(t[1], t[2], t[3])
  \/ \E id \in RcpIds : AskReceipt(id)
  \/ EndExecution

MainStep ==
  \/ Launch \/ LaunchFails
  \/ MainWrite \/ CountTransaction
  \/ MainRead \/ ShowReceipt
  \/ (\E c \in Children : Reap(c)) \/ ReapNone \/ Destroy
=============================================================================
