---------------------------- MODULE SharedMemory ----------------------------
(***************************************************************************)
(* The state of a running SOchain: the shared memory segments, the file    *)
(* ledger.txt and what each process holds on its own stack.  The modules   *)
(* Main, Wallet and Server give the actions of the processes on it.        *)
(***************************************************************************)
EXTENDS Transactions

CONSTANTS
  MaxTxs,       \* info->max_txs
  InitBalance,  \* info->init_balance
  Residue       \* what an unassigned signature field may hold

ASSUME ArgsAssumption ==
  /\ MaxTxs \in Nat \ {0}
  /\ InitBalance \in Nat
  /\ Residue # {} /\ Residue \subseteq Int

VARIABLES
  terminate,                \* *info->terminate
  balances,                 \* info->balances
  wallets_stats,            \* info->wallets_stats: signed by each wallet
  servers_stats,            \* info->servers_stats: processed by each server
  mw_ptrs, mw_buffer,       \* buffs->buff_main_wallets
  ws_in, ws_out, ws_buffer, \* buffs->buff_wallets_servers
  sm_ptrs, sm_buffer,       \* buffs->buff_servers_main
  mapped,                   \* whether the segments still exist
  ledger_net,               \* ledger.txt: what its lines move, per wallet
  ledger_lines,             \* ledger.txt: the lines of each server
  pc, tx, idx, wrd,         \* process: where it is, and its locals
  reg,                      \* server -> the balance loaded by += or -=
  tx_counter,               \* main: transactions created
  rcp_id,                   \* main: tx_id of the receipt asked for
  forked,                   \* child -> whether main has a pid for it
  receipts                  \* stdout: the receipts shown, [asked, got]

flags   == <<terminate, mapped>>
money   == <<balances, reg>>
stats   == <<wallets_stats, servers_stats>>
mw      == <<mw_ptrs, mw_buffer>>
ws      == <<ws_in, ws_out, ws_buffer>>
sm      == <<sm_ptrs, sm_buffer>>
ledger  == <<ledger_net, ledger_lines>>
local   == <<pc, tx, idx, wrd>>
mainVar == <<tx_counter, rcp_id, forked, receipts>>

vars == <<flags, money, stats, mw, ws, sm, ledger, local, mainVar>>

MW == INSTANCE RABuffer WITH
        KeyField <- "src_id", WriteDone <- "count", ReadDone <- "got",
        ptrs <- mw_ptrs, buffer <- mw_buffer,
        key <- [p \in WalletProcs |-> Id(p)]

WS == INSTANCE CircBuffer WITH
        PutDone <- "top", GetDone <- "got",
        in <- ws_in, out <- ws_out, buffer <- ws_buffer

SM == INSTANCE RABuffer WITH
        KeyField <- "id", WriteDone <- "top", ReadDone <- "show",
        ptrs <- sm_ptrs, buffer <- sm_buffer,
        key <- [p \in {Main} |-> rcp_id]

Goto(p, label) == pc' = [pc EXCEPT ![p] = label]

(* create_shared_memory_structs on segments that did not exist, and main   *)
(* about to launch the children.                                           *)
Init ==
  /\ terminate = 0
  /\ mapped = TRUE
  /\ balances = [w \in Wallets |-> 0]
  /\ wallets_stats = [w \in Wallets |-> 0]
  /\ servers_stats = [s \in Servers |-> 0]
  /\ mw_ptrs = [i \in Slots |-> 0]
  /\ mw_buffer = [i \in Slots |-> ZeroTx]
  /\ ws_in = 0
  /\ ws_out = 0
  /\ ws_buffer = [i \in Slots |-> ZeroTx]
  /\ sm_ptrs = [i \in Slots |-> 0]
  /\ sm_buffer = [i \in Slots |-> ZeroTx]
  /\ ledger_net = [w \in Wallets |-> 0]
  /\ ledger_lines = [s \in Servers |-> 0]
  /\ pc = [p \in Procs |-> IF p = Main THEN "create" ELSE "unborn"]
  /\ tx = [p \in Procs |-> IndeterminateTx]
  /\ idx = [p \in Procs |-> 0]
  /\ wrd = [p \in Procs |-> 1]
  /\ reg = [s \in Servers |-> 0]
  /\ tx_counter = 0
  /\ rcp_id = 0
  /\ forked = [c \in Children |-> FALSE]
  /\ receipts = {}
=============================================================================
