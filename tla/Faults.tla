------------------------------- MODULE Faults -------------------------------
(***************************************************************************)
(* SOchain when signals end its processes.  No handler is linked, so a     *)
(* signal ends the child that gets it, or, sent to the terminal's process  *)
(* group, the whole program at any moment; the user then starts it again   *)
(* with the same arguments, or with a last one, max_txs, that main_args    *)
(* refuses.  The segments and the ledger have names and outlive both.      *)
(***************************************************************************)
EXTENDS SOchain

CONSTANT MaxFaults  \* the signals and restarts that may happen

ASSUME FaultsAssumption == MaxFaults \in Nat

VARIABLES
  killed,   \* the children of this run that a signal has ended
  max_txs,  \* info->max_txs of this run
  kept,     \* the lines of former runs in ledger.txt
  earlier,  \* history: what former runs created, less the lines emptied
  faults    \* how many faults have happened

runVars   == <<max_txs, kept, earlier>>
faultVars == <<killed, runVars, faults>>

FaultsInit ==
  /\ Init
  /\ killed = {} /\ max_txs = MaxTxs /\ kept = 0 /\ earlier = 0
  /\ faults = 0

(* The lines of this run in ledger.txt. *)
Lines == MapThenSumSet(LAMBDA s : ledger_lines[s], Servers)

(* A signal ends child c.  Its stack goes, shared memory stays as it is,   *)
(* and waitpid collects it like any other: main ignores the -1 that        *)
(* wait_process returns when WIFEXITED does not hold.                      *)
Kill(c) ==
  /\ faults < MaxFaults
  /\ pc[c] \notin {"unborn", "exited", "reaped"}
  /\ faults' = faults + 1
  /\ killed' = killed \cup {c}
  /\ Goto(c, "exited")
  /\ tx' = [tx EXCEPT ![c] = IndeterminateTx]
  /\ idx' = [idx EXCEPT ![c] = 0]
  /\ wrd' = [wrd EXCEPT ![c] = 1]
  /\ reg' = [s \in Servers |-> IF c = <<"server", s>> THEN 0 ELSE reg[s]]
  /\ UNCHANGED <<flags, balances, stats, mw, ws, sm, ledger, mainVar, runVars>>

(* What every run starts with: no line of its own in ledger.txt,           *)
(* create_shared_memory_structs sets terminate to 0, and main, about to    *)
(* launch the children, is the only process.                               *)
NewRun ==
  /\ terminate' = 0
  /\ mapped' = TRUE
  /\ ledger_net' = [w \in Wallets |-> 0]
  /\ ledger_lines' = [s \in Servers |-> 0]
  /\ pc' = [p \in Procs |-> IF p = Main THEN "create" ELSE "unborn"]
  /\ tx' = [p \in Procs |-> IndeterminateTx]
  /\ idx' = [p \in Procs |-> 0]
  /\ wrd' = [p \in Procs |-> 1]
  /\ reg' = [s \in Servers |-> 0]
  /\ tx_counter' = 0
  /\ rcp_id' = 0
  /\ forked' = [c \in Children |-> FALSE]
  /\ receipts' = {}
  /\ killed' = {}

(* main_args reads the sizes and max_txs, and empties ledger.txt.          *)
ArgsAccepted ==
  /\ max_txs' = MaxTxs
  /\ kept' = 0
  /\ earlier' = earlier + Created - (kept + Lines)

(* main_args finds max_txs, which it reads last, wrong and returns: it     *)
(* stays 0 and ledger.txt as it is, and main goes on.  With any mistake    *)
(* before it buffers_size stays 0 and the buffers are null pointers.       *)
ArgsRefused ==
  /\ max_txs' = 0
  /\ kept' = kept + Lines
  /\ earlier' = earlier + Created

(* How many segments destroy_shared_memory_structs has unlinked, in its    *)
(* order: balances, terminate, the pointers of the three buffers, their    *)
(* slots, wallets_stats, servers_stats.                                    *)
Unlinked == CASE pc[Main] = "destroy" -> 0 .. 10
              [] pc[Main] = "done"    -> {10}
              [] OTHER                -> {0}

(* shm_open opens segment k as it was left, or makes a new one of zeros.   *)
Opened(k, n, left, zeros) == IF n < k THEN left ELSE zeros

(* A faulty variant of RingOpened: main sets only one of them to zero. *)
RingOpenedHalfReset(n) ==
  /\ ws_in' = Opened(4, n, ws_in, 0)
  /\ ws_out' = 0

(* struct pointers, in a segment of its own. *)
RingOpened(n) ==
  /\ ws_in' = Opened(4, n, ws_in, 0)
  /\ ws_out' = Opened(4, n, ws_out, 0)

(* The program is started again, after a signal ended all of it or after   *)
(* its end, on the segments that have not been unlinked.                   *)
Restart ==
  \E n \in Unlinked :
    /\ faults < MaxFaults
    /\ faults' = faults + 1
    /\ NewRun
    /\ ArgsAccepted \/ ArgsRefused
    /\ balances' = Opened(1, n, balances, [w \in Wallets |-> 0])
    /\ mw_ptrs' = Opened(3, n, mw_ptrs, [i \in Slots |-> 0])
    /\ RingOpened(n)
    /\ sm_ptrs' = Opened(5, n, sm_ptrs, [i \in Slots |-> 0])
    /\ mw_buffer' = Opened(6, n, mw_buffer, [i \in Slots |-> ZeroTx])
    /\ ws_buffer' = Opened(7, n, ws_buffer, [i \in Slots |-> ZeroTx])
    /\ sm_buffer' = Opened(8, n, sm_buffer, [i \in Slots |-> ZeroTx])
    /\ wallets_stats' = Opened(9, n, wallets_stats, [w \in Wallets |-> 0])
    /\ servers_stats' = Opened(10, n, servers_stats, [s \in Servers |-> 0])

(* With a max_txs of 0 create_transaction creates nothing. *)
WithinLimit ==
  max_txs = 0 => ~(pc[Main] = "prompt" /\ pc'[Main] = "w_flag")

FaultsNext ==
  \/ Next /\ WithinLimit /\ UNCHANGED faultVars
  \/ \E c \in Children : Kill(c)
  \/ Restart

FaultsSpec == FaultsInit /\ [][FaultsNext]_<<vars, faultVars>>

(* The kernel schedules the processes as before; no fault has to happen.   *)
FairFaultsSpec == FaultsSpec /\ Fairness
-----------------------------------------------------------------------------
(* Whatever was interrupted before, in a run whose servers were not killed *)
(* the balances agree with the lines of this run: create_processes sets    *)
(* them again (main.c:135) before any server runs, so that money half      *)
(* moved by the former run is forgotten.                                   *)
BooksSurvive == killed \cap ServerProcs = {} => BooksBalance

(* One wallet and one server: ledger.txt never holds more lines than       *)
(* transactions were created, by this run and by those before it that are  *)
(* not paid for by a line since emptied.  Hence no transaction is done     *)
(* twice, once before and once after a signal, and a run with a mistaken   *)
(* max_txs, which goes on without emptying the ledger (main.c:49-54), adds *)
(* no line to it but of a transaction that a killed run had in its         *)
(* segments (memory.c:29).                                                 *)
DoneOnceOverRuns ==
  (NWallets = 1 /\ NServers = 1) => kept + Lines <= earlier + Created

(* Once the user has typed end the run ends, whichever children a signal   *)
(* killed and wherever it found them, unless a signal ends main as well:   *)
(* no process ever waits for what another one was about to store.          *)
EndsUnlessKilled == terminate = 1 ~> (pc[Main] = "done" \/ terminate = 0)

-----------------------------------------------------------------------------
(* inc/memory.h:58-60: the segments a run works on are filled with zeros.  *)
(* Hence a run in which no transaction was created records none.           *)
NothingInherited ==
  Created = 0 => \A s \in Servers : ledger_lines[s] = 0
=============================================================================
