------------------------------ MODULE SOchain -------------------------------
(***************************************************************************)
(* The whole program: main, the wallets and the servers over one shared    *)
(* memory, from the launch of the children to the end of the run.          *)
(***************************************************************************)
EXTENDS Main, Wallet, Server, Sequences, FiniteSetsExt

(* The run is over. *)
Done == pc[Main] = "done" /\ UNCHANGED vars

Next ==
  \/ UserCommand
  \/ MainStep
  \/ \E p \in WalletProcs : WalletStep(p)
  \/ \E p \in ServerProcs : ServerStep(p)
  \/ Done

Spec == Init /\ [][Next]_vars

(* The kernel schedules every process; nobody makes the user type. *)
Fairness ==
  /\ WF_vars(MainStep)
  /\ \A p \in WalletProcs : WF_vars(WalletStep(p))
  /\ \A p \in ServerProcs : WF_vars(ServerStep(p))

FairSpec == Spec /\ Fairness
-----------------------------------------------------------------------------
MainReading  == SM!ReadLabels
MainWriting  == MW!WriteLabels
Transferring == {"load_dest", "store_dest", "load_src", "store_src", "sign",
                 "ledger"}

MainLabels == {"create", "prompt", "count", "show", "wait", "destroy", "done"}
              \cup MainWriting \cup MainReading
ChildLabels == {"unborn", "top", "got", "exited", "reaped"}
WalletLabels == ChildLabels \cup MW!ReadLabels \cup WS!PutLabels
ServerLabels == ChildLabels \cup WS!GetLabels \cup Transferring
                \cup SM!WriteLabels

(* Every process is at one of its own labels. *)
LabelsOK ==
  /\ pc \in [Procs -> MainLabels \cup WalletLabels \cup ServerLabels]
  /\ pc[Main] \in MainLabels
  /\ \A p \in WalletProcs : pc[p] \in WalletLabels
  /\ \A p \in ServerProcs : pc[p] \in ServerLabels

(* Every index is inside the array it indexes: the slots of a buffer, or   *)
(* the children that main launches and waits for (main.c, memory.c).       *)
IndexesOK ==
  /\ idx \in [Procs -> Nat]
  /\ \A p \in Children : idx[p] \in Slots
  /\ pc[Main] \in {"create", "wait"} => idx[Main] < NChildren
  /\ pc[Main] \in MainWriting \cup MainReading => idx[Main] \in Slots
  /\ pc[Main] \in {"prompt", "count", "show", "destroy", "done"} => idx[Main] = 0
  /\ wrd \in [Procs -> 1 .. Words]

(* main.c:256 lets in no transaction past max_txs. *)
CounterOK ==
  /\ tx_counter \in 0 .. MaxTxs
  /\ pc[Main] \in MainWriting \cup {"count"} => tx_counter < MaxTxs

(* What the segments, the file and the stacks hold.  However torn a copied *)
(* transaction is, it names wallets that exist.                            *)
DataOK ==
  /\ terminate \in {0, 1}
  /\ mapped \in BOOLEAN
  /\ balances \in [Wallets -> Int]
  /\ wallets_stats \in [Wallets -> Nat]
  /\ servers_stats \in [Servers -> Nat]
  /\ mw_ptrs \in [Slots -> {0, 1}] /\ mw_buffer \in [Slots -> Tx]
  /\ ws_in \in Slots /\ ws_out \in Slots /\ ws_buffer \in [Slots -> Tx]
  /\ sm_ptrs \in [Slots -> {0, 1}] /\ sm_buffer \in [Slots -> Tx]
  /\ ledger_net \in [Wallets -> Int]
  /\ ledger_lines \in [Servers -> Nat]
  /\ tx \in [Procs -> Tx]
  /\ reg \in [Servers -> Int]
  /\ rcp_id \in Int
  /\ forked \in [Children -> BOOLEAN]
  /\ receipts \subseteq [asked : Int, got : Tx]

(* Type invariant: no index leaves its array, no copied transaction names  *)
(* a wallet that does not exist, and no more than max_txs are created.     *)
TypeOK == DataOK /\ LabelsOK /\ IndexesOK /\ CounterOK

-----------------------------------------------------------------------------
(* Safety *)

(* No child acts on a transaction that nothing was read into.  Each loop   *)
(* of wallet.c and server.c starts with an unassigned struct transaction,  *)
(* and a receive that sees terminate set returns without touching it: what *)
(* protects the rest of the loop is the second look at terminate           *)
(* (wallet.c:18, server.c:22) and the id -1 of a read that found nothing.  *)
FreshReads ==
  \A p \in Children :
    pc[p] \in WS!PutLabels \cup Transferring \cup SM!WriteLabels
      => tx[p].id # Indeterminate

(* main does not print the final statistics, nor destroy the segments,     *)
(* while a child still runs on them (main.c:201-208, 381), even when some  *)
(* forks failed and waitpid is called with the pid -1 that was kept.       *)
NoChildOutlivesMemory ==
  (pc[Main] = "destroy" \/ ~mapped)
    => \A c \in Children : pc[c] \in {"unborn", "reaped"}

Launched(w) == pc[Main] # "create" \/ idx[Main] > w

(* Whenever no server is in the middle of a transaction, each balance is   *)
(* the initial one plus what the lines of ledger.txt move: the balances    *)
(* and the ledger tell the same story (server.c:65-78).                    *)
BooksBalance ==
  (\A p \in ServerProcs : pc[p] \notin Transferring)
    => \A w \in Wallets :
         Launched(w) => balances[w] = InitBalance + ledger_net[w]

(* With one server, no money is made or lost: between two transactions the *)
(* balances add up to what the wallets were given, whichever lines the     *)
(* ledger is missing because it could not be opened (server.c:65-66, 95).  *)
MoneyConserved ==
  (pc[Main] # "create" /\ \A p \in ServerProcs : pc[p] \notin Transferring)
    => MapThenSumSet(LAMBDA w : balances[w], Wallets) = NWallets * InitBalance

(* The transactions main began to write, the one it is writing included.   *)
Created == tx_counter + (IF pc[Main] \in {"w_copy", "count"} THEN 1 ELSE 0)

(* No wallet signs more transactions than main created: whatever the       *)
(* readers of main's buffer do to one another, a write is signed by a      *)
(* given wallet once at most (memory.c:76-85, 116-128).                    *)
SignedWithinCreated == \A w \in Wallets : wallets_stats[w] <= Created

(* One wallet and one server: no transaction is processed that was not     *)
(* signed, nor processed twice; the ring hands on each one once at most.   *)
ProcessedWithinSigned ==
  (NWallets = 1 /\ NServers = 1) => ledger_lines[0] <= wallets_stats[0]

(* With one wallet and one server the ring is a queue in the whole program *)
(* too: a transaction enters it at the tail, as a wallet signed it, and    *)
(* leaves it at the head, into the hands of a server, whole (memory.c).    *)
RingIsQueue ==
  [][\/ WS!Content' = WS!Content
     \/ \E p \in WalletProcs : WS!Content' = Append(WS!Content, tx[p])
     \/ \E p \in ServerProcs : /\ WS!Content # <<>>
                               /\ tx[p] = Head(WS!Content)
                               /\ WS!Content' = Tail(WS!Content)]_vars

-----------------------------------------------------------------------------
(* The abstract bank, with one server.  A transfer counts there when the   *)
(* server is done with the balances and the ledger.                        *)

S0 == <<"server", 0>>

(* What the transaction in progress has already moved to or from w. *)
Paid(w) ==
  (IF pc[S0] \in {"load_src", "store_src", "sign", "ledger"} /\ tx[S0].dest_id = w
     THEN tx[S0].amount ELSE 0)
  - (IF pc[S0] \in {"sign", "ledger"} /\ tx[S0].src_id = w
       THEN tx[S0].amount ELSE 0)

(* The <<dest_id, amount>> of a transfer that was typed: they travel in    *)
(* one word of a transaction, and a new slot holds zeros.                  *)
Orders == {<<t[2], t[3]>> : t \in Transfers \cap (Wallets \X Wallets \X Int)}
          \cup {<<0, 0>>}

OrderOf(t) == <<t.dest_id, t.amount>>

TheBank == INSTANCE Bank WITH
             Accounts <- Wallets, Deposit <- InitBalance,
             bal <- [w \in Wallets |->
                       IF Launched(w) THEN balances[w] - Paid(w) ELSE 0],
             net <- ledger_net

(* However the wallets tear the transactions of one another, the server    *)
(* moves money as a bank that makes one transfer after the other, each one *)
(* booked as it is made, of an amount the user typed to the wallet it was  *)
(* typed for (wallet.c, server.c, memory.c).                               *)
IsBank == TheBank!Spec

(* A receipt may be stale, torn, or of zeros, but shows no order that was  *)
(* not typed: the amount stays with the wallet it is for through all the   *)
(* copies (memory.c:81, 97, 109, 120, 136, 152; main.c:308-317).           *)
ReceiptsTyped == \A r \in receipts : OrderOf(r.got) \in Orders

-----------------------------------------------------------------------------
(* What is left to do once terminate is set. *)

(* How many steps a process takes at most that is at label, at the i-th    *)
(* turn of its loop and the k-th move of a structure assignment, whatever  *)
(* the others do: a child has a loop over the slots, a copy or a transfer  *)
(* to finish, then looks at terminate; main has entries to wait for.  At   *)
(* the other labels a child has ended, or main is not any more.            *)
StepsFrom(label, i, k) ==
  LET moves == Words + 1 - k
      slots == BufSize - i
  IN CASE label \in {"got", "destroy"}     -> 1
       [] label \in {"top", "r_free", "get_set"} -> 2
       [] label \in {"r_copy", "get_copy"} -> 2 + moves
       [] label = "r_key"                  -> 4 + 2 * slots
       [] label = "r_flag"                 -> 5 + 2 * slots
       [] label = "get_out"                -> 6
       [] label = "get_in"                 -> 7
       [] label = "put_set"                -> 3
       [] label = "put_copy"               -> 3 + moves
       [] label = "put_out"                -> 7
       [] label = "put_in"                 -> 8
       [] label = "w_copy"                 -> 2 + moves
       [] label = "w_mark"                 -> 6
       [] label = "w_flag"                 -> 6 + slots
       [] label = "ledger"                 -> 7 + BufSize
       [] label = "sign"                   -> 8 + BufSize
       [] label = "store_src"              -> 9 + BufSize
       [] label = "load_src"               -> 10 + BufSize
       [] label = "store_dest"             -> 11 + BufSize
       [] label = "load_dest"              -> 12 + BufSize
       [] label = "wait"                   -> 1 + NChildren - i
       [] OTHER                            -> 0

StepsLeft == [p \in Procs |-> StepsFrom(pc[p], idx[p], wrd[p])]

Work == MapThenSumSet(LAMBDA p : StepsLeft[p], Procs)

(* Once end was typed, every step of any process brings the end nearer: no *)
(* loop of main, of a wallet or of a server is gone through again, however *)
(* the buffers change under it, so that only so many steps can follow      *)
(* (wallet.c:11-29, server.c:16-37, main.c:198-208, memory.c:76-145).      *)
EndApproaches ==
  [][terminate = 1 /\ terminate' = 1 => Work' < Work]_vars

-----------------------------------------------------------------------------
(* Liveness, under FairSpec *)

(* Every fork succeeded, so every wallet and every server runs. *)
AllForked == \A c \in Children : forked[c]

(* A transaction left for the wallets is taken, unless the run ends: the   *)
(* wallet it names polls for ever.                                         *)
SlotsDrain ==
  \A i \in Slots :
    (AllForked /\ mw_ptrs[i] = 1) ~> (mw_ptrs[i] = 0 \/ terminate = 1)

(* A transaction at the head of the ring is read, unless the run ends.     *)
HeadIsRead ==
  \A i \in Slots :
    (AllForked /\ ws_out = i /\ ws_in # i) ~> (ws_out # i \/ terminate = 1)

(* Once the user has typed end, every process stops and main returns.      *)
EndTerminates == terminate = 1 ~> pc[Main] = "done"

-----------------------------------------------------------------------------
(* What comments of the program say, and the code does not keep *)

(* inc/server.h:24-25: the server checks the funds of the source wallet    *)
(* before it moves them, so that no balance falls below zero.              *)
FundsChecked == \A w \in Wallets : balances[w] >= 0

(* inc/server.h:30-31: a transaction the server did not sign, because it   *)
(* was invalid, is not written for main.                                   *)
OnlyValidSent ==
  \A p \in ServerProcs :
    pc[p] \in SM!WriteLabels => tx[p].src_id = tx[p].wallet_signature

(* inc/main.h:113-115: a receipt proves that the transaction asked for was *)
(* completed: it shows a transfer the user typed, of an amount above zero. *)
GenuineReceipt ==
  \A r \in receipts :
    /\ r.got.amount > 0
    /\ <<r.got.src_id, r.got.dest_id, r.got.amount>> \in Transfers
=============================================================================
