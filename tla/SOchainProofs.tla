---------------------------- MODULE SOchainProofs ----------------------------
(***************************************************************************)
(* Proofs about the whole program, for every number of wallets and servers,*)
(* every size of the buffers and everything the user may type.             *)
(***************************************************************************)
EXTENDS SOchain, DataLemmas

-----------------------------------------------------------------------------
(* Processes *)

(* Main, the wallets and the servers are different processes.              *)
LEMMA ProcKinds ==
  /\ Main \in Procs /\ Main \notin Children
  /\ WalletProcs \cap ServerProcs = {}
  /\ WalletProcs \subseteq Children /\ ServerProcs \subseteq Children
  /\ Children \subseteq Procs
  /\ \A p \in WalletProcs : Id(p) \in Wallets
  /\ \A p \in ServerProcs : Id(p) \in Servers
  BY DEF Main, Procs, Children, WalletProcs, ServerProcs, Id

(* Entry k of the two arrays of pids is that of a child.                   *)
LEMMA ChildAtIsChild ==
  ASSUME NEW k \in 0 .. NChildren - 1
  PROVE  ChildAt(k) \in Children
  BY SizesAssumption
  DEF ChildAt, NChildren, Children, WalletProcs, ServerProcs, Wallets, Servers

(* The three buffers copy words of the same structure.                     *)
LEMMA SameWords ==
  /\ MW!Words = Words /\ WS!Words = Words /\ SM!Words = Words
  /\ MW!NoTx = NoTx /\ WS!NoTx = NoTx /\ SM!NoTx = NoTx
  /\ \A to, from, k :
       /\ MW!CopyWord(to, from, k) = CopyWord(to, from, k)
       /\ WS!CopyWord(to, from, k) = CopyWord(to, from, k)
       /\ SM!CopyWord(to, from, k) = CopyWord(to, from, k)
  BY DEF Words, MW!Words, WS!Words, SM!Words, NoTx, MW!NoTx, WS!NoTx, SM!NoTx,
         CopyWord, MW!CopyWord, WS!CopyWord, SM!CopyWord

-----------------------------------------------------------------------------
(* A move of one process keeps the labels and indexes of all. *)

(* A wallet goes to one of its own labels.                                 *)
LEMMA WalletMoves ==
  ASSUME LabelsOK, NEW p \in WalletProcs, NEW l \in WalletLabels,
         pc' = [pc EXCEPT ![p] = l]
  PROVE  LabelsOK' /\ pc'[Main] = pc[Main]
  BY ProcKinds DEF LabelsOK

(* So does a server.                                                       *)
LEMMA ServerMoves ==
  ASSUME LabelsOK, NEW p \in ServerProcs, NEW l \in ServerLabels,
         pc' = [pc EXCEPT ![p] = l]
  PROVE  LabelsOK' /\ pc'[Main] = pc[Main]
  BY ProcKinds DEF LabelsOK

(* And so does main.                                                       *)
LEMMA MainMoves ==
  ASSUME LabelsOK, NEW l \in MainLabels, pc' = [pc EXCEPT ![Main] = l]
  PROVE  LabelsOK' /\ pc'[Main] = l
  BY ProcKinds DEF LabelsOK

(* A child sets its index to another slot.                                 *)
LEMMA ChildIndex ==
  ASSUME IndexesOK, NEW p \in Children, NEW i \in Slots,
         idx' = [idx EXCEPT ![p] = i], wrd' \in [Procs -> 1 .. Words],
         pc'[Main] = pc[Main]
  PROVE  IndexesOK'
<1>1. i \in Nat /\ p \in Procs /\ p # Main /\ Main \in Procs
  BY ProcKinds, SizesAssumption DEF Slots
<1>2. idx' \in [Procs -> Nat] /\ idx'[Main] = idx[Main]
  BY <1>1 DEF IndexesOK
<1>3. \A q \in Children : idx'[q] \in Slots
  BY <1>1, ProcKinds DEF IndexesOK
<1> QED
  BY <1>2, <1>3 DEF IndexesOK

(* What IndexesOK asks of main's index n at the label l. *)
MainIndexOK(l, n) ==
  /\ l \in {"create", "wait"} => n < NChildren
  /\ l \in MainWriting \cup MainReading => n \in Slots
  /\ l \in {"prompt", "count", "show", "destroy", "done"} => n = 0

(* A move of main to a label that its new index fits.                      *)
LEMMA MainIndex ==
  ASSUME IndexesOK, NEW n \in Nat, idx' = [idx EXCEPT ![Main] = n],
         wrd' \in [Procs -> 1 .. Words], MainIndexOK(pc'[Main], n)
  PROVE  IndexesOK'
<1>1. Main \in Procs /\ \A q \in Children : q # Main /\ q \in Procs
  BY ProcKinds
<1>2. idx' \in [Procs -> Nat] /\ idx'[Main] = n
  BY <1>1 DEF IndexesOK
<1>3. \A q \in Children : idx'[q] \in Slots
  BY <1>1 DEF IndexesOK
<1> QED
  BY <1>2, <1>3 DEF IndexesOK, MainIndexOK

(* A step that sets no index.                                              *)
LEMMA IndexKept ==
  ASSUME IndexesOK, UNCHANGED <<idx, wrd>>, pc'[Main] = pc[Main]
  PROVE  IndexesOK'
  BY DEF IndexesOK

(* A step that creates no transaction.                                     *)
LEMMA CounterKept ==
  ASSUME CounterOK, tx_counter' = tx_counter, pc'[Main] = pc[Main]
  PROVE  CounterOK'
  BY DEF CounterOK

-----------------------------------------------------------------------------
(* Type correctness, an action at a time. *)

(* What create_shared_memory_structs leaves is well typed.                 *)
LEMMA InitTypeOK == Init => TypeOK
  BY ZeroSlot, ZeroTxInTx, ProcKinds, SizesAssumption, ArgsAssumption
  DEF Init, TypeOK, DataOK, LabelsOK, IndexesOK, CounterOK, MainLabels,
      WalletLabels, ServerLabels, ChildLabels, NChildren, Words

(* A wallet, whatever slots the others take or fill meanwhile.             *)
LEMMA WalletStepTypeOK ==
  ASSUME TypeOK, NEW p \in WalletProcs, WalletStep(p)
  PROVE  TypeOK'
<1> USE DEF flags, money, stats, mw, ws, sm, ledger, local, mainVar, Goto
<1>0. p \in Procs /\ p \in Children /\ p # Main /\ Id(p) \in Wallets
      /\ tx[p] \in Tx /\ idx[p] \in Slots /\ wrd[p] \in 1 .. Words
      /\ DataOK /\ LabelsOK /\ IndexesOK /\ CounterOK
  BY ProcKinds DEF TypeOK, DataOK, IndexesOK
<1>1. CASE WalletReceive(p)
  <2>1. DataOK'
    BY <1>0, <1>1, ZeroTxInTx DEF WalletReceive, DataOK
  <2>2. LabelsOK' /\ pc'[Main] = pc[Main]
    BY <1>0, <1>1, WalletMoves DEF WalletReceive, WalletLabels, ChildLabels, MW!ReadLabels
  <2> QED
    BY <1>0, <1>1, <2>1, <2>2, IndexKept, CounterKept DEF WalletReceive, TypeOK
<1>2. CASE WalletRead(p)
  <2> USE DEF MW!shared, MW!Goto
  <2>1. CASE MW!ReadSkip(p) \/ MW!ReadMismatch(p)
    <3>1. MW!PassSlot(p)
      BY <2>1 DEF MW!ReadSkip, MW!ReadMismatch
    <3>2. PICK l \in {"r_flag", "got"}, i \in Slots :
            pc' = [pc EXCEPT ![p] = l] /\ idx' = [idx EXCEPT ![p] = i]
      <4>1. CASE MW!LastSlot(p)
        BY <3>1, <4>1, ZeroSlot DEF MW!PassSlot, MW!NextSlot
      <4>2. CASE ~MW!LastSlot(p)
        <5>1. idx[p] + 1 \in Slots
          BY <1>0, <4>2, SizesAssumption DEF MW!LastSlot, Slots
        <5> QED
          BY <3>1, <4>2, <5>1 DEF MW!PassSlot, MW!NextSlot
      <4> QED
        BY <4>1, <4>2
    <3>3. tx' \in [Procs -> Tx]
      <4> DEFINE newId == IF MW!LastSlot(p) THEN NoTx ELSE tx[p].id
      <4>1. newId \in Int
        BY <1>0 DEF Tx, NoTx
      <4>2. tx' = [tx EXCEPT ![p] = [tx[p] EXCEPT !.id = newId]]
        BY <3>1, SameWords DEF MW!PassSlot
      <4> QED
        BY <1>0, <4>1, <4>2, IdSetInTx DEF DataOK
    <3>4. DataOK'
      BY <1>0, <1>2, <3>1, <3>3 DEF WalletRead, MW!PassSlot, DataOK
    <3>5. LabelsOK' /\ pc'[Main] = pc[Main]
      BY <1>0, <3>2, WalletMoves DEF WalletLabels, ChildLabels, MW!ReadLabels
    <3>6. IndexesOK'
      BY <1>0, <3>1, <3>2, <3>5, ChildIndex DEF MW!PassSlot, IndexesOK
    <3> QED
      BY <1>0, <1>2, <3>4, <3>5, <3>6, CounterKept DEF WalletRead, TypeOK
  <2>2. CASE MW!ReadFound(p) \/ MW!ReadMatch(p)
    <3>1. DataOK'
      BY <1>0, <1>2, <2>2 DEF WalletRead, MW!ReadFound, MW!ReadMatch, DataOK
    <3>2. LabelsOK' /\ pc'[Main] = pc[Main]
      BY <1>0, <2>2, WalletMoves
      DEF MW!ReadFound, MW!ReadMatch, WalletLabels, MW!ReadLabels
    <3> QED
      BY <1>0, <1>2, <2>2, <3>1, <3>2, IndexKept, CounterKept
      DEF WalletRead, MW!ReadFound, MW!ReadMatch, TypeOK
  <2>3. CASE MW!ReadCopy(p)
    <3>1. mw_buffer[idx[p]] \in Tx
      BY <1>0 DEF DataOK
    <3>2. CopyWord(tx[p], mw_buffer[idx[p]], wrd[p]) \in Tx
      BY <1>0, <3>1, CopyWordInTx
    <3>3. DataOK'
      BY <1>0, <1>2, <2>3, <3>2, SameWords DEF WalletRead, MW!ReadCopy, DataOK
    <3>4. LabelsOK' /\ pc'[Main] = pc[Main]
      <4>1. PICK l \in {"r_copy", "r_free"} : pc' = [pc EXCEPT ![p] = l]
        BY <2>3 DEF MW!ReadCopy, MW!NextWord
      <4> QED
        BY <1>0, <4>1, WalletMoves DEF WalletLabels, MW!ReadLabels
    <3>5. wrd' \in [Procs -> 1 .. Words]
      BY <1>0, <2>3, NextWordInWords, SameWords DEF MW!ReadCopy, MW!NextWord, IndexesOK
    <3>6. IndexesOK'
      BY <1>0, <2>3, <3>4, <3>5 DEF MW!ReadCopy, IndexesOK
    <3> QED
      BY <1>0, <1>2, <3>3, <3>4, <3>6, CounterKept DEF WalletRead, TypeOK
  <2>4. CASE MW!ReadFree(p)
    <3>1. DataOK'
      BY <1>0, <1>2, <2>4 DEF WalletRead, MW!ReadFree, DataOK
    <3>2. LabelsOK' /\ pc'[Main] = pc[Main]
      BY <1>0, <2>4, WalletMoves DEF MW!ReadFree, WalletLabels, ChildLabels
    <3>3. IndexesOK'
      BY <1>0, <2>4, <3>2, ZeroSlot, ChildIndex DEF MW!ReadFree, IndexesOK
    <3> QED
      BY <1>0, <1>2, <3>1, <3>2, <3>3, CounterKept DEF WalletRead, TypeOK
  <2> QED
    BY <1>2, <2>1, <2>2, <2>3, <2>4 DEF WalletRead, MW!Read
<1>3. CASE WalletExit(p) \/ WalletIdle(p)
  <2>1. DataOK'
    BY <1>0, <1>3, ZeroTxInTx DEF WalletExit, WalletIdle, DataOK
  <2>2. LabelsOK' /\ pc'[Main] = pc[Main]
    BY <1>0, <1>3, WalletMoves DEF WalletExit, WalletIdle, WalletLabels, ChildLabels
  <2> QED
    BY <1>0, <1>3, <2>1, <2>2, IndexKept, CounterKept
    DEF WalletExit, WalletIdle, TypeOK
<1>4. CASE WalletProcess(p)
  <2>0. [tx[p] EXCEPT !.wallet_signature = Id(p)] \in Tx
    BY <1>0 DEF Tx, Wallets
  <2>1. tx' \in [Procs -> Tx] /\ wallets_stats' \in [Wallets -> Nat]
    BY <1>0, <1>4, <2>0 DEF WalletProcess, DataOK
  <2>2. DataOK'
    BY <1>0, <1>4, <2>1 DEF WalletProcess, DataOK
  <2>3. PICK l \in {"put_in", "top"} : pc' = [pc EXCEPT ![p] = l]
    BY <1>4 DEF WalletProcess
  <2>4. LabelsOK' /\ pc'[Main] = pc[Main]
    BY <1>0, <2>3, WalletMoves DEF WalletLabels, ChildLabels, WS!PutLabels
  <2> QED
    BY <1>0, <1>4, <2>2, <2>4, IndexKept, CounterKept DEF WalletProcess, TypeOK
<1>5. CASE WalletSend(p)
  <2> USE DEF WS!shared, WS!Goto
  <2>0. WS!Succ(idx[p]) \in Slots
    BY <1>0, SizesAssumption, SMTT(30) DEF WS!Succ, Slots
  <2>1. CASE WS!PutRoom(p)
    <3>1. DataOK'
      BY <1>0, <1>5, <2>1 DEF WalletSend, WS!PutRoom, DataOK
    <3>2. LabelsOK' /\ pc'[Main] = pc[Main]
      BY <1>0, <2>1, WalletMoves DEF WS!PutRoom, WalletLabels, WS!PutLabels
    <3> QED
      BY <1>0, <1>5, <2>1, <3>1, <3>2, IndexKept, CounterKept
      DEF WalletSend, WS!PutRoom, TypeOK
  <2>2. CASE WS!PutLoadIn(p) \/ WS!PutFull(p) \/ WS!PutSet(p)
    <3>1. DataOK'
      BY <1>0, <1>5, <2>0, <2>2
      DEF WalletSend, WS!PutLoadIn, WS!PutFull, WS!PutSet, DataOK
    <3>2. PICK l \in {"put_out", "top"}, i \in Slots :
            pc' = [pc EXCEPT ![p] = l] /\ idx' = [idx EXCEPT ![p] = i]
      BY <1>0, <2>2, ZeroSlot DEF WS!PutLoadIn, WS!PutFull, WS!PutSet, DataOK
    <3>3. LabelsOK' /\ pc'[Main] = pc[Main]
      BY <1>0, <3>2, WalletMoves DEF WalletLabels, ChildLabels, WS!PutLabels
    <3>4. IndexesOK'
      BY <1>0, <2>2, <3>2, <3>3, ChildIndex
      DEF WS!PutLoadIn, WS!PutFull, WS!PutSet, IndexesOK
    <3> QED
      BY <1>0, <1>5, <3>1, <3>3, <3>4, CounterKept DEF WalletSend, TypeOK
  <2>3. CASE WS!PutCopy(p)
    <3>1. CopyWord(ws_buffer[idx[p]], tx[p], wrd[p]) \in Tx
      BY <1>0, CopyWordInTx DEF DataOK
    <3>2. DataOK'
      BY <1>0, <1>5, <2>3, <3>1, SameWords DEF WalletSend, WS!PutCopy, DataOK
    <3>3. PICK l \in {"put_copy", "put_set"} : pc' = [pc EXCEPT ![p] = l]
      BY <2>3 DEF WS!PutCopy, WS!NextWord
    <3>4. LabelsOK' /\ pc'[Main] = pc[Main]
      BY <1>0, <3>3, WalletMoves DEF WalletLabels, WS!PutLabels
    <3>5. wrd' \in [Procs -> 1 .. Words]
      BY <1>0, <2>3, NextWordInWords, SameWords DEF WS!PutCopy, WS!NextWord, IndexesOK
    <3>6. IndexesOK'
      BY <1>0, <2>3, <3>4, <3>5 DEF WS!PutCopy, IndexesOK
    <3> QED
      BY <1>0, <1>5, <3>2, <3>4, <3>6, CounterKept DEF WalletSend, TypeOK
  <2> QED
    BY <1>5, <2>1, <2>2, <2>3 DEF WalletSend, WS!Put
<1> QED
  BY <1>1, <1>2, <1>3, <1>4, <1>5 DEF WalletStep

(* A server, whatever torn transaction it read.                            *)
LEMMA ServerStepTypeOK ==
  ASSUME TypeOK, NEW p \in ServerProcs, ServerStep(p)
  PROVE  TypeOK'
<1> USE DEF flags, money, stats, mw, ws, sm, ledger, local, mainVar, Goto
<1>0. p \in Procs /\ p \in Children /\ p # Main /\ Id(p) \in Servers
      /\ tx[p] \in Tx /\ idx[p] \in Slots /\ wrd[p] \in 1 .. Words
      /\ DataOK /\ LabelsOK /\ IndexesOK /\ CounterOK
  BY ProcKinds DEF TypeOK, DataOK, IndexesOK
<1>1. CASE ServerReceive(p) \/ ServerExit(p) \/ ServerIdle(p) \/ ServerReject(p)
           \/ ServerAccept(p)
  <2>1. DataOK'
    BY <1>0, <1>1, ZeroTxInTx
    DEF ServerReceive, ServerExit, ServerIdle, ServerReject, ServerAccept, DataOK
  <2>2. PICK l \in {"got", "get_in", "exited", "top", "w_flag", "load_dest"} :
          pc' = [pc EXCEPT ![p] = l]
    BY <1>1
    DEF ServerReceive, ServerExit, ServerIdle, ServerReject, ServerAccept
  <2>3. LabelsOK' /\ pc'[Main] = pc[Main]
    BY <1>0, <2>2, ServerMoves
    DEF ServerLabels, ChildLabels, WS!GetLabels, SM!WriteLabels, Transferring
  <2> QED
    BY <1>0, <1>1, <2>1, <2>3, IndexKept, CounterKept
    DEF ServerReceive, ServerExit, ServerIdle, ServerReject, ServerAccept, TypeOK
<1>2. CASE ServerRead(p)
  <2> USE DEF WS!shared, WS!Goto
  <2>0. WS!Succ(idx[p]) \in Slots
    BY <1>0, SizesAssumption, SMTT(30) DEF WS!Succ, Slots
  <2>1. CASE WS!GetCopy(p)
    <3>1. CopyWord(tx[p], ws_buffer[idx[p]], wrd[p]) \in Tx
      BY <1>0, CopyWordInTx DEF DataOK
    <3>2. DataOK'
      BY <1>0, <1>2, <2>1, <3>1, SameWords DEF ServerRead, WS!GetCopy, DataOK
    <3>3. PICK l \in {"get_copy", "get_set"} : pc' = [pc EXCEPT ![p] = l]
      BY <2>1 DEF WS!GetCopy, WS!NextWord
    <3>4. LabelsOK' /\ pc'[Main] = pc[Main]
      BY <1>0, <3>3, ServerMoves DEF ServerLabels, WS!GetLabels
    <3>5. wrd' \in [Procs -> 1 .. Words]
      BY <1>0, <2>1, NextWordInWords, SameWords DEF WS!GetCopy, WS!NextWord, IndexesOK
    <3>6. IndexesOK'
      BY <1>0, <2>1, <3>4, <3>5 DEF WS!GetCopy, IndexesOK
    <3> QED
      BY <1>0, <1>2, <3>2, <3>4, <3>6, CounterKept DEF ServerRead, TypeOK
  <2>2. CASE WS!GetLoadIn(p) \/ WS!GetEmpty(p) \/ WS!GetSome(p) \/ WS!GetSet(p)
    <3>1. tx' \in [Procs -> Tx]
      <4>1. CASE WS!GetEmpty(p)
        <5>1. tx' = [tx EXCEPT ![p] = [tx[p] EXCEPT !.id = NoTx]]
          BY <4>1, SameWords DEF WS!GetEmpty
        <5>2. [tx[p] EXCEPT !.id = NoTx] \in Tx
          BY <1>0, IdSetInTx DEF NoTx
        <5> QED
          BY <1>0, <5>1, <5>2 DEF DataOK
      <4>2. CASE WS!GetLoadIn(p) \/ WS!GetSome(p) \/ WS!GetSet(p)
        BY <1>0, <4>2 DEF WS!GetLoadIn, WS!GetSome, WS!GetSet, DataOK
      <4> QED
        BY <2>2, <4>1, <4>2
    <3>2. DataOK'
      BY <1>0, <1>2, <2>0, <2>2, <3>1
      DEF ServerRead, WS!GetLoadIn, WS!GetEmpty, WS!GetSome, WS!GetSet, DataOK
    <3>3. PICK l \in {"get_out", "got", "get_copy"}, i \in Slots :
            pc' = [pc EXCEPT ![p] = l] /\ idx' = [idx EXCEPT ![p] = i]
      BY <1>0, <2>2, ZeroSlot
      DEF WS!GetLoadIn, WS!GetEmpty, WS!GetSome, WS!GetSet, DataOK
    <3>4. LabelsOK' /\ pc'[Main] = pc[Main]
      BY <1>0, <3>3, ServerMoves DEF ServerLabels, ChildLabels, WS!GetLabels
    <3>5. IndexesOK'
      BY <1>0, <2>2, <3>3, <3>4, ChildIndex
      DEF WS!GetLoadIn, WS!GetEmpty, WS!GetSome, WS!GetSet, IndexesOK
    <3> QED
      BY <1>0, <1>2, <3>2, <3>4, <3>5, CounterKept DEF ServerRead, TypeOK
  <2> QED
    BY <1>2, <2>1, <2>2 DEF ServerRead, WS!Get
<1>3. CASE LoadDest(p) \/ StoreDest(p) \/ LoadSrc(p) \/ StoreSrc(p)
  <2>1. balances[tx[p].dest_id] \in Int /\ balances[tx[p].src_id] \in Int
        /\ tx[p].amount \in Int /\ reg[Id(p)] \in Int
    BY <1>0 DEF DataOK, Tx
  <2>2. balances' \in [Wallets -> Int] /\ reg' \in [Servers -> Int]
    BY <1>0, <1>3, <2>1 DEF LoadDest, StoreDest, LoadSrc, StoreSrc, DataOK
  <2>3. DataOK'
    BY <1>0, <1>3, <2>2 DEF LoadDest, StoreDest, LoadSrc, StoreSrc, DataOK
  <2>4. PICK l \in Transferring : pc' = [pc EXCEPT ![p] = l]
    BY <1>3 DEF LoadDest, StoreDest, LoadSrc, StoreSrc, Transferring
  <2>5. LabelsOK' /\ pc'[Main] = pc[Main]
    BY <1>0, <2>4, ServerMoves DEF ServerLabels
  <2> QED
    BY <1>0, <1>3, <2>3, <2>5, IndexKept, CounterKept
    DEF LoadDest, StoreDest, LoadSrc, StoreSrc, TypeOK
<1>4. CASE ServerSign(p)
  <2>1. [tx[p] EXCEPT !.server_signature = Id(p)] \in Tx
    BY <1>0 DEF Tx, Servers
  <2>2. DataOK'
    BY <1>0, <1>4, <2>1 DEF ServerSign, DataOK
  <2>3. LabelsOK' /\ pc'[Main] = pc[Main]
    BY <1>0, <1>4, ServerMoves DEF ServerSign, ServerLabels, Transferring
  <2> QED
    BY <1>0, <1>4, <2>2, <2>3, IndexKept, CounterKept DEF ServerSign, TypeOK
<1>5. CASE WriteLedger(p) \/ LedgerFails(p)
  <2>1. \A v \in Wallets : NetOf(tx[p], v) \in Int
    BY <1>0 DEF NetOf, Tx
  <2>2. DataOK'
    BY <1>0, <1>5, <2>1 DEF WriteLedger, LedgerFails, DataOK
  <2>3. PICK l \in {"w_flag", "top"} : pc' = [pc EXCEPT ![p] = l]
    BY <1>5 DEF WriteLedger, LedgerFails
  <2>4. LabelsOK' /\ pc'[Main] = pc[Main]
    BY <1>0, <2>3, ServerMoves DEF ServerLabels, ChildLabels, SM!WriteLabels
  <2> QED
    BY <1>0, <1>5, <2>2, <2>4, IndexKept, CounterKept
    DEF WriteLedger, LedgerFails, TypeOK
<1>6. CASE ServerSend(p)
  <2> USE DEF SM!shared, SM!Goto
  <2>1. CASE SM!WriteSkip(p)
    <3>1. DataOK'
      BY <1>0, <1>6, <2>1 DEF ServerSend, SM!WriteSkip, DataOK
    <3>2. PICK l \in {"w_flag", "top"}, i \in Slots :
            pc' = [pc EXCEPT ![p] = l] /\ idx' = [idx EXCEPT ![p] = i]
      <4>1. CASE SM!LastSlot(p)
        BY <2>1, <4>1, ZeroSlot DEF SM!WriteSkip, SM!NextSlot
      <4>2. CASE ~SM!LastSlot(p)
        <5>1. idx[p] + 1 \in Slots
          BY <1>0, <4>2, SizesAssumption DEF SM!LastSlot, Slots
        <5> QED
          BY <2>1, <4>2, <5>1 DEF SM!WriteSkip, SM!NextSlot
      <4> QED
        BY <4>1, <4>2
    <3>3. LabelsOK' /\ pc'[Main] = pc[Main]
      BY <1>0, <3>2, ServerMoves DEF ServerLabels, ChildLabels, SM!WriteLabels
    <3>4. IndexesOK'
      BY <1>0, <2>1, <3>2, <3>3, ChildIndex DEF SM!WriteSkip, IndexesOK
    <3> QED
      BY <1>0, <1>6, <3>1, <3>3, <3>4, CounterKept DEF ServerSend, TypeOK
  <2>2. CASE SM!WriteFound(p) \/ SM!WriteMark(p)
    <3>1. DataOK'
      BY <1>0, <1>6, <2>2 DEF ServerSend, SM!WriteFound, SM!WriteMark, DataOK
    <3>2. LabelsOK' /\ pc'[Main] = pc[Main]
      BY <1>0, <2>2, ServerMoves
      DEF SM!WriteFound, SM!WriteMark, ServerLabels, SM!WriteLabels
    <3> QED
      BY <1>0, <1>6, <2>2, <3>1, <3>2, IndexKept, CounterKept
      DEF ServerSend, SM!WriteFound, SM!WriteMark, TypeOK
  <2>3. CASE SM!WriteCopy(p)
    <3>1. CopyWord(sm_buffer[idx[p]], tx[p], wrd[p]) \in Tx
      BY <1>0, CopyWordInTx DEF DataOK
    <3>2. DataOK'
      BY <1>0, <1>6, <2>3, <3>1, SameWords DEF ServerSend, SM!WriteCopy, DataOK
    <3>3. PICK l \in {"w_copy", "top"} : pc' = [pc EXCEPT ![p] = l]
      BY <1>0, <2>3 DEF SM!WriteCopy, SM!NextWord
    <3>4. LabelsOK' /\ pc'[Main] = pc[Main]
      BY <1>0, <3>3, ServerMoves DEF ServerLabels, ChildLabels, SM!WriteLabels
    <3>5. wrd' \in [Procs -> 1 .. Words]
      BY <1>0, <2>3, NextWordInWords, SameWords DEF SM!WriteCopy, SM!NextWord, IndexesOK
    <3>6. PICK i \in Slots : idx' = [idx EXCEPT ![p] = i]
      BY <1>0, <2>3, ZeroSlot DEF SM!WriteCopy
    <3>7. IndexesOK'
      BY <1>0, <3>4, <3>5, <3>6, ChildIndex
    <3> QED
      BY <1>0, <1>6, <3>2, <3>4, <3>7, CounterKept DEF ServerSend, TypeOK
  <2> QED
    BY <1>6, <2>1, <2>2, <2>3 DEF ServerSend, SM!Write
<1> QED
  BY <1>1, <1>2, <1>3, <1>4, <1>5, <1>6 DEF ServerStep

(* main, whatever the user types and whether or not the forks fail.        *)
LEMMA MainStepTypeOK ==
  ASSUME TypeOK, MainStep \/ UserCommand
  PROVE  TypeOK'
<1> USE DEF flags, money, stats, mw, ws, sm, ledger, local, mainVar, Goto
<1>0. /\ Main \in Procs /\ Main \notin Children
      /\ tx[Main] \in Tx /\ idx[Main] \in Nat /\ wrd[Main] \in 1 .. Words
      /\ NChildren \in Nat \ {0} /\ 0 \in Slots
      /\ DataOK /\ LabelsOK /\ IndexesOK /\ CounterOK
  BY ProcKinds, ZeroSlot, SizesAssumption DEF TypeOK, DataOK, IndexesOK, NChildren
<1>1. CASE Launch \/ LaunchFails
  <2> DEFINE k == idx[Main]
             c == ChildAt(k)
             last == k + 1 = NChildren
             l == IF last THEN "prompt" ELSE "create"
             n == IF last THEN 0 ELSE k + 1
  <2>1. k \in 0 .. NChildren - 1 /\ pc[Main] = "create"
    BY <1>0, <1>1 DEF Launch, LaunchFails, IndexesOK
  <2>2. c \in Children /\ c \in Procs /\ c # Main
    BY <1>0, <2>1, ChildAtIsChild, ProcKinds
  <2>3. balances' \in [Wallets -> Int]
    BY <1>0, <1>1, ArgsAssumption DEF Launch, LaunchFails, SetBalance, DataOK
  <2>4. DataOK'
    BY <1>0, <1>1, <2>3 DEF Launch, LaunchFails, DataOK
  <2>5. idx' = [idx EXCEPT ![Main] = n]
    BY <1>0, <1>1 DEF Launch, LaunchFails, NextChild, IndexesOK
  <2>6. LabelsOK' /\ pc'[Main] = l
    <3>1. CASE Launch
      <4>1. pc' = [pc EXCEPT ![c] = "top", ![Main] = l]
        BY <1>0, <2>1, <2>2, <3>1 DEF Launch, LabelsOK
      <4>2. pc' \in [Procs -> MainLabels \cup WalletLabels \cup ServerLabels]
        BY <1>0, <2>2, <4>1 DEF LabelsOK, MainLabels, WalletLabels, ChildLabels
      <4>3. pc'[Main] = l /\ l \in MainLabels
        BY <1>0, <4>1 DEF LabelsOK, MainLabels
      <4>4. \A q \in Children : pc'[q] = IF q = c THEN "top" ELSE pc[q]
        BY <1>0, <2>2, <4>1, ProcKinds DEF LabelsOK
      <4> QED
        BY <1>0, <4>2, <4>3, <4>4, ProcKinds
        DEF LabelsOK, WalletLabels, ServerLabels, ChildLabels
    <3>2. CASE LaunchFails
      <4>1. pc' = [pc EXCEPT ![Main] = l]
        BY <1>0, <2>1, <3>2 DEF LaunchFails, NextChild, LabelsOK
      <4> QED
        BY <1>0, <4>1, MainMoves DEF MainLabels
    <3> QED
      BY <1>1, <3>1, <3>2
  <2>7. n \in Nat /\ MainIndexOK(l, n)
    BY <1>0, <2>1 DEF MainIndexOK, MainWriting, MainReading, MW!WriteLabels, SM!ReadLabels
  <2>8. IndexesOK'
    BY <1>0, <1>1, <2>5, <2>6, <2>7, MainIndex DEF Launch, LaunchFails, IndexesOK
  <2>9. CounterOK'
    BY <1>0, <1>1, <2>6 DEF Launch, LaunchFails, CounterOK, MainWriting, MW!WriteLabels
  <2> QED
    BY <2>4, <2>6, <2>8, <2>9 DEF TypeOK
<1>2. CASE MainWrite
  <2> USE DEF MW!shared, MW!Goto
  <2>0. pc[Main] \in MainWriting /\ idx[Main] \in Slots /\ tx_counter < MaxTxs
    BY <1>0, <1>2 DEF MainWrite, MW!Write, MW!WriteSkip, MW!WriteFound, MW!WriteMark,
       MW!WriteCopy, MainWriting, MW!WriteLabels, IndexesOK, CounterOK
  <2>1. mw_ptrs' \in [Slots -> {0, 1}]
    BY <1>0, <1>2 DEF MainWrite, MW!Write, MW!WriteSkip, MW!WriteFound, MW!WriteMark,
       MW!WriteCopy, DataOK
  <2>2. mw_buffer' \in [Slots -> Tx]
    <3>1. CopyWord(mw_buffer[idx[Main]], tx[Main], wrd[Main]) \in Tx
      BY <1>0, <2>0, CopyWordInTx DEF DataOK
    <3>2. CASE MW!WriteCopy(Main)
      BY <1>0, <3>1, <3>2, SameWords DEF MW!WriteCopy, DataOK
    <3>3. CASE ~MW!WriteCopy(Main)
      BY <1>0, <1>2, <3>3 DEF MainWrite, MW!Write, MW!WriteSkip, MW!WriteFound,
         MW!WriteMark, DataOK
    <3> QED
      BY <3>2, <3>3
  <2>3. tx' = tx
    BY <1>2 DEF MainWrite, MW!Write, MW!WriteSkip, MW!WriteFound, MW!WriteMark,
       MW!WriteCopy
  <2>4. DataOK'
    BY <1>0, <1>2, <2>1, <2>2, <2>3 DEF MainWrite, DataOK
  <2>5. wrd' \in [Procs -> 1 .. Words]
    <3>1. CASE MW!WriteCopy(Main)
      BY <1>0, <3>1, NextWordInWords, SameWords DEF MW!WriteCopy, MW!NextWord, IndexesOK
    <3>2. CASE ~MW!WriteCopy(Main)
      BY <1>0, <1>2, <3>2 DEF MainWrite, MW!Write, MW!WriteSkip, MW!WriteFound,
         MW!WriteMark, IndexesOK
    <3> QED
      BY <3>1, <3>2
  <2>6. PICK l \in MainWriting \cup {"count"}, n \in Slots :
          /\ pc' = [pc EXCEPT ![Main] = l]
          /\ idx' = [idx EXCEPT ![Main] = n]
          /\ l = "count" => n = 0
    <3> USE DEF MainWriting, MW!WriteLabels
    <3>1. CASE MW!WriteSkip(Main) /\ MW!LastSlot(Main)
      BY <1>0, <3>1 DEF MW!WriteSkip, MW!NextSlot
    <3>2. CASE MW!WriteSkip(Main) /\ ~MW!LastSlot(Main)
      <4>1. idx[Main] + 1 \in Slots
        BY <2>0, <3>2, SizesAssumption DEF MW!LastSlot, Slots
      <4> QED
        BY <3>2, <4>1 DEF MW!WriteSkip, MW!NextSlot
    <3>3. CASE MW!WriteFound(Main) \/ MW!WriteMark(Main)
      <4>1. idx' = [idx EXCEPT ![Main] = idx[Main]]
        BY <1>0, <3>3 DEF MW!WriteFound, MW!WriteMark, IndexesOK
      <4>2. PICK m \in MainWriting : pc' = [pc EXCEPT ![Main] = m]
        BY <3>3 DEF MW!WriteFound, MW!WriteMark
      <4>3. m \in MainWriting \cup {"count"} /\ (m = "count" => idx[Main] = 0)
        OBVIOUS
      <4> QED
        BY <2>0, <4>1, <4>2, <4>3
    <3>4. CASE MW!WriteCopy(Main) /\ wrd[Main] = Words
      BY <1>0, <3>4, SameWords DEF MW!WriteCopy, MW!NextWord
    <3>5. CASE MW!WriteCopy(Main) /\ wrd[Main] # Words
      <4>1. pc' = [pc EXCEPT ![Main] = "w_copy"]
        BY <1>0, <3>5, SameWords DEF MW!WriteCopy, MW!NextWord, LabelsOK
      <4>2. idx' = [idx EXCEPT ![Main] = idx[Main]]
        BY <1>0, <3>5, SameWords DEF MW!WriteCopy
      <4> QED
        BY <2>0, <4>1, <4>2
    <3> QED
      BY <1>2, <3>1, <3>2, <3>3, <3>4, <3>5 DEF MainWrite, MW!Write
  <2>7. LabelsOK' /\ pc'[Main] = l
    BY <1>0, <2>6, MainMoves DEF MainLabels
  <2>8. n \in Nat /\ MainIndexOK(l, n)
    BY <2>6, SizesAssumption
    DEF Slots, MainIndexOK, MainWriting, MainReading, MW!WriteLabels, SM!ReadLabels
  <2>9. IndexesOK'
    BY <1>0, <2>5, <2>6, <2>7, <2>8, MainIndex
  <2>10. CounterOK'
    BY <1>0, <1>2, <2>0 DEF MainWrite, CounterOK
  <2> QED
    BY <2>4, <2>7, <2>9, <2>10 DEF TypeOK
<1>3. CASE CountTransaction
  <2>1. tx_counter < MaxTxs /\ idx[Main] = 0
    BY <1>0, <1>3 DEF CountTransaction, CounterOK, IndexesOK
  <2>2. DataOK'
    BY <1>0, <1>3, ZeroTxInTx DEF CountTransaction, DataOK
  <2>3. LabelsOK' /\ pc'[Main] = "prompt"
    BY <1>0, <1>3, MainMoves DEF CountTransaction, MainLabels
  <2>4. IndexesOK'
    BY <1>0, <1>3, <2>1, <2>3
    DEF CountTransaction, IndexesOK, MainWriting, MainReading, MW!WriteLabels, SM!ReadLabels
  <2>5. CounterOK'
    BY <1>0, <1>3, <2>1, <2>3, ArgsAssumption
    DEF CountTransaction, CounterOK, MainWriting, MW!WriteLabels
  <2> QED
    BY <2>2, <2>3, <2>4, <2>5 DEF TypeOK
<1>4. CASE MainRead
  <2> USE DEF SM!shared, SM!Goto
  <2>0. pc[Main] \in MainReading /\ idx[Main] \in Slots
    BY <1>0, <1>4 DEF MainRead, SM!Read, SM!ReadSkip, SM!ReadMismatch, SM!ReadFound,
       SM!ReadMatch, SM!ReadCopy, SM!ReadFree, MainReading, SM!ReadLabels, IndexesOK
  <2>1. sm_ptrs' \in [Slots -> {0, 1}] /\ sm_buffer' = sm_buffer
    BY <1>0, <1>4 DEF MainRead, SM!Read, SM!ReadSkip, SM!ReadMismatch, SM!ReadFound,
       SM!ReadMatch, SM!ReadCopy, SM!ReadFree, SM!PassSlot, DataOK
  <2>2. tx' \in [Procs -> Tx]
    <3>1. CASE SM!ReadSkip(Main) \/ SM!ReadMismatch(Main)
      <4> DEFINE newId == IF SM!LastSlot(Main) THEN NoTx ELSE tx[Main].id
      <4>1. newId \in Int
        BY <1>0 DEF Tx, NoTx
      <4>2. tx' = [tx EXCEPT ![Main] = [tx[Main] EXCEPT !.id = newId]]
        BY <3>1, SameWords DEF SM!ReadSkip, SM!ReadMismatch, SM!PassSlot
      <4> QED
        BY <1>0, <4>1, <4>2, IdSetInTx DEF DataOK
    <3>2. CASE SM!ReadCopy(Main)
      <4>1. CopyWord(tx[Main], sm_buffer[idx[Main]], wrd[Main]) \in Tx
        BY <1>0, <2>0, CopyWordInTx DEF DataOK
      <4> QED
        BY <1>0, <3>2, <4>1, SameWords DEF SM!ReadCopy, DataOK
    <3>3. CASE SM!ReadFound(Main) \/ SM!ReadMatch(Main) \/ SM!ReadFree(Main)
      BY <1>0, <3>3 DEF SM!ReadFound, SM!ReadMatch, SM!ReadFree, DataOK
    <3> QED
      BY <1>4, <3>1, <3>2, <3>3 DEF MainRead, SM!Read
  <2>3. DataOK'
    BY <1>0, <1>4, <2>1, <2>2 DEF MainRead, DataOK
  <2>4. wrd' \in [Procs -> 1 .. Words]
    <3>1. CASE SM!ReadCopy(Main)
      BY <1>0, <3>1, NextWordInWords, SameWords DEF SM!ReadCopy, SM!NextWord, IndexesOK
    <3>2. CASE ~SM!ReadCopy(Main)
      BY <1>0, <1>4, <3>2 DEF MainRead, SM!Read, SM!ReadSkip, SM!ReadMismatch,
         SM!ReadFound, SM!ReadMatch, SM!ReadFree, SM!PassSlot, IndexesOK
    <3> QED
      BY <3>1, <3>2
  <2>5. PICK l \in MainReading \cup {"show"}, n \in Slots :
          /\ pc' = [pc EXCEPT ![Main] = l]
          /\ idx' = [idx EXCEPT ![Main] = n]
          /\ l = "show" => n = 0
    <3> USE DEF MainReading, SM!ReadLabels
    <3>1. CASE SM!ReadSkip(Main) \/ SM!ReadMismatch(Main)
      <4>1. SM!PassSlot(Main)
        BY <3>1 DEF SM!ReadSkip, SM!ReadMismatch
      <4>2. CASE SM!LastSlot(Main)
        BY <1>0, <4>1, <4>2 DEF SM!PassSlot, SM!NextSlot
      <4>3. CASE ~SM!LastSlot(Main)
        <5>1. idx[Main] + 1 \in Slots
          BY <2>0, <4>3, SizesAssumption DEF SM!LastSlot, Slots
        <5>2. /\ pc' = [pc EXCEPT ![Main] = "r_flag"]
              /\ idx' = [idx EXCEPT ![Main] = idx[Main] + 1]
          BY <4>1, <4>3 DEF SM!PassSlot, SM!NextSlot
        <5>3. "r_flag" \in MainReading \cup {"show"}
          OBVIOUS
        <5> QED
          BY <5>1, <5>2, <5>3
      <4> QED
        BY <4>2, <4>3
    <3>2. CASE SM!ReadFound(Main) \/ SM!ReadMatch(Main) \/ SM!ReadCopy(Main)
      <4>1. PICK m \in MainReading : pc' = [pc EXCEPT ![Main] = m]
        BY <3>2 DEF SM!ReadFound, SM!ReadMatch, SM!ReadCopy, SM!NextWord
      <4>2. idx' = [idx EXCEPT ![Main] = idx[Main]]
        BY <1>0, <3>2 DEF SM!ReadFound, SM!ReadMatch, SM!ReadCopy, IndexesOK
      <4>3. m \in MainReading \cup {"show"} /\ (m = "show" => idx[Main] = 0)
        OBVIOUS
      <4> QED
        BY <2>0, <4>1, <4>2, <4>3
    <3>3. CASE SM!ReadFree(Main)
      BY <1>0, <3>3 DEF SM!ReadFree
    <3> QED
      BY <1>4, <3>1, <3>2, <3>3 DEF MainRead, SM!Read
  <2>6. LabelsOK' /\ pc'[Main] = l
    BY <1>0, <2>5, MainMoves DEF MainLabels
  <2>7. n \in Nat /\ MainIndexOK(l, n)
    BY <2>5, SizesAssumption
    DEF Slots, MainIndexOK, MainWriting, MainReading, MW!WriteLabels, SM!ReadLabels
  <2>8. IndexesOK'
    BY <1>0, <2>4, <2>5, <2>6, <2>7, MainIndex
  <2>9. CounterOK'
    BY <1>0, <1>4, <2>5, <2>6
    DEF MainRead, CounterOK, MainReading, SM!ReadLabels, MainWriting, MW!WriteLabels
  <2> QED
    BY <2>3, <2>6, <2>8, <2>9 DEF TypeOK
<1>5. CASE ShowReceipt \/ Destroy
  <2>1. receipts' \subseteq [asked : Int, got : Tx]
    BY <1>0, <1>5 DEF ShowReceipt, Destroy, DataOK
  <2>2. DataOK'
    <3>1. CASE ShowReceipt
      <4>1. tx' \in [Procs -> Tx] /\ rcp_id' \in Int
        BY <1>0, <3>1, ZeroTxInTx DEF ShowReceipt, DataOK
      <4> QED
        BY <1>0, <2>1, <3>1, <4>1 DEF ShowReceipt, DataOK
    <3>2. CASE Destroy
      BY <1>0, <3>2 DEF Destroy, DataOK
    <3> QED
      BY <1>5, <3>1, <3>2
  <2>3. PICK l \in {"prompt", "done"} : pc' = [pc EXCEPT ![Main] = l]
    BY <1>5 DEF ShowReceipt, Destroy
  <2>4. LabelsOK' /\ pc'[Main] = l
    BY <1>0, <2>3, MainMoves DEF MainLabels
  <2>5. idx[Main] = 0 /\ UNCHANGED <<idx, wrd>>
    BY <1>0, <1>5 DEF ShowReceipt, Destroy, IndexesOK
  <2>6. IndexesOK'
    BY <1>0, <2>3, <2>4, <2>5
    DEF IndexesOK, MainWriting, MainReading, MW!WriteLabels, SM!ReadLabels
  <2>7. CounterOK'
    BY <1>0, <1>5, <2>3, <2>4
    DEF ShowReceipt, Destroy, CounterOK, MainWriting, MW!WriteLabels
  <2> QED
    BY <2>2, <2>4, <2>6, <2>7 DEF TypeOK
<1>6. CASE (\E c \in Children : Reap(c)) \/ ReapNone
  <2> DEFINE k == idx[Main]
             last == k + 1 = NChildren
             l == IF last THEN "destroy" ELSE "wait"
             n == IF last THEN 0 ELSE k + 1
  <2>1. k \in 0 .. NChildren - 1 /\ pc[Main] = "wait"
    BY <1>0, <1>6 DEF Reap, ReapNone, IndexesOK
  <2>2. DataOK'
    BY <1>0, <1>6 DEF Reap, ReapNone, DataOK
  <2>3. idx' = [idx EXCEPT ![Main] = n] /\ wrd' = wrd
    BY <1>0, <1>6 DEF Reap, ReapNone, NextChild, IndexesOK
  <2>4. LabelsOK' /\ pc'[Main] = l
    <3>1. CASE \E c \in Children : Reap(c)
      <4>0. PICK c \in Children : Reap(c)
        BY <3>1
      <4>1. pc' = [pc EXCEPT ![c] = "reaped", ![Main] = l] /\ c \in Procs /\ c # Main
        BY <1>0, <2>1, <4>0, ProcKinds DEF Reap, LabelsOK
      <4>2. pc' \in [Procs -> MainLabels \cup WalletLabels \cup ServerLabels]
        BY <1>0, <4>1 DEF LabelsOK, MainLabels, WalletLabels, ChildLabels
      <4>3. pc'[Main] = l /\ l \in MainLabels
        BY <1>0, <4>1 DEF LabelsOK, MainLabels
      <4>4. \A q \in Children : pc'[q] = IF q = c THEN "reaped" ELSE pc[q]
        BY <1>0, <4>1, ProcKinds DEF LabelsOK
      <4> QED
        BY <1>0, <4>2, <4>3, <4>4, ProcKinds
        DEF LabelsOK, WalletLabels, ServerLabels, ChildLabels
    <3>2. CASE ReapNone
      <4>1. pc' = [pc EXCEPT ![Main] = l]
        BY <1>0, <2>1, <3>2 DEF ReapNone, NextChild, LabelsOK
      <4> QED
        BY <1>0, <4>1, MainMoves DEF MainLabels
    <3> QED
      BY <1>6, <3>1, <3>2
  <2>5. n \in Nat /\ MainIndexOK(l, n)
    BY <1>0, <2>1 DEF MainIndexOK, MainWriting, MainReading, MW!WriteLabels, SM!ReadLabels
  <2>6. IndexesOK'
    BY <1>0, <2>3, <2>4, <2>5, MainIndex DEF IndexesOK
  <2>7. CounterOK'
    BY <1>0, <1>6, <2>4 DEF Reap, ReapNone, CounterOK, MainWriting, MW!WriteLabels
  <2> QED
    BY <2>2, <2>4, <2>6, <2>7 DEF TypeOK
<1>7. CASE UserCommand
  <2>1. CASE \E t \in Transfers : CreateTransaction(t[1], t[2], t[3])
    <3>1. PICK t \in Transfers : CreateTransaction(t[1], t[2], t[3])
      BY <2>1
    <3>2. t[3] \in Int
      BY <3>1, InputsAssumption
    <3>3. tx' \in [Procs -> Tx]
      BY <1>0, <3>1, <3>2, ArgsAssumption DEF CreateTransaction, Accepted, DataOK, CounterOK, Tx
    <3>4. DataOK'
      BY <1>0, <3>1, <3>3 DEF CreateTransaction, DataOK
    <3>5. LabelsOK' /\ pc'[Main] = "w_flag"
      BY <1>0, <3>1, MainMoves DEF CreateTransaction, MainLabels, MainWriting, MW!WriteLabels
    <3>6. idx[Main] = 0 /\ tx_counter < MaxTxs
      BY <1>0, <3>1, ArgsAssumption DEF CreateTransaction, Accepted, IndexesOK, CounterOK
    <3>7. IndexesOK'
      BY <1>0, <3>1, <3>5, <3>6
      DEF CreateTransaction, IndexesOK, MainWriting, MainReading, MW!WriteLabels, SM!ReadLabels
    <3>8. CounterOK'
      BY <1>0, <3>1, <3>6 DEF CreateTransaction, Accepted, CounterOK
    <3> QED
      BY <3>4, <3>5, <3>7, <3>8 DEF TypeOK
  <2>2. CASE EndExecution \/ \E id \in RcpIds : AskReceipt(id)
    <3>1. DataOK'
      BY <1>0, <2>2, InputsAssumption DEF EndExecution, AskReceipt, DataOK
    <3>2. PICK l \in {"wait", "r_flag"} : pc' = [pc EXCEPT ![Main] = l]
      BY <2>2 DEF EndExecution, AskReceipt
    <3>3. LabelsOK' /\ pc'[Main] = l
      BY <1>0, <3>2, MainMoves DEF MainLabels, MainReading, SM!ReadLabels
    <3>4. idx[Main] = 0 /\ UNCHANGED <<idx, wrd>>
      BY <1>0, <2>2 DEF EndExecution, AskReceipt, IndexesOK
    <3>5. IndexesOK'
      BY <1>0, <3>2, <3>3, <3>4 DEF IndexesOK
    <3>6. CounterOK'
      BY <1>0, <2>2, <3>2, <3>3
      DEF EndExecution, AskReceipt, CounterOK, MainWriting, MW!WriteLabels
    <3> QED
      BY <3>1, <3>3, <3>5, <3>6 DEF TypeOK
  <2> QED
    BY <1>7, <2>1, <2>2 DEF UserCommand
<1> QED
  BY <1>1, <1>2, <1>3, <1>4, <1>5, <1>6, <1>7 DEF MainStep

(* No step of any process breaks it.                                       *)
LEMMA NextTypeOK == TypeOK /\ [Next]_vars => TypeOK'
<1> SUFFICES ASSUME TypeOK, [Next]_vars PROVE TypeOK'
  OBVIOUS
<1>1. CASE UNCHANGED vars
  BY <1>1 DEF TypeOK, DataOK, LabelsOK, IndexesOK, CounterOK, vars, flags, money,
     stats, mw, ws, sm, ledger, local, mainVar
<1> QED
  BY <1>1, WalletStepTypeOK, ServerStepTypeOK, MainStepTypeOK DEF Next, Done

(* Whatever the sizes of the buffers, the number of processes, the order   *)
(* they run in and what the user types: no index of the lock-free loops    *)
(* leaves its array, no copy of a transaction, however torn, names a       *)
(* wallet that does not exist, and tx_counter does not pass max_txs.       *)
THEOREM SOchainTyped == Spec => []TypeOK
  BY InitTypeOK, NextTypeOK, PTL DEF Spec

-----------------------------------------------------------------------------
(* What a step of a child leaves alone. *)

(* A step of a wallet is one of a child that runs, and touches nothing of  *)
(* main nor of another child.                                              *)
LEMMA WalletIsLocal ==
  ASSUME TypeOK, NEW p \in WalletProcs, WalletStep(p)
  PROVE  /\ pc[p] \notin {"unborn", "reaped"}
         /\ \A q \in Procs \ {p} : /\ pc'[q] = pc[q] /\ tx'[q] = tx[q]
                                   /\ wrd'[q] = wrd[q] /\ idx'[q] = idx[q]
         /\ idx'[Main] = idx[Main]
         /\ UNCHANGED <<flags, money, servers_stats, sm, ledger, mainVar>>
<1> USE DEF flags, money, stats, mw, ws, sm, ledger, local, mainVar, Goto
<1>0. p \in Procs /\ p # Main /\ Main \in Procs
      /\ pc \in [Procs -> MainLabels \cup WalletLabels \cup ServerLabels]
      /\ idx \in [Procs -> Nat] /\ wrd \in [Procs -> 1 .. Words] /\ tx \in [Procs -> Tx]
  BY ProcKinds DEF TypeOK, LabelsOK, IndexesOK, DataOK
<1>1. CASE WalletReceive(p) \/ WalletExit(p) \/ WalletIdle(p) \/ WalletProcess(p)
  BY <1>0, <1>1 DEF WalletReceive, WalletExit, WalletIdle, WalletProcess
<1>2. CASE WalletRead(p)
  <2>1. pc[p] \notin {"unborn", "reaped"}
    BY <1>2 DEF WalletRead, MW!Read, MW!ReadSkip, MW!ReadFound, MW!ReadMismatch,
       MW!ReadMatch, MW!ReadCopy, MW!ReadFree
  <2>2. PICK l : pc' = [pc EXCEPT ![p] = l]
    BY <1>2 DEF WalletRead, MW!Read, MW!ReadSkip, MW!ReadFound, MW!ReadMismatch,
       MW!ReadMatch, MW!ReadCopy, MW!ReadFree, MW!PassSlot, MW!NextSlot, MW!NextWord,
       MW!Goto
  <2>3. /\ idx'[Main] = idx[Main]
        /\ \A q \in Procs \ {p} : tx'[q] = tx[q] /\ wrd'[q] = wrd[q] /\ idx'[q] = idx[q]
    BY <1>0, <1>2 DEF WalletRead, MW!Read, MW!ReadSkip, MW!ReadFound, MW!ReadMismatch,
       MW!ReadMatch, MW!ReadCopy, MW!ReadFree, MW!PassSlot, MW!NextSlot, MW!NextWord
  <2> QED
    BY <1>0, <1>2, <2>1, <2>2, <2>3 DEF WalletRead
<1>3. CASE WalletSend(p)
  <2>1. pc[p] \notin {"unborn", "reaped"}
    BY <1>3 DEF WalletSend, WS!Put, WS!PutLoadIn, WS!PutFull, WS!PutRoom, WS!PutCopy,
       WS!PutSet
  <2>2. PICK l : pc' = [pc EXCEPT ![p] = l]
    BY <1>3 DEF WalletSend, WS!Put, WS!PutLoadIn, WS!PutFull, WS!PutRoom, WS!PutCopy,
       WS!PutSet, WS!NextWord, WS!Goto
  <2>3. /\ idx'[Main] = idx[Main]
        /\ \A q \in Procs \ {p} : tx'[q] = tx[q] /\ wrd'[q] = wrd[q] /\ idx'[q] = idx[q]
    BY <1>0, <1>3 DEF WalletSend, WS!Put, WS!PutLoadIn, WS!PutFull, WS!PutRoom,
       WS!PutCopy, WS!PutSet, WS!NextWord
  <2> QED
    BY <1>0, <1>3, <2>1, <2>2, <2>3 DEF WalletSend
<1> QED
  BY <1>1, <1>2, <1>3 DEF WalletStep

(* And so is a step of a server.                                           *)
LEMMA ServerIsLocal ==
  ASSUME TypeOK, NEW p \in ServerProcs, ServerStep(p)
  PROVE  /\ pc[p] \notin {"unborn", "reaped"}
         /\ \A q \in Procs \ {p} : /\ pc'[q] = pc[q] /\ tx'[q] = tx[q]
                                   /\ wrd'[q] = wrd[q] /\ idx'[q] = idx[q]
         /\ idx'[Main] = idx[Main]
         /\ UNCHANGED <<flags, wallets_stats, mw, mainVar>>
<1> USE DEF flags, money, stats, mw, ws, sm, ledger, local, mainVar, Goto
<1>0. p \in Procs /\ p # Main /\ Main \in Procs
      /\ pc \in [Procs -> MainLabels \cup WalletLabels \cup ServerLabels]
      /\ idx \in [Procs -> Nat] /\ wrd \in [Procs -> 1 .. Words] /\ tx \in [Procs -> Tx]
  BY ProcKinds DEF TypeOK, LabelsOK, IndexesOK, DataOK
<1>1. CASE \/ ServerReceive(p) \/ ServerExit(p) \/ ServerIdle(p) \/ ServerReject(p)
           \/ ServerAccept(p) \/ LoadDest(p) \/ StoreDest(p) \/ LoadSrc(p)
           \/ StoreSrc(p) \/ ServerSign(p) \/ WriteLedger(p) \/ LedgerFails(p)
  BY <1>0, <1>1 DEF ServerReceive, ServerExit, ServerIdle, ServerReject, ServerAccept,
     LoadDest, StoreDest, LoadSrc, StoreSrc, ServerSign, WriteLedger, LedgerFails
<1>2. CASE ServerRead(p)
  <2>1. pc[p] \notin {"unborn", "reaped"}
    BY <1>2 DEF ServerRead, WS!Get, WS!GetLoadIn, WS!GetEmpty, WS!GetSome, WS!GetCopy,
       WS!GetSet
  <2>2. PICK l : pc' = [pc EXCEPT ![p] = l]
    BY <1>2 DEF ServerRead, WS!Get, WS!GetLoadIn, WS!GetEmpty, WS!GetSome, WS!GetCopy,
       WS!GetSet, WS!NextWord, WS!Goto
  <2>3. /\ idx'[Main] = idx[Main]
        /\ \A q \in Procs \ {p} : tx'[q] = tx[q] /\ wrd'[q] = wrd[q] /\ idx'[q] = idx[q]
    BY <1>0, <1>2 DEF ServerRead, WS!Get, WS!GetLoadIn, WS!GetEmpty, WS!GetSome,
       WS!GetCopy, WS!GetSet, WS!NextWord
  <2> QED
    BY <1>0, <1>2, <2>1, <2>2, <2>3 DEF ServerRead
<1>3. CASE ServerSend(p)
  <2>1. pc[p] \notin {"unborn", "reaped"}
    BY <1>3 DEF ServerSend, SM!Write, SM!WriteSkip, SM!WriteFound, SM!WriteMark,
       SM!WriteCopy
  <2>2. PICK l : pc' = [pc EXCEPT ![p] = l]
    BY <1>3 DEF ServerSend, SM!Write, SM!WriteSkip, SM!WriteFound, SM!WriteMark,
       SM!WriteCopy, SM!NextSlot, SM!NextWord, SM!Goto
  <2>3. /\ idx'[Main] = idx[Main]
        /\ \A q \in Procs \ {p} : tx'[q] = tx[q] /\ wrd'[q] = wrd[q] /\ idx'[q] = idx[q]
    BY <1>0, <1>3 DEF ServerSend, SM!Write, SM!WriteSkip, SM!WriteFound, SM!WriteMark,
       SM!WriteCopy, SM!NextSlot, SM!NextWord
  <2> QED
    BY <1>0, <1>3, <2>1, <2>2, <2>3 DEF ServerSend
<1> QED
  BY <1>1, <1>2, <1>3 DEF ServerStep

(* A step of main launches or collects a child, or leaves all of them      *)
(* alone; it touches neither the ring nor what the children count.         *)
LEMMA MainIsLocal ==
  ASSUME TypeOK, MainStep \/ UserCommand
  PROVE  /\ \A c \in Children :
              /\ \/ pc'[c] = pc[c]
                 \/ pc[Main] = "create" /\ pc'[c] = "top"
                 \/ pc[c] = "exited" /\ pc'[c] = "reaped"
              /\ tx'[c] = tx[c] /\ wrd'[c] = wrd[c] /\ idx'[c] = idx[c]
         /\ terminate' \in {terminate, 1}
         /\ UNCHANGED <<reg, stats, ws, sm_buffer, ledger>>
<1> USE DEF flags, money, stats, mw, ws, sm, ledger, local, mainVar, Goto
<1>0. /\ Main \in Procs /\ \A c \in Children : c # Main /\ c \in Procs
      /\ pc \in [Procs -> MainLabels \cup WalletLabels \cup ServerLabels]
      /\ idx \in [Procs -> Nat] /\ wrd \in [Procs -> 1 .. Words] /\ tx \in [Procs -> Tx]
  BY ProcKinds DEF TypeOK, LabelsOK, IndexesOK, DataOK
<1>1. CASE Launch \/ LaunchFails
  BY <1>0, <1>1 DEF Launch, LaunchFails, NextChild
<1>2. CASE MainWrite
  BY <1>0, <1>2 DEF MainWrite, MW!Write, MW!WriteSkip, MW!WriteFound, MW!WriteMark,
     MW!WriteCopy, MW!NextSlot, MW!NextWord, MW!Goto
<1>3. CASE MainRead
  BY <1>0, <1>3 DEF MainRead, SM!Read, SM!ReadSkip, SM!ReadMismatch, SM!ReadFound,
     SM!ReadMatch, SM!ReadCopy, SM!ReadFree, SM!PassSlot, SM!NextSlot, SM!NextWord,
     SM!Goto, SM!shared
<1>4. CASE CountTransaction \/ ShowReceipt \/ ReapNone \/ Destroy
  BY <1>0, <1>4 DEF CountTransaction, ShowReceipt, ReapNone, NextChild, Destroy
<1>5. CASE \E c \in Children : Reap(c)
  BY <1>0, <1>5 DEF Reap
<1>6. CASE UserCommand
  BY <1>0, <1>6 DEF UserCommand, CreateTransaction, AskReceipt, EndExecution
<1> QED
  BY <1>1, <1>2, <1>3, <1>4, <1>5, <1>6 DEF MainStep

-----------------------------------------------------------------------------
(* The end of the run: main destroys the segments under no child. *)

(* A child that does not run: not launched, or collected by a waitpid.     *)
Gone == {"unborn", "reaped"}

(* A child whose fork failed never runs; while main waits, the children of *)
(* the entries it has passed are gone, for a waitpid returns either with   *)
(* that child or when it is no more.                                       *)
Collected ==
  /\ \A c \in Children : ~forked[c] => pc[c] = "unborn"
  /\ pc[Main] = "wait" => \A j \in 0 .. idx[Main] - 1 : pc[ChildAt(j)] \in Gone
  /\ pc[Main] \in {"destroy", "done"} => \A c \in Children : pc[c] \in Gone
  /\ ~mapped => pc[Main] = "done"

(* The loops over the pids reach every child.                              *)
LEMMA ChildAtReachesAll ==
  \A c \in Children : \E j \in 0 .. NChildren - 1 : ChildAt(j) = c
<1> SUFFICES ASSUME NEW c \in Children
             PROVE  \E j \in 0 .. NChildren - 1 : ChildAt(j) = c
  OBVIOUS
<1>1. CASE c \in WalletProcs
  <2>1. c[2] \in 0 .. NChildren - 1 /\ ChildAt(c[2]) = c
    BY <1>1, SizesAssumption DEF WalletProcs, Wallets, ChildAt, NChildren
  <2> QED
    BY <2>1
<1>2. CASE c \in ServerProcs
  <2>1. /\ NWallets + c[2] \in 0 .. NChildren - 1
        /\ ChildAt(NWallets + c[2]) = c
    BY <1>2, SizesAssumption DEF ServerProcs, Servers, ChildAt, NChildren
  <2> QED
    BY <2>1
<1> QED
  BY <1>1, <1>2 DEF Children

(* While main launches or waits, its index is that of an entry.            *)
LEMMA EntryPassed ==
  ASSUME TypeOK, pc[Main] \in {"create", "wait"}
  PROVE  /\ idx[Main] \in 0 .. NChildren - 1
         /\ \A j \in 0 .. idx[Main] : ChildAt(j) \in Children
<1>1. NChildren \in Nat /\ idx[Main] \in Nat /\ idx[Main] < NChildren
  BY ProcKinds, SizesAssumption DEF TypeOK, IndexesOK, NChildren
<1>2. \A j \in 0 .. idx[Main] : j \in 0 .. NChildren - 1
  BY <1>1
<1> QED
  BY <1>1, <1>2, ChildAtIsChild

(* A child that runs has a pid, and main has not passed its entry.         *)
LEMMA ChildKeepsCollected ==
  ASSUME TypeOK, Collected, NEW p \in Children, pc[p] \notin Gone,
         \A q \in Procs \ {p} : pc'[q] = pc[q],
         idx'[Main] = idx[Main], UNCHANGED <<mapped, forked>>
  PROVE  Collected'
<1>0. p # Main /\ Main \in Procs /\ Children \subseteq Procs
  BY ProcKinds
<1>1. pc'[Main] = pc[Main]
  BY <1>0
<1>2. \A c \in Children : pc[c] \in Gone => pc'[c] = pc[c]
  BY <1>0
<1>3. \A c \in Children : ~forked'[c] => pc'[c] = "unborn"
  BY <1>2 DEF Collected, Gone
<1>4. pc'[Main] = "wait" => \A j \in 0 .. idx'[Main] - 1 : pc'[ChildAt(j)] \in Gone
  <2> SUFFICES ASSUME pc[Main] = "wait", NEW j \in 0 .. idx[Main] - 1
               PROVE  pc'[ChildAt(j)] \in Gone
    BY <1>1
  <2>1. pc[ChildAt(j)] \in Gone
    BY DEF Collected
  <2>2. ChildAt(j) \in Children
    BY EntryPassed
  <2> QED
    BY <1>2, <2>1, <2>2
<1>5. pc'[Main] \notin {"destroy", "done"}
  BY <1>1 DEF Collected
<1>6. ~mapped' => pc'[Main] = "done"
  BY <1>1 DEF Collected
<1> QED
  BY <1>3, <1>4, <1>5, <1>6 DEF Collected

(* A step of main that leaves the children alone and does not wait.        *)
LEMMA MainKeepsCollected ==
  ASSUME TypeOK, Collected, NEW l \in MainLabels \ {"wait", "destroy", "done"},
         pc[Main] # "done", pc' = [pc EXCEPT ![Main] = l],
         UNCHANGED <<mapped, forked>>
  PROVE  Collected'
<1>1. \A c \in Children : pc'[c] = pc[c]
  BY ProcKinds DEF TypeOK, LabelsOK
<1>2. pc'[Main] = l
  BY ProcKinds DEF TypeOK, LabelsOK
<1> QED
  BY <1>1, <1>2 DEF Collected

(* The turn of main that passes entry k: its child is gone by then.        *)
LEMMA WaitKeepsCollected ==
  ASSUME TypeOK, Collected, ReapNone \/ \E c \in Children : Reap(c)
  PROVE  Collected'
<1> DEFINE k == idx[Main]
           last == k + 1 = NChildren
<1>0. /\ Main \in Procs /\ Main \notin Children /\ Children \subseteq Procs
      /\ pc \in [Procs -> MainLabels \cup WalletLabels \cup ServerLabels]
      /\ pc[Main] = "wait" /\ idx \in [Procs -> Nat]
      /\ mapped /\ UNCHANGED <<mapped, forked>>
  BY ProcKinds DEF TypeOK, LabelsOK, IndexesOK, Collected, Reap, ReapNone, flags, mainVar
<1>4. k \in 0 .. NChildren - 1 /\ ChildAt(k) \in Children /\ NChildren \in Nat
  BY <1>0, EntryPassed, SizesAssumption DEF NChildren
<1>1. /\ pc'[Main] = IF last THEN "destroy" ELSE "wait"
      /\ idx'[Main] = IF last THEN 0 ELSE k + 1
  BY <1>0 DEF Reap, ReapNone, NextChild
<1>2. \A c \in Children : pc[c] \in Gone => pc'[c] \in Gone
  BY <1>0 DEF Reap, ReapNone, NextChild, Gone
<1>3. \A c \in Children : pc[c] = "unborn" => pc'[c] = "unborn"
  BY <1>0 DEF Reap, ReapNone, NextChild
<1>5. pc'[ChildAt(k)] \in Gone
  <2>1. CASE forked[ChildAt(k)]
    BY <1>0, <1>4, <2>1 DEF Reap, ReapNone, NextChild, Waitable, Unreaped, Gone
  <2>2. CASE ~forked[ChildAt(k)]
    BY <1>3, <1>4, <2>2 DEF Collected, Gone
  <2> QED
    BY <2>1, <2>2
<1>6. \A j \in 0 .. k : pc'[ChildAt(j)] \in Gone
  <2> SUFFICES ASSUME NEW j \in 0 .. k PROVE pc'[ChildAt(j)] \in Gone
    OBVIOUS
  <2>1. CASE j = k
    BY <1>5, <2>1
  <2>2. CASE j # k
    <3>1. j \in 0 .. k - 1 /\ j \in 0 .. NChildren - 1
      BY <1>4, <2>2
    <3>2. pc[ChildAt(j)] \in Gone
      BY <1>0, <3>1 DEF Collected
    <3> QED
      BY <1>2, <3>1, <3>2, ChildAtIsChild
  <2> QED
    BY <2>1, <2>2
<1>7. \A c \in Children : ~forked'[c] => pc'[c] = "unborn"
  BY <1>0, <1>3 DEF Collected
<1>8. last => \A c \in Children : pc'[c] \in Gone
  <2>1. last => k = NChildren - 1
    BY <1>4
  <2> QED
    BY <1>6, <2>1, ChildAtReachesAll
<1>9. ~last => 0 .. idx'[Main] - 1 = 0 .. k
  BY <1>1, <1>4
<1> QED
  BY <1>0, <1>1, <1>6, <1>7, <1>8, <1>9 DEF Collected

(* No step of any process breaks it.                                       *)
LEMMA StepKeepsCollected == TypeOK /\ Collected /\ [Next]_vars => Collected'
<1> SUFFICES ASSUME TypeOK, Collected, [Next]_vars PROVE Collected'
  OBVIOUS
<1> USE DEF flags, money, stats, mw, ws, sm, ledger, local, mainVar, Goto
<1>0. /\ Main \in Procs /\ Main \notin Children /\ Children \subseteq Procs
      /\ pc \in [Procs -> MainLabels \cup WalletLabels \cup ServerLabels]
  BY ProcKinds DEF TypeOK, LabelsOK
<1>1. ASSUME NEW p \in WalletProcs, WalletStep(p) PROVE Collected'
  BY <1>1, ProcKinds, WalletIsLocal, ChildKeepsCollected DEF Gone
<1>2. ASSUME NEW p \in ServerProcs, ServerStep(p) PROVE Collected'
  BY <1>2, ProcKinds, ServerIsLocal, ChildKeepsCollected DEF Gone
<1>3. CASE UNCHANGED vars
  BY <1>3 DEF vars, Collected
<1>4. CASE Launch
  <2>1. ChildAt(idx[Main]) \in Children /\ pc[Main] = "create" /\ mapped
    BY <1>4, EntryPassed DEF Launch, Collected
  <2>2. pc'[Main] \in {"create", "prompt"}
    BY <1>0, <1>4, <2>1 DEF Launch
  <2>3. \A c \in Children : ~forked'[c] => ~forked[c] /\ pc'[c] = pc[c]
    BY <1>0, <1>4, <2>1 DEF Launch, TypeOK, DataOK
  <2> QED
    BY <1>4, <2>1, <2>2, <2>3 DEF Launch, Collected
<1>5. CASE LaunchFails \/ CountTransaction \/ ShowReceipt
  <2>1. PICK l \in {"create", "prompt"} : pc' = [pc EXCEPT ![Main] = l]
    BY <1>0, <1>5 DEF LaunchFails, NextChild, CountTransaction, ShowReceipt
  <2> QED
    BY <1>5, <2>1, MainKeepsCollected
    DEF LaunchFails, CountTransaction, ShowReceipt, MainLabels
<1>6. CASE MainWrite
  <2>1. PICK l \in MainWriting \cup {"count"} : pc' = [pc EXCEPT ![Main] = l]
    BY <1>0, <1>6 DEF MainWrite, MW!Write, MW!WriteSkip, MW!WriteFound, MW!WriteMark,
       MW!WriteCopy, MW!NextSlot, MW!NextWord, MW!Goto, MainWriting, MW!WriteLabels
  <2>2. pc[Main] # "done" /\ UNCHANGED <<mapped, forked>>
    BY <1>6 DEF MainWrite, MW!Write, MW!WriteSkip, MW!WriteFound, MW!WriteMark,
       MW!WriteCopy
  <2> QED
    BY <2>1, <2>2, MainKeepsCollected DEF MainLabels, MainWriting, MW!WriteLabels
<1>7. CASE MainRead
  <2>1. PICK l \in MainReading \cup {"show"} : pc' = [pc EXCEPT ![Main] = l]
    BY <1>0, <1>7 DEF MainRead, SM!Read, SM!ReadSkip, SM!ReadMismatch, SM!ReadFound,
       SM!ReadMatch, SM!ReadCopy, SM!ReadFree, SM!PassSlot, SM!NextSlot, SM!NextWord,
       SM!Goto, MainReading, SM!ReadLabels
  <2>2. pc[Main] # "done" /\ UNCHANGED <<mapped, forked>>
    BY <1>7 DEF MainRead, SM!Read, SM!ReadSkip, SM!ReadMismatch, SM!ReadFound,
       SM!ReadMatch, SM!ReadCopy, SM!ReadFree
  <2> QED
    BY <2>1, <2>2, MainKeepsCollected DEF MainLabels, MainReading, SM!ReadLabels
<1>8. CASE ReapNone \/ \E c \in Children : Reap(c)
  BY <1>8, WaitKeepsCollected
<1>9. CASE Destroy
  BY <1>0, <1>9 DEF Destroy, Collected
<1>10. CASE UserCommand
  <2>1. CASE EndExecution
    <3>1. pc'[Main] = "wait" /\ idx'[Main] = 0 /\ \A c \in Children : pc'[c] = pc[c]
      BY <1>0, <2>1 DEF EndExecution, TypeOK, IndexesOK
    <3> QED
      BY <2>1, <3>1 DEF EndExecution, Collected
  <2>2. CASE \/ \E t \in Transfers : CreateTransaction(t[1], t[2], t[3])
             \/ \E id \in RcpIds : AskReceipt(id)
    <3>1. PICK l \in {"w_flag", "r_flag"} : pc' = [pc EXCEPT ![Main] = l]
      BY <2>2 DEF CreateTransaction, AskReceipt
    <3>2. pc[Main] # "done" /\ UNCHANGED <<mapped, forked>>
      BY <2>2 DEF CreateTransaction, AskReceipt
    <3> QED
      BY <3>1, <3>2, MainKeepsCollected
      DEF MainLabels, MainWriting, MW!WriteLabels, MainReading, SM!ReadLabels
  <2> QED
    BY <1>10, <2>1, <2>2 DEF UserCommand
<1> QED
  BY <1>1, <1>2, <1>3, <1>4, <1>5, <1>6, <1>7, <1>8, <1>9, <1>10
  DEF Next, MainStep, Done

(* main prints the final statistics and destroys the segments only when no *)
(* child is left on them, whichever forks failed and in whatever order the *)
(* children end (main.c:131-143, 200-208, 381; process.c:46-61).           *)
THEOREM SegmentsOutliveChildren == Spec => []NoChildOutlivesMemory
<1>1. Init => Collected
  BY ProcKinds DEF Init, Collected
<1>2. Collected => NoChildOutlivesMemory
  BY DEF Collected, NoChildOutlivesMemory, Gone
<1> QED
  BY <1>1, <1>2, StepKeepsCollected, SOchainTyped, PTL DEF Spec

-----------------------------------------------------------------------------
(* How much is left to do once terminate is set. *)

(* Only the end of the commands sets terminate, and main then waits.       *)
Ending == terminate = 1 => pc[Main] \in {"wait", "destroy", "done"}

(* Main never gets back to the prompt.                                     *)
LEMMA NextEnding == TypeOK /\ Ending /\ [Next]_vars => Ending'
<1> SUFFICES ASSUME TypeOK, Ending, [Next]_vars PROVE Ending'
  OBVIOUS
<1> USE DEF flags, money, stats, mw, ws, sm, ledger, local, mainVar, Goto
<1>0. /\ Main \in Procs
      /\ pc \in [Procs -> MainLabels \cup WalletLabels \cup ServerLabels]
  BY ProcKinds DEF TypeOK, LabelsOK
<1>1. ASSUME NEW p \in WalletProcs, WalletStep(p) PROVE Ending'
  BY <1>1, ProcKinds, WalletIsLocal DEF Ending
<1>2. ASSUME NEW p \in ServerProcs, ServerStep(p) PROVE Ending'
  BY <1>2, ProcKinds, ServerIsLocal DEF Ending
<1>3. CASE UNCHANGED vars
  BY <1>3 DEF vars, Ending
<1>4. CASE \/ Launch \/ LaunchFails \/ MainWrite \/ CountTransaction \/ MainRead
           \/ ShowReceipt \/ UserCommand
  <2>1. pc[Main] \notin {"wait", "destroy", "done"}
    BY <1>4 DEF Launch, LaunchFails, MainWrite, MW!Write, MW!WriteSkip, MW!WriteFound,
       MW!WriteMark, MW!WriteCopy, CountTransaction, MainRead, SM!Read, SM!ReadSkip,
       SM!ReadFound, SM!ReadMismatch, SM!ReadMatch, SM!ReadCopy, SM!ReadFree,
       ShowReceipt, UserCommand, CreateTransaction, AskReceipt, EndExecution
  <2>2. terminate' = terminate \/ EndExecution
    BY <1>4 DEF Launch, LaunchFails, MainWrite, CountTransaction, MainRead, ShowReceipt,
       UserCommand, CreateTransaction, AskReceipt
  <2> QED
    BY <1>0, <2>1, <2>2 DEF Ending, EndExecution
<1>5. CASE ReapNone \/ Destroy \/ \E c \in Children : Reap(c)
  BY <1>0, <1>5, ProcKinds DEF Ending, ReapNone, NextChild, Destroy, Reap
<1> QED
  BY <1>1, <1>2, <1>3, <1>4, <1>5 DEF Next, MainStep, Done

(* What is left at each label, as a table.                                 *)
LEMMA StepsFromLabels ==
  \A i, k :
    /\ \A l \in {"got", "destroy"} : StepsFrom(l, i, k) = 1
    /\ \A l \in {"top", "r_free", "get_set"} : StepsFrom(l, i, k) = 2
    /\ \A l \in {"r_copy", "get_copy", "w_copy"} : StepsFrom(l, i, k) = 2 + (Words + 1 - k)
    /\ StepsFrom("r_key", i, k) = 4 + 2 * (BufSize - i)
    /\ StepsFrom("r_flag", i, k) = 5 + 2 * (BufSize - i)
    /\ StepsFrom("get_out", i, k) = 6
    /\ StepsFrom("get_in", i, k) = 7
    /\ StepsFrom("put_set", i, k) = 3
    /\ StepsFrom("put_copy", i, k) = 3 + (Words + 1 - k)
    /\ StepsFrom("put_out", i, k) = 7
    /\ StepsFrom("put_in", i, k) = 8
    /\ StepsFrom("w_mark", i, k) = 6
    /\ StepsFrom("w_flag", i, k) = 6 + (BufSize - i)
    /\ StepsFrom("ledger", i, k) = 7 + BufSize
    /\ StepsFrom("sign", i, k) = 8 + BufSize
    /\ StepsFrom("store_src", i, k) = 9 + BufSize
    /\ StepsFrom("load_src", i, k) = 10 + BufSize
    /\ StepsFrom("store_dest", i, k) = 11 + BufSize
    /\ StepsFrom("load_dest", i, k) = 12 + BufSize
    /\ StepsFrom("wait", i, k) = 1 + NChildren - i
    /\ \A l \in {"unborn", "exited", "reaped", "done", "create", "prompt", "count", "show"} :
         StepsFrom(l, i, k) = 0
  BY DEF StepsFrom

(* They are a number, for the indexes stay inside their arrays.            *)
StepsTyped == \A p \in Procs : StepsLeft[p] \in Nat

LEMMA StepsLeftNat == TypeOK => StepsTyped
<1> SUFFICES ASSUME TypeOK, NEW p \in Procs PROVE StepsFrom(pc[p], idx[p], wrd[p]) \in Nat
  BY DEF StepsTyped, StepsLeft
<1> USE DEF MainLabels, WalletLabels, ServerLabels, ChildLabels, MainWriting, MainReading,
            Transferring, MW!ReadLabels, MW!WriteLabels, SM!ReadLabels, SM!WriteLabels,
            WS!PutLabels, WS!GetLabels
<1>1. /\ BufSize \in Nat \ {0} /\ NChildren \in Nat
      /\ idx[p] \in Nat /\ wrd[p] \in 1 .. Words /\ Words = 3
      /\ LabelsOK /\ IndexesOK
  BY SizesAssumption DEF TypeOK, IndexesOK, NChildren, Words
<1>2. CASE p = Main
  <2>1. pc[p] \in MainLabels /\ (pc[p] \in {"create", "wait"} => idx[p] < NChildren)
        /\ (pc[p] \in MainWriting \cup MainReading => idx[p] < BufSize)
    BY <1>1, <1>2 DEF LabelsOK, IndexesOK, Slots
  <2> QED
    BY <1>1, <2>1, StepsFromLabels
<1>3. CASE p \in Children
  <2>1. pc[p] \in WalletLabels \cup ServerLabels /\ idx[p] < BufSize
    BY <1>1, <1>3 DEF Children, LabelsOK, IndexesOK, Slots
  <2> QED
    BY <1>1, <2>1, StepsFromLabels
<1> QED
  BY <1>2, <1>3 DEF Procs

(* The work is what they all have left.                                    *)
LEMMA WorkIsSum == Work = SumOf(StepsLeft, Procs)
  BY DEF Work, SumOf

(* The processes can be counted.                                           *)
LEMMA ProcsAreFinite == IsFiniteSet(Procs)
<1>1. IsFiniteSet(Wallets) /\ IsFiniteSet(Servers)
  BY SizesAssumption, FS_Interval DEF Wallets, Servers
<1>2. IsFiniteSet(WalletProcs) /\ IsFiniteSet(ServerProcs)
  BY <1>1, FS_Singleton, FS_Product DEF WalletProcs, ServerProcs
<1> QED
  BY <1>2, FS_Singleton, FS_Union DEF Procs, Children

(* A process that moves alone takes one step less to its end, if it does   *)
(* so from label, turn and move to the next ones.                          *)
LEMMA OneMoves ==
  ASSUME TypeOK, TypeOK', NEW p \in Procs,
         \A q \in Procs \ {p} : StepsLeft'[q] = StepsLeft[q],
         StepsFrom(pc'[p], idx'[p], wrd'[p]) < StepsFrom(pc[p], idx[p], wrd[p])
  PROVE  Work' < Work
<1>1. IsFiniteSet(Procs)
  BY ProcsAreFinite
<1>2. PICK f : f = StepsLeft
  OBVIOUS
<1>3. PICK g : g = StepsLeft'
  OBVIOUS
<1>4. \A q \in Procs : f[q] \in Int /\ g[q] \in Int
  <2>1. TypeOK' => StepsTyped'
    BY StepsLeftNat, PTL
  <2> QED
    BY <1>2, <1>3, <2>1, StepsLeftNat DEF StepsTyped
<1>5. g[p] < f[p]
  BY <1>2, <1>3 DEF StepsLeft
<1>6. \A q \in Procs : g[q] <= f[q]
  BY <1>2, <1>3, <1>4, <1>5
<1>7. SumOf(g, Procs) < SumOf(f, Procs)
  BY <1>1, <1>4, <1>5, <1>6, SumDescends
<1>8. Work = SumOf(f, Procs) /\ Work' = SumOf(g, Procs)
  <2>1. (Work = SumOf(StepsLeft, Procs))'
    BY WorkIsSum, PTL
  <2> QED
    BY <1>2, <1>3, <2>1, WorkIsSum
<1> QED
  BY <1>7, <1>8

(* What the next label, turn and move of a process are taken from.         *)
LEMMA RunsInBounds ==
  ASSUME TypeOK, NEW p \in Children
  PROVE  /\ p \in Procs
         /\ pc \in [Procs -> MainLabels \cup WalletLabels \cup ServerLabels]
         /\ idx \in [Procs -> Nat] /\ wrd \in [Procs -> 1 .. Words]
         /\ BufSize \in Nat \ {0} /\ idx[p] \in 0 .. BufSize - 1
         /\ wrd[p] \in 1 .. 3 /\ Words = 3
  BY SizesAssumption, ProcKinds DEF TypeOK, LabelsOK, IndexesOK, Slots, Words

(* A wallet ends its loop over the slots of main's buffer, or its copy of  *)
(* one, or its write into the ring, then sees terminate.                   *)
LEMMA WalletDescends ==
  ASSUME TypeOK, terminate = 1, NEW p \in WalletProcs, WalletStep(p)
  PROVE  StepsFrom(pc'[p], idx'[p], wrd'[p]) < StepsFrom(pc[p], idx[p], wrd[p])
<1>0. /\ p \in Procs
      /\ pc \in [Procs -> MainLabels \cup WalletLabels \cup ServerLabels]
      /\ idx \in [Procs -> Nat] /\ wrd \in [Procs -> 1 .. Words]
      /\ BufSize \in Nat \ {0} /\ idx[p] \in 0 .. BufSize - 1
      /\ wrd[p] \in 1 .. 3 /\ Words = 3
  BY RunsInBounds, ProcKinds
<1>1. CASE WalletReceive(p) \/ WalletExit(p)
  BY <1>0, <1>1, StepsFromLabels DEF WalletReceive, WalletExit, Goto
<1>2. ~WalletIdle(p) /\ ~WalletProcess(p)
  BY DEF WalletIdle, WalletProcess
<1>3. CASE MW!ReadSkip(p) \/ MW!ReadMismatch(p)
  <2>1. /\ pc[p] \in {"r_flag", "r_key"} /\ wrd'[p] = wrd[p]
        /\ \/ pc'[p] = "got"
           \/ pc'[p] = "r_flag" /\ idx'[p] = idx[p] + 1
    BY <1>0, <1>3 DEF MW!ReadSkip, MW!ReadMismatch, MW!PassSlot, MW!NextSlot, MW!Goto
  <2> QED
    BY <1>0, <2>1, StepsFromLabels
<1>4. CASE MW!ReadFound(p) \/ MW!ReadMatch(p) \/ MW!ReadFree(p)
  BY <1>0, <1>4, StepsFromLabels DEF MW!ReadFound, MW!ReadMatch, MW!ReadFree, MW!Goto
<1>5. CASE MW!ReadCopy(p) \/ WS!PutCopy(p)
  <2>1. /\ \/ pc[p] = "r_copy" /\ pc'[p] = IF wrd[p] = Words THEN "r_free" ELSE "r_copy"
           \/ pc[p] = "put_copy" /\ pc'[p] = IF wrd[p] = Words THEN "put_set" ELSE "put_copy"
        /\ wrd'[p] = IF wrd[p] = Words THEN 1 ELSE wrd[p] + 1
    BY <1>0, <1>5, SameWords DEF MW!ReadCopy, MW!NextWord, WS!PutCopy, WS!NextWord
  <2> QED
    BY <1>0, <2>1, StepsFromLabels
<1>6. CASE WS!PutLoadIn(p) \/ WS!PutFull(p) \/ WS!PutRoom(p) \/ WS!PutSet(p)
  BY <1>0, <1>6, StepsFromLabels
  DEF WS!PutLoadIn, WS!PutFull, WS!PutRoom, WS!PutSet, WS!Goto
<1> QED
  BY <1>1, <1>2, <1>3, <1>4, <1>5, <1>6
  DEF WalletStep, WalletRead, MW!Read, WalletSend, WS!Put

(* A server ends its read of the ring, or its transfer, which goes on with *)
(* the loop over the slots of the receipts.                                *)
LEMMA ServerDescends ==
  ASSUME TypeOK, terminate = 1, NEW p \in ServerProcs, ServerStep(p)
  PROVE  StepsFrom(pc'[p], idx'[p], wrd'[p]) < StepsFrom(pc[p], idx[p], wrd[p])
<1>0. /\ p \in Procs
      /\ pc \in [Procs -> MainLabels \cup WalletLabels \cup ServerLabels]
      /\ idx \in [Procs -> Nat] /\ wrd \in [Procs -> 1 .. Words]
      /\ BufSize \in Nat \ {0} /\ idx[p] \in 0 .. BufSize - 1
      /\ wrd[p] \in 1 .. 3 /\ Words = 3
  BY RunsInBounds, ProcKinds
<1>1. CASE ServerReceive(p) \/ ServerExit(p)
  BY <1>0, <1>1, StepsFromLabels DEF ServerReceive, ServerExit, Goto
<1>2. ~ServerIdle(p) /\ ~ServerReject(p) /\ ~ServerAccept(p)
  BY DEF ServerIdle, ServerReject, ServerAccept
<1>3. CASE LoadDest(p) \/ StoreDest(p) \/ LoadSrc(p) \/ StoreSrc(p) \/ ServerSign(p)
  BY <1>0, <1>3, StepsFromLabels
  DEF LoadDest, StoreDest, LoadSrc, StoreSrc, ServerSign, Goto
<1>4. CASE WriteLedger(p) \/ LedgerFails(p)
  BY <1>0, <1>4, StepsFromLabels DEF WriteLedger, LedgerFails, Goto
<1>5. CASE WS!GetLoadIn(p) \/ WS!GetEmpty(p) \/ WS!GetSome(p) \/ WS!GetSet(p)
  BY <1>0, <1>5, StepsFromLabels
  DEF WS!GetLoadIn, WS!GetEmpty, WS!GetSome, WS!GetSet, WS!Goto
<1>6. CASE WS!GetCopy(p) \/ SM!WriteCopy(p)
  <2>1. /\ \/ pc[p] = "get_copy" /\ pc'[p] = IF wrd[p] = Words THEN "get_set" ELSE "get_copy"
           \/ pc[p] = "w_copy" /\ pc'[p] = IF wrd[p] = Words THEN "top" ELSE "w_copy"
        /\ wrd'[p] = IF wrd[p] = Words THEN 1 ELSE wrd[p] + 1
    BY <1>0, <1>6, SameWords DEF WS!GetCopy, WS!NextWord, SM!WriteCopy, SM!NextWord
  <2> QED
    BY <1>0, <2>1, StepsFromLabels
<1>7. CASE SM!WriteSkip(p) \/ SM!WriteFound(p) \/ SM!WriteMark(p)
  <2>1. /\ wrd'[p] = wrd[p]
        /\ \/ pc[p] = "w_flag" /\ pc'[p] \in {"top", "w_mark"}
           \/ pc[p] = "w_flag" /\ pc'[p] = "w_flag" /\ idx'[p] = idx[p] + 1
           \/ pc[p] = "w_mark" /\ pc'[p] = "w_copy"
    BY <1>0, <1>7
    DEF SM!WriteSkip, SM!WriteFound, SM!WriteMark, SM!NextSlot, SM!Goto
  <2> QED
    BY <1>0, <2>1, StepsFromLabels
<1> QED
  BY <1>1, <1>2, <1>3, <1>4, <1>5, <1>6, <1>7
  DEF ServerStep, ServerRead, WS!Get, ServerSend, SM!Write

(* Main waits once for each entry; the child it collects had ended.        *)
LEMMA MainDescends ==
  ASSUME TypeOK, TypeOK', terminate = 1, Ending, MainStep \/ UserCommand
  PROVE  Work' < Work
<1>0. /\ Main \in Procs /\ Main \notin Children /\ Children \subseteq Procs
      /\ pc \in [Procs -> MainLabels \cup WalletLabels \cup ServerLabels]
      /\ idx \in [Procs -> Nat] /\ wrd \in [Procs -> 1 .. Words] /\ NChildren \in Nat
      /\ pc[Main] \in {"wait", "destroy", "done"}
      /\ pc[Main] = "wait" => idx[Main] < NChildren
  BY ProcKinds, SizesAssumption DEF TypeOK, LabelsOK, IndexesOK, Ending, NChildren
<1>1. ReapNone \/ Destroy \/ \E c \in Children : Reap(c)
  BY <1>0 DEF MainStep, UserCommand, Launch, LaunchFails, MainWrite, MW!Write,
     MW!WriteSkip, MW!WriteFound, MW!WriteMark, MW!WriteCopy, CountTransaction,
     MainRead, SM!Read, SM!ReadSkip, SM!ReadFound, SM!ReadMismatch, SM!ReadMatch,
     SM!ReadCopy, SM!ReadFree, ShowReceipt, CreateTransaction, AskReceipt, EndExecution
<1>2. /\ wrd' = wrd
      /\ \/ pc[Main] = "wait" /\ pc'[Main] = "destroy"
         \/ pc[Main] = "wait" /\ pc'[Main] = "wait" /\ idx'[Main] = idx[Main] + 1
         \/ pc[Main] = "destroy" /\ pc'[Main] = "done"
  BY <1>0, <1>1 DEF ReapNone, NextChild, Destroy, Reap, Goto
<1>3. \A q \in Procs \ {Main} :
        /\ idx'[q] = idx[q]
        /\ \/ pc'[q] = pc[q]
           \/ pc[q] = "exited" /\ pc'[q] = "reaped"
  BY <1>0, <1>1 DEF ReapNone, NextChild, Destroy, Reap, Goto
<1>4. \A q \in Procs \ {Main} : StepsLeft'[q] = StepsLeft[q]
  BY <1>2, <1>3, StepsFromLabels DEF StepsLeft
<1>5. StepsFrom(pc'[Main], idx'[Main], wrd'[Main])
        < StepsFrom(pc[Main], idx[Main], wrd[Main])
  BY <1>0, <1>2, StepsFromLabels
<1> QED
  BY <1>0, <1>4, <1>5, OneMoves

(* Whoever takes the next step.                                            *)
LEMMA NextDescends ==
  ASSUME TypeOK, TypeOK', Ending, [Next]_vars, terminate = 1, vars' # vars
  PROVE  Work' < Work
<1>1. ASSUME NEW p \in WalletProcs, WalletStep(p) PROVE Work' < Work
  <2>1. p \in Procs /\ \A q \in Procs \ {p} : StepsLeft'[q] = StepsLeft[q]
    BY <1>1, WalletIsLocal, ProcKinds DEF StepsLeft
  <2> QED
    BY <1>1, <2>1, WalletDescends, OneMoves
<1>2. ASSUME NEW p \in ServerProcs, ServerStep(p) PROVE Work' < Work
  <2>1. p \in Procs /\ \A q \in Procs \ {p} : StepsLeft'[q] = StepsLeft[q]
    BY <1>2, ServerIsLocal, ProcKinds DEF StepsLeft
  <2> QED
    BY <1>2, <2>1, ServerDescends, OneMoves
<1> QED
  BY <1>1, <1>2, MainDescends DEF Next, Done

(* After end was typed every step, of any process, leaves less to do, and  *)
(* that is a number: no more steps follow than it tells, whatever the      *)
(* children were doing and however they disturb one another.  With the     *)
(* absence of deadlock this is why the run ends (main.c:198-208,           *)
(* wallet.c:11-29, server.c:16-37, memory.c:76-145).                       *)
THEOREM EndDescends == Spec => [](Work \in Nat) /\ EndApproaches
<1>1. Init => Ending
  BY DEF Init, Ending
<1>2. TypeOK => Work \in Nat
  <2> SUFFICES ASSUME TypeOK PROVE SumOf(StepsLeft, Procs) \in Nat
    BY WorkIsSum
  <2>1. \A p \in Procs : StepsLeft[p] \in Nat
    BY StepsLeftNat DEF StepsTyped
  <2> QED
    BY <2>1, ProcsAreFinite, SumNat
<1>3. TypeOK /\ TypeOK' /\ Ending /\ [Next]_vars
        => [terminate = 1 /\ terminate' = 1 => Work' < Work]_vars
  BY NextDescends
<1> QED
  BY <1>1, <1>2, <1>3, NextEnding, SOchainTyped, PTL DEF Spec, EndApproaches
==============================================================================
