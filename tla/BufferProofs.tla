---------------------------- MODULE BufferProofs ----------------------------
(***************************************************************************)
(* What the processes do to one another through the buffers, for every     *)
(* number of them and every size: no child acts on a transaction that      *)
(* nothing was read into, and no wallet signs more than main created.      *)
(* With one wallet and one server, for every size: the ring is a queue,    *)
(* and no transaction is processed twice.                                  *)
(***************************************************************************)
EXTENDS SOchainProofs, FiniteSets, FiniteSetTheorems

(* Where a structure assignment may be in progress. *)
Copying == {"r_copy", "get_copy", "put_copy", "w_copy"}

(* Where a child holds a transaction that it has read. *)
Holding == {"r_free", "get_set"} \cup WS!PutLabels \cup Transferring
           \cup SM!WriteLabels

(* The id is in the first word.  A child that is past the read has one,    *)
(* unless the read was skipped, and then terminate is set and stays set.   *)
ChildFresh(p) ==
  /\ pc[p] \in Holding => tx[p].id # Indeterminate
  /\ pc[p] \in {"r_copy", "get_copy"} /\ wrd[p] > 1 => tx[p].id # Indeterminate
  /\ pc[p] = "got" /\ terminate # 1 => tx[p].id # Indeterminate
  /\ pc[p] \notin Copying => wrd[p] = 1

(* No slot of a buffer holds an unassigned transaction. *)
SlotsFresh ==
  \A i \in Slots : /\ mw_buffer[i].id # Indeterminate
                   /\ ws_buffer[i].id # Indeterminate
                   /\ sm_buffer[i].id # Indeterminate

(* Neither does main while it writes one; and the children that main has   *)
(* still to launch have not run.                                           *)
MainFresh ==
  /\ pc[Main] \in MainWriting => tx[Main].id # Indeterminate
  /\ pc[Main] = "create"
       => \A j \in idx[Main] .. NChildren - 1 : pc[ChildAt(j)] = "unborn"

Fresh == SlotsFresh /\ MainFresh /\ \A p \in Children : ChildFresh(p)

-----------------------------------------------------------------------------
(* The id travels with the first word.                                     *)
LEMMA IdOfCopy ==
  ASSUME NEW to, NEW from, NEW k \in 1 .. Words
  PROVE  CopyWord(to, from, k).id = IF k = 1 THEN from.id ELSE to.id
  BY DEF CopyWord

(* A copy into a slot or a stack that begins from a known id keeps it so.  *)
LEMMA FreshCopy ==
  ASSUME NEW to, NEW from, NEW k \in 1 .. Words, from.id # Indeterminate,
         k > 1 => to.id # Indeterminate
  PROVE  CopyWord(to, from, k).id # Indeterminate
<1>1. k = 1 \/ k > 1
  BY DEF Words
<1> QED
  BY <1>1, IdOfCopy

(* The entries of the arrays of pids are distinct.                         *)
LEMMA ChildAtInjective ==
  ASSUME NEW j \in 0 .. NChildren - 1, NEW k \in 0 .. NChildren - 1, j # k
  PROVE  ChildAt(j) # ChildAt(k)
  BY SizesAssumption DEF ChildAt, NChildren

(* A step of child p that keeps the slots and itself fresh keeps all so.   *)
LEMMA ChildKeepsFresh ==
  ASSUME TypeOK, Fresh, NEW p \in Children, pc[p] # "unborn",
         \A q \in Procs \ {p} : pc'[q] = pc[q] /\ tx'[q] = tx[q] /\ wrd'[q] = wrd[q],
         idx'[Main] = idx[Main], terminate' = terminate,
         SlotsFresh', ChildFresh(p)'
  PROVE  Fresh'
<1>1. Main \in Procs \ {p} /\ Children \subseteq Procs
  BY ProcKinds
<1>2. \A q \in Children : ChildFresh(q)'
  <2> SUFFICES ASSUME NEW q \in Children PROVE ChildFresh(q)'
    OBVIOUS
  <2>1. CASE q = p
    BY <2>1
  <2>2. CASE q # p
    BY <1>1, <2>2 DEF Fresh, ChildFresh
  <2> QED
    BY <2>1, <2>2
<1>3. pc'[Main] = "create"
        => \A j \in idx'[Main] .. NChildren - 1 : pc'[ChildAt(j)] = "unborn"
  <2> SUFFICES ASSUME pc[Main] = "create", NEW j \in idx[Main] .. NChildren - 1
               PROVE  pc'[ChildAt(j)] = "unborn"
    BY <1>1
  <2>1. pc[ChildAt(j)] = "unborn"
    BY DEF Fresh, MainFresh
  <2>2. j \in 0 .. NChildren - 1
    BY <1>1, SizesAssumption DEF TypeOK, IndexesOK, NChildren
  <2>3. ChildAt(j) \in Procs \ {p}
    BY <1>1, <2>1, <2>2, ChildAtIsChild
  <2> QED
    BY <2>1, <2>3
<1>4. pc'[Main] \in MainWriting => tx'[Main].id # Indeterminate
  BY <1>1 DEF Fresh, MainFresh
<1> QED
  BY <1>2, <1>3, <1>4 DEF Fresh, MainFresh

(* A wallet reads a slot, signs, and writes what it holds into the ring.   *)
LEMMA WalletKeepsFresh ==
  ASSUME TypeOK, Fresh, NEW p \in WalletProcs, WalletStep(p)
  PROVE  Fresh'
<1> USE DEF flags, money, stats, mw, ws, sm, ledger, local, mainVar, Goto
<1>0. /\ p \in Procs /\ p \in Children /\ idx[p] \in Slots /\ wrd[p] \in 1 .. Words
      /\ tx[p] \in Tx
      /\ pc \in [Procs -> MainLabels \cup WalletLabels \cup ServerLabels]
      /\ tx \in [Procs -> Tx] /\ wrd \in [Procs -> 1 .. Words]
      /\ SlotsFresh /\ ChildFresh(p)
  BY ProcKinds DEF TypeOK, DataOK, LabelsOK, IndexesOK, Fresh
<1>1. SUFFICES SlotsFresh' /\ ChildFresh(p)'
  BY <1>0, WalletIsLocal, ChildKeepsFresh
<1> USE DEF ChildFresh, Copying, Holding, WS!PutLabels, Transferring, SM!WriteLabels
<1>2. CASE WalletReceive(p) \/ WalletExit(p) \/ WalletIdle(p) \/ WalletProcess(p)
  <2>1. SlotsFresh'
    BY <1>0, <1>2
    DEF WalletReceive, WalletExit, WalletIdle, WalletProcess, SlotsFresh
  <2>2. CASE WalletReceive(p)
    BY <1>0, <2>1, <2>2 DEF WalletReceive
  <2>3. CASE WalletExit(p) \/ WalletIdle(p)
    BY <1>0, <2>1, <2>3 DEF WalletExit, WalletIdle
  <2>4. CASE WalletProcess(p)
    <3>1. tx'[p].id = tx[p].id
      BY <1>0, <2>4 DEF WalletProcess, Tx
    <3> QED
      BY <1>0, <2>1, <2>4, <3>1 DEF WalletProcess
  <2> QED
    BY <1>2, <2>1, <2>2, <2>3, <2>4
<1>3. CASE WalletRead(p)
  <2> USE DEF MW!shared, MW!Goto
  <2>1. SlotsFresh'
    BY <1>0, <1>3 DEF WalletRead, MW!Read, MW!ReadSkip, MW!ReadMismatch, MW!ReadFound,
       MW!ReadMatch, MW!ReadCopy, MW!ReadFree, MW!PassSlot, SlotsFresh
  <2>2. CASE MW!ReadSkip(p) \/ MW!ReadMismatch(p)
    <3>1. MW!PassSlot(p) /\ wrd[p] = 1
      BY <1>0, <2>2 DEF MW!ReadSkip, MW!ReadMismatch
    <3>2. CASE MW!LastSlot(p)
      <4>1. tx'[p] = [tx[p] EXCEPT !.id = NoTx]
        BY <1>0, <3>1, <3>2, SameWords DEF MW!PassSlot
      <4>2. tx'[p].id # Indeterminate
        BY <1>0, <4>1 DEF Tx, NoTx, Indeterminate
      <4>3. pc'[p] = "got" /\ wrd'[p] = 1
        BY <1>0, <3>1, <3>2 DEF MW!PassSlot, MW!NextSlot
      <4> QED
        BY <2>1, <4>2, <4>3
    <3>3. CASE ~MW!LastSlot(p)
      BY <1>0, <2>1, <3>1, <3>3 DEF MW!PassSlot, MW!NextSlot
    <3> QED
      BY <3>2, <3>3
  <2>3. CASE MW!ReadFound(p) \/ MW!ReadMatch(p)
    BY <1>0, <2>1, <2>3 DEF MW!ReadFound, MW!ReadMatch
  <2>4. CASE MW!ReadCopy(p)
    <3>1. tx'[p] = CopyWord(tx[p], mw_buffer[idx[p]], wrd[p])
      BY <1>0, <2>4, SameWords DEF MW!ReadCopy
    <3>2. mw_buffer[idx[p]].id # Indeterminate
          /\ (wrd[p] > 1 => tx[p].id # Indeterminate)
      BY <1>0, <2>4 DEF MW!ReadCopy, SlotsFresh
    <3>3. tx'[p].id # Indeterminate
      BY <1>0, <3>1, <3>2, FreshCopy
    <3>4. pc'[p] \in {"r_copy", "r_free"} /\ (pc'[p] = "r_free" => wrd'[p] = 1)
      BY <1>0, <2>4, SameWords DEF MW!ReadCopy, MW!NextWord
    <3> QED
      BY <2>1, <3>3, <3>4
  <2>5. CASE MW!ReadFree(p)
    BY <1>0, <2>1, <2>5 DEF MW!ReadFree
  <2> QED
    BY <1>3, <2>1, <2>2, <2>3, <2>4, <2>5 DEF WalletRead, MW!Read
<1>4. CASE WalletSend(p)
  <2> USE DEF WS!shared, WS!Goto
  <2>1. CASE WS!PutLoadIn(p) \/ WS!PutFull(p) \/ WS!PutRoom(p) \/ WS!PutSet(p)
    <3>1. SlotsFresh'
      BY <1>0, <1>4, <2>1 DEF WalletSend, WS!PutLoadIn, WS!PutFull, WS!PutRoom,
         WS!PutSet, SlotsFresh
    <3>2. ChildFresh(p)'
      BY <1>0, <2>1 DEF WS!PutLoadIn, WS!PutFull, WS!PutRoom, WS!PutSet
    <3> QED
      BY <3>1, <3>2
  <2>2. CASE WS!PutCopy(p)
    <3>1. tx[p].id # Indeterminate /\ pc[p] = "put_copy"
      BY <1>0, <2>2 DEF WS!PutCopy
    <3>2. CopyWord(ws_buffer[idx[p]], tx[p], wrd[p]).id # Indeterminate
      BY <1>0, <3>1, FreshCopy DEF SlotsFresh
    <3>3. \A i \in Slots : ws_buffer'[i].id # Indeterminate
      BY <1>0, <2>2, <3>2, SameWords DEF WS!PutCopy, SlotsFresh, TypeOK, DataOK
    <3>4. SlotsFresh'
      BY <1>0, <1>4, <3>3 DEF WalletSend, SlotsFresh
    <3>5. /\ pc'[p] \in {"put_copy", "put_set"} /\ tx'[p] = tx[p]
          /\ pc'[p] = "put_set" => wrd'[p] = 1
      BY <1>0, <2>2, SameWords DEF WS!PutCopy, WS!NextWord
    <3> QED
      BY <3>1, <3>4, <3>5
  <2> QED
    BY <1>4, <2>1, <2>2 DEF WalletSend, WS!Put
<1> QED
  BY <1>2, <1>3, <1>4 DEF WalletStep

(* A server reads the ring, processes, and writes what it holds for main.  *)
LEMMA ServerKeepsFresh ==
  ASSUME TypeOK, Fresh, NEW p \in ServerProcs, ServerStep(p)
  PROVE  Fresh'
<1> USE DEF flags, money, stats, mw, ws, sm, ledger, local, mainVar, Goto
<1>0. /\ p \in Procs /\ p \in Children /\ idx[p] \in Slots /\ wrd[p] \in 1 .. Words
      /\ tx[p] \in Tx
      /\ pc \in [Procs -> MainLabels \cup WalletLabels \cup ServerLabels]
      /\ tx \in [Procs -> Tx] /\ wrd \in [Procs -> 1 .. Words]
      /\ SlotsFresh /\ ChildFresh(p)
  BY ProcKinds DEF TypeOK, DataOK, LabelsOK, IndexesOK, Fresh
<1>1. SUFFICES SlotsFresh' /\ ChildFresh(p)'
  BY <1>0, ServerIsLocal, ChildKeepsFresh
<1> USE DEF ChildFresh, Copying, Holding, WS!PutLabels, Transferring, SM!WriteLabels
<1>2. CASE \/ ServerReceive(p) \/ ServerExit(p) \/ ServerIdle(p) \/ ServerReject(p)
           \/ ServerAccept(p)
  <2>1. SlotsFresh'
    BY <1>0, <1>2 DEF ServerReceive, ServerExit, ServerIdle, ServerReject,
       ServerAccept, SlotsFresh
  <2>2. CASE ServerReceive(p)
    BY <1>0, <2>1, <2>2 DEF ServerReceive
  <2>3. CASE ServerExit(p) \/ ServerIdle(p)
    BY <1>0, <2>1, <2>3 DEF ServerExit, ServerIdle
  <2>4. CASE ServerReject(p) \/ ServerAccept(p)
    BY <1>0, <2>1, <2>4 DEF ServerReject, ServerAccept
  <2> QED
    BY <1>2, <2>2, <2>3, <2>4
<1>3. CASE ServerRead(p)
  <2> USE DEF WS!shared, WS!Goto
  <2>1. SlotsFresh'
    BY <1>0, <1>3 DEF ServerRead, WS!Get, WS!GetLoadIn, WS!GetEmpty, WS!GetSome,
       WS!GetCopy, WS!GetSet, SlotsFresh
  <2>2. CASE WS!GetEmpty(p)
    <3>1. tx'[p] = [tx[p] EXCEPT !.id = NoTx]
      BY <1>0, <2>2, SameWords DEF WS!GetEmpty
    <3>2. tx'[p].id # Indeterminate
      BY <1>0, <3>1 DEF Tx, NoTx, Indeterminate
    <3> QED
      BY <1>0, <2>1, <2>2, <3>2 DEF WS!GetEmpty
  <2>3. CASE WS!GetLoadIn(p) \/ WS!GetSome(p)
    BY <1>0, <2>1, <2>3 DEF WS!GetLoadIn, WS!GetSome
  <2>4. CASE WS!GetCopy(p)
    <3>1. tx'[p] = CopyWord(tx[p], ws_buffer[idx[p]], wrd[p])
      BY <1>0, <2>4, SameWords DEF WS!GetCopy
    <3>2. ws_buffer[idx[p]].id # Indeterminate
          /\ (wrd[p] > 1 => tx[p].id # Indeterminate)
      BY <1>0, <2>4 DEF WS!GetCopy, SlotsFresh
    <3>3. tx'[p].id # Indeterminate
      BY <1>0, <3>1, <3>2, FreshCopy
    <3>4. pc'[p] \in {"get_copy", "get_set"} /\ (pc'[p] = "get_set" => wrd'[p] = 1)
      BY <1>0, <2>4, SameWords DEF WS!GetCopy, WS!NextWord
    <3> QED
      BY <2>1, <3>3, <3>4
  <2>5. CASE WS!GetSet(p)
    BY <1>0, <2>1, <2>5 DEF WS!GetSet
  <2> QED
    BY <1>3, <2>2, <2>3, <2>4, <2>5 DEF ServerRead, WS!Get
<1>4. CASE \/ LoadDest(p) \/ StoreDest(p) \/ LoadSrc(p) \/ StoreSrc(p)
           \/ WriteLedger(p) \/ LedgerFails(p)
  <2>1. SlotsFresh'
    BY <1>0, <1>4 DEF LoadDest, StoreDest, LoadSrc, StoreSrc, WriteLedger,
       LedgerFails, SlotsFresh
  <2> QED
    BY <1>0, <1>4, <2>1 DEF LoadDest, StoreDest, LoadSrc, StoreSrc, WriteLedger,
       LedgerFails
<1>5. CASE ServerSign(p)
  <2>1. SlotsFresh'
    BY <1>0, <1>5 DEF ServerSign, SlotsFresh
  <2>2. tx'[p].id = tx[p].id
    BY <1>0, <1>5 DEF ServerSign, Tx
  <2> QED
    BY <1>0, <1>5, <2>1, <2>2 DEF ServerSign
<1>6. CASE ServerSend(p)
  <2> USE DEF SM!shared, SM!Goto
  <2>1. CASE SM!WriteSkip(p) \/ SM!WriteFound(p) \/ SM!WriteMark(p)
    <3>1. SlotsFresh'
      BY <1>0, <1>6, <2>1
      DEF ServerSend, SM!WriteSkip, SM!WriteFound, SM!WriteMark, SlotsFresh
    <3> QED
      BY <1>0, <2>1, <3>1 DEF SM!WriteSkip, SM!NextSlot, SM!WriteFound, SM!WriteMark
  <2>2. CASE SM!WriteCopy(p)
    <3>1. tx[p].id # Indeterminate /\ pc[p] = "w_copy"
      BY <1>0, <2>2 DEF SM!WriteCopy
    <3>2. CopyWord(sm_buffer[idx[p]], tx[p], wrd[p]).id # Indeterminate
      BY <1>0, <3>1, FreshCopy DEF SlotsFresh
    <3>3. \A i \in Slots : sm_buffer'[i].id # Indeterminate
      BY <1>0, <2>2, <3>2, SameWords DEF SM!WriteCopy, SlotsFresh, TypeOK, DataOK
    <3>4. SlotsFresh'
      BY <1>0, <1>6, <3>3 DEF ServerSend, SlotsFresh
    <3>5. /\ pc'[p] \in {"w_copy", "top"} /\ tx'[p] = tx[p]
          /\ pc'[p] = "top" => wrd'[p] = 1
      BY <1>0, <2>2, SameWords DEF SM!WriteCopy, SM!NextWord
    <3> QED
      BY <3>1, <3>4, <3>5
  <2> QED
    BY <1>6, <2>1, <2>2 DEF ServerSend, SM!Write
<1> QED
  BY <1>2, <1>3, <1>4, <1>5, <1>6 DEF ServerStep

(* A step of main that leaves the children and the slots alone.            *)
LEMMA MainKeepsFresh ==
  ASSUME Fresh, \A p \in Children : pc'[p] = pc[p] /\ tx'[p] = tx[p] /\ wrd'[p] = wrd[p],
         terminate' = terminate \/ terminate' = 1, SlotsFresh', MainFresh'
  PROVE  Fresh'
  BY DEF Fresh, ChildFresh

(* main writes only the transaction it has just created.                   *)
LEMMA MainStepKeepsFresh ==
  ASSUME TypeOK, Fresh, MainStep \/ UserCommand
  PROVE  Fresh'
<1> USE DEF flags, money, stats, mw, ws, sm, ledger, local, mainVar, Goto
<1>0. /\ Main \in Procs /\ \A p \in Children : p # Main /\ p \in Procs
      /\ pc \in [Procs -> MainLabels \cup WalletLabels \cup ServerLabels]
      /\ tx \in [Procs -> Tx] /\ wrd \in [Procs -> 1 .. Words] /\ idx \in [Procs -> Nat]
      /\ NChildren \in Nat \ {0}
      /\ SlotsFresh /\ MainFresh
  BY ProcKinds, SizesAssumption
  DEF TypeOK, DataOK, LabelsOK, IndexesOK, Fresh, NChildren
<1> USE DEF MainWriting, MW!WriteLabels
<1>1. CASE Launch \/ LaunchFails
  <2> DEFINE k == idx[Main]
             c == ChildAt(k)
  <2>1. /\ pc[Main] = "create" /\ k \in 0 .. NChildren - 1 /\ c \in Children
        /\ \A j \in k .. NChildren - 1 : pc[ChildAt(j)] = "unborn"
    BY <1>0, <1>1, ChildAtIsChild
    DEF Launch, LaunchFails, TypeOK, IndexesOK, MainFresh
  <2>2. SlotsFresh' /\ UNCHANGED <<tx, wrd, terminate>>
    BY <1>0, <1>1 DEF Launch, LaunchFails, SlotsFresh
  <2>3. \A p \in Children : pc'[p] = pc[p] \/ (p = c /\ pc'[p] = "top")
    BY <1>0, <1>1, <2>1 DEF Launch, LaunchFails, NextChild
  <2>4. \A p \in Children : ChildFresh(p)'
    <3> SUFFICES ASSUME NEW p \in Children PROVE ChildFresh(p)'
      OBVIOUS
    <3>1. CASE pc'[p] = pc[p]
      BY <2>2, <3>1 DEF Fresh, ChildFresh
    <3>2. CASE p = c /\ pc'[p] = "top"
      <4>1. pc[p] = "unborn"
        BY <1>0, <2>1, <3>2
      <4>2. wrd'[p] = 1
        BY <2>2, <4>1 DEF Fresh, ChildFresh, Copying
      <4> QED
        BY <3>2, <4>2 DEF ChildFresh, Holding, WS!PutLabels, Transferring, SM!WriteLabels
    <3> QED
      BY <2>3, <3>1, <3>2
  <2>5. \/ pc'[Main] = "prompt"
        \/ pc'[Main] = "create" /\ idx'[Main] = k + 1
    BY <1>0, <1>1, <2>1 DEF Launch, LaunchFails, NextChild
  <2>6. \A j \in k + 1 .. NChildren - 1 : pc'[ChildAt(j)] = "unborn"
    <3> SUFFICES ASSUME NEW j \in k + 1 .. NChildren - 1
                 PROVE  pc'[ChildAt(j)] = "unborn"
      OBVIOUS
    <3>1. j \in k .. NChildren - 1 /\ j \in 0 .. NChildren - 1 /\ j # k
      BY <1>0, <2>1
    <3>2. ChildAt(j) # c /\ ChildAt(j) \in Children
      BY <2>1, <3>1, ChildAtInjective, ChildAtIsChild
    <3> QED
      BY <2>1, <2>3, <3>1, <3>2
  <2>7. MainFresh'
    BY <2>5, <2>6 DEF MainFresh
  <2> QED
    BY <2>2, <2>4, <2>7 DEF Fresh
<1>2. CASE MainWrite
  <2> USE DEF MW!shared, MW!Goto
  <2>1. pc[Main] \in MainWriting /\ tx[Main].id # Indeterminate /\ idx[Main] \in Slots
        /\ tx' = tx
    BY <1>0, <1>2 DEF MainWrite, MW!Write, MW!WriteSkip, MW!WriteFound, MW!WriteMark,
       MW!WriteCopy, MainFresh, TypeOK, IndexesOK
  <2>2. pc'[Main] # "create"
    BY <1>0, <1>2 DEF MainWrite, MW!Write, MW!WriteSkip, MW!WriteFound, MW!WriteMark,
       MW!WriteCopy, MW!NextSlot, MW!NextWord
  <2>3. \A p \in Children : pc'[p] = pc[p] /\ tx'[p] = tx[p] /\ wrd'[p] = wrd[p]
    BY <1>0, <1>2, <2>1 DEF MainWrite, MW!Write, MW!WriteSkip, MW!WriteFound,
       MW!WriteMark, MW!WriteCopy, MW!NextSlot, MW!NextWord
  <2>4. SlotsFresh'
    <3>1. CASE MW!WriteCopy(Main)
      <4>1. CopyWord(mw_buffer[idx[Main]], tx[Main], wrd[Main]).id # Indeterminate
        BY <1>0, <2>1, FreshCopy DEF SlotsFresh
      <4>2. \A i \in Slots : mw_buffer'[i].id # Indeterminate
        BY <1>0, <3>1, <4>1, SameWords DEF MW!WriteCopy, SlotsFresh, TypeOK, DataOK
      <4> QED
        BY <1>0, <1>2, <4>2 DEF MainWrite, SlotsFresh
    <3>2. CASE ~MW!WriteCopy(Main)
      BY <1>0, <1>2, <3>2 DEF MainWrite, MW!Write, MW!WriteSkip, MW!WriteFound,
         MW!WriteMark, SlotsFresh
    <3> QED
      BY <3>1, <3>2
  <2>5. MainFresh'
    BY <2>1, <2>2 DEF MainFresh
  <2> QED
    BY <1>2, <2>3, <2>4, <2>5, MainKeepsFresh DEF MainWrite
<1>3. CASE MainRead
  <2> USE DEF SM!shared, SM!Goto
  <2>1. pc'[Main] \notin MainWriting \cup {"create"}
    BY <1>0, <1>3 DEF MainRead, SM!Read, SM!ReadSkip, SM!ReadMismatch, SM!ReadFound,
       SM!ReadMatch, SM!ReadCopy, SM!ReadFree, SM!PassSlot, SM!NextSlot, SM!NextWord
  <2>2. \A p \in Children : pc'[p] = pc[p] /\ tx'[p] = tx[p] /\ wrd'[p] = wrd[p]
    BY <1>0, <1>3 DEF MainRead, SM!Read, SM!ReadSkip, SM!ReadMismatch, SM!ReadFound,
       SM!ReadMatch, SM!ReadCopy, SM!ReadFree, SM!PassSlot, SM!NextSlot, SM!NextWord
  <2>3. SlotsFresh'
    BY <1>0, <1>3 DEF MainRead, SM!Read, SM!ReadSkip, SM!ReadMismatch, SM!ReadFound,
       SM!ReadMatch, SM!ReadCopy, SM!ReadFree, SM!PassSlot, SlotsFresh
  <2>4. MainFresh'
    BY <2>1 DEF MainFresh
  <2> QED
    BY <1>3, <2>2, <2>3, <2>4, MainKeepsFresh DEF MainRead
<1>4. CASE CountTransaction \/ ShowReceipt \/ ReapNone \/ Destroy
  <2>1. pc'[Main] \notin MainWriting \cup {"create"}
    BY <1>0, <1>4 DEF CountTransaction, ShowReceipt, ReapNone, NextChild, Destroy
  <2>2. \A p \in Children : pc'[p] = pc[p] /\ tx'[p] = tx[p] /\ wrd'[p] = wrd[p]
    BY <1>0, <1>4 DEF CountTransaction, ShowReceipt, ReapNone, NextChild, Destroy
  <2>3. SlotsFresh' /\ terminate' = terminate
    BY <1>0, <1>4 DEF CountTransaction, ShowReceipt, ReapNone, Destroy, SlotsFresh
  <2>4. MainFresh'
    BY <2>1 DEF MainFresh
  <2> QED
    BY <2>2, <2>3, <2>4, MainKeepsFresh
<1>5. CASE \E c \in Children : Reap(c)
  <2>1. PICK c \in Children : Reap(c)
    BY <1>5
  <2>2. pc'[Main] \notin MainWriting \cup {"create"} /\ UNCHANGED <<tx, wrd, terminate>>
    BY <1>0, <2>1 DEF Reap
  <2>3. SlotsFresh' /\ MainFresh'
    BY <1>0, <2>1, <2>2 DEF Reap, SlotsFresh, MainFresh
  <2>4. \A p \in Children : ChildFresh(p)'
    <3> SUFFICES ASSUME NEW p \in Children PROVE ChildFresh(p)'
      OBVIOUS
    <3>1. CASE p # c
      <4>1. pc'[p] = pc[p]
        BY <1>0, <2>1, <3>1 DEF Reap
      <4> QED
        BY <2>2, <4>1 DEF Fresh, ChildFresh
    <3>2. CASE p = c
      <4>1. pc[p] = "exited" /\ pc'[p] = "reaped"
        BY <1>0, <2>1, <3>2 DEF Reap
      <4>2. wrd'[p] = 1
        BY <2>2, <4>1 DEF Fresh, ChildFresh, Copying
      <4> QED
        BY <4>1, <4>2 DEF ChildFresh, Holding, WS!PutLabels, Transferring, SM!WriteLabels
    <3> QED
      BY <3>1, <3>2
  <2> QED
    BY <2>3, <2>4 DEF Fresh
<1>6. CASE UserCommand
  <2>1. pc'[Main] # "create"
    BY <1>0, <1>6 DEF UserCommand, CreateTransaction, AskReceipt, EndExecution
  <2>2. \A p \in Children : pc'[p] = pc[p] /\ tx'[p] = tx[p] /\ wrd'[p] = wrd[p]
    BY <1>0, <1>6 DEF UserCommand, CreateTransaction, AskReceipt, EndExecution
  <2>3. SlotsFresh' /\ (terminate' = terminate \/ terminate' = 1)
    BY <1>0, <1>6
    DEF UserCommand, CreateTransaction, AskReceipt, EndExecution, SlotsFresh
  <2>4. pc'[Main] \in MainWriting => tx'[Main].id # Indeterminate
    <3>1. CASE \E t \in Transfers : CreateTransaction(t[1], t[2], t[3])
      <4>1. tx'[Main].id = tx_counter
        BY <1>0, <3>1 DEF CreateTransaction
      <4>2. tx_counter \in Nat
        BY ArgsAssumption DEF TypeOK, CounterOK
      <4> QED
        BY <4>1, <4>2 DEF Indeterminate
    <3>2. CASE EndExecution \/ \E id \in RcpIds : AskReceipt(id)
      BY <1>0, <3>2 DEF EndExecution, AskReceipt
    <3> QED
      BY <1>6, <3>1, <3>2 DEF UserCommand
  <2> QED
    BY <2>1, <2>2, <2>3, <2>4, MainKeepsFresh DEF MainFresh
<1> QED
  BY <1>1, <1>2, <1>3, <1>4, <1>5, <1>6 DEF MainStep

(* A new segment holds zeros, and no child has run.                        *)
LEMMA InitFresh == Init => Fresh
<1> SUFFICES ASSUME Init PROVE Fresh
  OBVIOUS
<1>1. \A p \in Children : pc[p] = "unborn" /\ wrd[p] = 1
  BY ProcKinds DEF Init
<1>2. pc[Main] = "create" /\ idx[Main] = 0
  BY ProcKinds DEF Init
<1>3. SlotsFresh
  BY DEF Init, SlotsFresh, ZeroTx, Indeterminate
<1>4. MainFresh
  BY <1>1, <1>2, ChildAtIsChild DEF MainFresh, MainWriting, MW!WriteLabels
<1>5. \A p \in Children : ChildFresh(p)
  BY <1>1 DEF ChildFresh, Holding, WS!PutLabels, Transferring, SM!WriteLabels
<1> QED
  BY <1>3, <1>4, <1>5 DEF Fresh

(* No step of any process leaves a child with something it did not read.   *)
LEMMA NextFresh == TypeOK /\ Fresh /\ [Next]_vars => Fresh'
<1> SUFFICES ASSUME TypeOK, Fresh, [Next]_vars PROVE Fresh'
  OBVIOUS
<1>1. CASE UNCHANGED vars
  BY <1>1 DEF vars, flags, money, stats, mw, ws, sm, ledger, local, mainVar, Fresh,
     SlotsFresh, MainFresh, ChildFresh
<1> QED
  BY <1>1, WalletKeepsFresh, ServerKeepsFresh, MainStepKeepsFresh DEF Next, Done

(* What every step relies on.                                              *)
LEMMA FreshUsed == Fresh => FreshReads
  BY DEF Fresh, ChildFresh, FreshReads, Holding

(* Whenever the user ends the run, no wallet signs or sends, and no server *)
(* transfers, writes to the ledger or sends, a transaction that nothing    *)
(* was read into: the second look at terminate is enough (wallet.c:11-29,  *)
(* server.c:16-37), and so is the id -1 of a read that found nothing.      *)
THEOREM OnlyReadTransactionsUsed == Spec => []FreshReads
  BY NextFresh, FreshUsed, InitFresh, SOchainTyped, PTL DEF Spec

-----------------------------------------------------------------------------
(* What a wallet may still sign. *)

(* The slots wallet p may take: those taken by main, and the one it has    *)
(* found so, which another wallet may have freed since.                    *)
Due(p) ==
  {i \in Slots : \/ mw_ptrs[i] = 1
                 \/ pc[p] \in {"r_key", "r_copy", "r_free"} /\ idx[p] = i}

(* The transaction it has read and is about to sign. *)
InHand(p) ==
  IF pc[p] = "got" /\ tx[p].id # NoTx /\ terminate # 1 THEN 1 ELSE 0

(* A wallet signs what it takes once, and cannot take what nobody wrote, n *)
(* transactions apart: none in a run on new segments, those that they      *)
(* already hold, or count, in a run on segments of a former one.           *)
SignedOver(p, n) ==
  wallets_stats[Id(p)] + Cardinality(Due(p)) + InHand(p) <= Created + n

SignedInv == \A p \in WalletProcs : SignedOver(p, 0)

(* There are finitely many slots.                                          *)
LEMMA SlotsFinite ==
  ASSUME NEW S, S \subseteq Slots
  PROVE  IsFiniteSet(S) /\ Cardinality(S) \in Nat
<1>1. IsFiniteSet(Slots)
  BY FS_Interval, SizesAssumption DEF Slots
<1> QED
  BY <1>1, FS_Subset, FS_CardinalityType

(* One slot more is one more at most.                                      *)
LEMMA OneSlotMore ==
  ASSUME NEW S, S \subseteq Slots, NEW i \in Slots, NEW T, T \subseteq S \cup {i}
  PROVE  Cardinality(T) <= Cardinality(S) + 1
<1>1. IsFiniteSet(S) /\ Cardinality(S) \in Nat
  BY SlotsFinite
<1>2. /\ IsFiniteSet(S \cup {i})
      /\ Cardinality(S \cup {i}) = IF i \in S THEN Cardinality(S) ELSE Cardinality(S) + 1
  BY <1>1, FS_AddElement
<1>3. Cardinality(T) <= Cardinality(S \cup {i}) /\ Cardinality(T) \in Nat
  BY <1>2, FS_Subset, FS_CardinalityType
<1> QED
  BY <1>1, <1>2, <1>3

(* The numbers SignedOver is about. *)
SignedNumbers(p) ==
  /\ wallets_stats[Id(p)] \in Nat /\ Cardinality(Due(p)) \in Nat
  /\ InHand(p) \in {0, 1} /\ Created \in Nat

AllNumbers == \A p \in WalletProcs : SignedNumbers(p)

(* They are numbers.                                                       *)
LEMMA SignedTypes == TypeOK => AllNumbers
<1> SUFFICES ASSUME TypeOK, NEW p \in WalletProcs PROVE SignedNumbers(p)
  BY DEF AllNumbers
<1>1. Due(p) \subseteq Slots
  BY DEF Due
<1> QED
  BY <1>1, SlotsFinite, ProcKinds, ArgsAssumption
  DEF TypeOK, DataOK, CounterOK, InHand, Created, SignedNumbers

(* A step that gives wallet p no more to take and to sign.                 *)
LEMMA DueShrinks ==
  ASSUME TypeOK, TypeOK', NEW p \in WalletProcs, NEW n \in Int,
         SignedOver(p, n), Due(p)' \subseteq Due(p), Created' >= Created,
         wallets_stats'[Id(p)] + InHand(p)' <= wallets_stats[Id(p)] + InHand(p)
  PROVE  SignedOver(p, n)'
<1>1. Cardinality(Due(p)') <= Cardinality(Due(p))
  <2>1. Due(p) \subseteq Slots
    BY DEF Due
  <2> QED
    BY <2>1, SlotsFinite, FS_Subset
<1>2. SignedNumbers(p)
  BY SignedTypes DEF AllNumbers
<1>3. SignedNumbers(p)'
  <2>1. AllNumbers'
    BY SignedTypes, PTL
  <2> QED
    BY <2>1 DEF AllNumbers
<1> QED
  BY <1>1, <1>2, <1>3 DEF SignedOver, SignedNumbers

(* The wallet itself: it finds a taken slot, and has it in hand once it is *)
(* free (memory.c:116-128); what it signs it has no more in hand.          *)
LEMMA OwnStepKeepsSigned ==
  ASSUME TypeOK, TypeOK', NEW p \in WalletProcs, NEW n \in Int,
         SignedOver(p, n), WalletStep(p)
  PROVE  SignedOver(p, n)'
<1> USE DEF flags, money, stats, mw, ws, sm, ledger, local, mainVar, Goto
<1>0. /\ p \in Procs /\ p # Main /\ Main \in Procs /\ idx[p] \in Slots
      /\ Id(p) \in Wallets
      /\ pc \in [Procs -> MainLabels \cup WalletLabels \cup ServerLabels]
      /\ idx \in [Procs -> Nat] /\ tx \in [Procs -> Tx]
      /\ mw_ptrs \in [Slots -> {0, 1}]
      /\ wallets_stats \in [Wallets -> Nat] /\ wallets_stats' \in [Wallets -> Nat]
  BY ProcKinds DEF TypeOK, LabelsOK, IndexesOK, DataOK
<1>1. Created' = Created /\ Created \in Nat
  BY <1>0, WalletIsLocal, SignedTypes DEF Created, AllNumbers, SignedNumbers
<1>2. CASE WalletReceive(p) \/ WalletExit(p) \/ WalletIdle(p) \/ WalletSend(p)
  <2>1. wallets_stats' = wallets_stats /\ mw_ptrs' = mw_ptrs
    BY <1>2 DEF WalletReceive, WalletExit, WalletIdle, WalletSend
  <2>2. pc'[p] \notin {"r_key", "r_copy", "r_free"}
        /\ (pc'[p] = "got" => terminate' = 1)
    <3>1. CASE WalletReceive(p) \/ WalletExit(p) \/ WalletIdle(p)
      BY <1>0, <3>1 DEF WalletReceive, WalletExit, WalletIdle
    <3>2. CASE WalletSend(p)
      BY <1>0, <3>2 DEF WalletSend, WS!Put, WS!PutLoadIn, WS!PutFull, WS!PutRoom,
         WS!PutCopy, WS!PutSet, WS!NextWord, WS!Goto
    <3> QED
      BY <1>2, <3>1, <3>2
  <2>3. Due(p)' \subseteq Due(p) /\ InHand(p)' = 0 /\ InHand(p) \in {0, 1}
    BY <2>1, <2>2 DEF Due, InHand
  <2> QED
    BY <1>0, <1>1, <2>1, <2>3, DueShrinks
<1>3. CASE WalletProcess(p)
  <2>1. InHand(p) = 1 /\ pc'[p] \in {"put_in", "top"} /\ mw_ptrs' = mw_ptrs
    BY <1>0, <1>3 DEF WalletProcess, InHand
  <2>2. Due(p)' \subseteq Due(p) /\ InHand(p)' = 0
    BY <2>1 DEF Due, InHand
  <2>3. wallets_stats'[Id(p)] <= wallets_stats[Id(p)] + 1
    BY <1>0, <1>3 DEF WalletProcess
  <2> QED
    BY <1>0, <1>1, <2>1, <2>2, <2>3, DueShrinks
<1>4. CASE WalletRead(p)
  <2> USE DEF MW!shared, MW!Goto
  <2>1. wallets_stats' = wallets_stats /\ terminate' = terminate
    BY <1>4 DEF WalletRead
  <2>2. CASE MW!ReadFree(p)
    <3>1. /\ pc[p] = "r_free" /\ pc'[p] = "got" /\ mw_ptrs' = [mw_ptrs EXCEPT ![idx[p]] = 0]
      BY <1>0, <2>2 DEF MW!ReadFree
    <3>2. idx[p] \in Due(p) /\ Due(p)' = Due(p) \ {idx[p]} /\ InHand(p) = 0
          /\ InHand(p)' \in {0, 1}
      BY <1>0, <3>1 DEF Due, InHand
    <3>3. Cardinality(Due(p)') = Cardinality(Due(p)) - 1 /\ Cardinality(Due(p)) \in Nat
      <4>1. Due(p) \subseteq Slots
        BY DEF Due
      <4> QED
        BY <3>2, <4>1, SlotsFinite, FS_RemoveElement
    <3> QED
      BY <1>0, <1>1, <2>1, <3>2, <3>3 DEF SignedOver
  <2>3. CASE ~MW!ReadFree(p)
    <3>1. mw_ptrs' = mw_ptrs /\ pc[p] # "got"
      BY <1>4, <2>3 DEF WalletRead, MW!Read, MW!ReadSkip, MW!ReadFound,
         MW!ReadMismatch, MW!ReadMatch, MW!ReadCopy, MW!PassSlot
    <3>2. CASE MW!ReadSkip(p) \/ MW!ReadMismatch(p)
      <4>1. MW!PassSlot(p)
        BY <3>2 DEF MW!ReadSkip, MW!ReadMismatch
      <4>2. pc'[p] \in {"r_flag", "got"}
        BY <1>0, <4>1 DEF MW!PassSlot, MW!NextSlot
      <4>3. pc'[p] = "got" => tx'[p].id = NoTx
        <5>1. CASE MW!LastSlot(p)
          <6>1. tx'[p] = [tx[p] EXCEPT !.id = NoTx]
            BY <1>0, <4>1, <5>1, SameWords DEF MW!PassSlot
          <6> QED
            BY <1>0, <6>1 DEF Tx
        <5>2. CASE ~MW!LastSlot(p)
          BY <1>0, <4>1, <5>2 DEF MW!PassSlot, MW!NextSlot
        <5> QED
          BY <5>1, <5>2
      <4>4. Due(p)' \subseteq Due(p) /\ InHand(p)' = 0 /\ InHand(p) = 0
        BY <3>1, <4>2, <4>3 DEF Due, InHand
      <4> QED
        BY <1>0, <1>1, <2>1, <4>4, DueShrinks
    <3>3. CASE MW!ReadFound(p) \/ MW!ReadMatch(p) \/ MW!ReadCopy(p)
      <4>1. /\ idx'[p] = idx[p] /\ pc'[p] # "got"
            /\ mw_ptrs[idx[p]] = 1 \/ pc[p] \in {"r_key", "r_copy", "r_free"}
        BY <1>0, <3>3 DEF MW!ReadFound, MW!ReadMatch, MW!ReadCopy, MW!NextWord
      <4>2. Due(p)' \subseteq Due(p) /\ InHand(p)' = 0 /\ InHand(p) = 0
        BY <3>1, <4>1 DEF Due, InHand
      <4> QED
        BY <1>0, <1>1, <2>1, <4>2, DueShrinks
    <3> QED
      BY <1>4, <2>3, <3>2, <3>3 DEF WalletRead, MW!Read
  <2> QED
    BY <2>2, <2>3
<1> QED
  BY <1>2, <1>3, <1>4 DEF WalletStep

(* The others: whoever frees a slot leaves less to take.                   *)
LEMMA OtherStepKeepsSigned ==
  ASSUME TypeOK, TypeOK', NEW p \in WalletProcs, NEW n \in Int,
         SignedOver(p, n), NEW q \in Children, q # p,
         \/ WalletStep(q) /\ q \in WalletProcs
         \/ ServerStep(q) /\ q \in ServerProcs
  PROVE  SignedOver(p, n)'
<1>0. /\ p \in Procs /\ Main \in Procs /\ p # Main /\ q # Main /\ Id(p) \in Wallets
      /\ wallets_stats \in [Wallets -> Nat] /\ mw_ptrs \in [Slots -> {0, 1}]
      /\ idx[q] \in Slots
  BY ProcKinds DEF TypeOK, DataOK, IndexesOK
<1>1. /\ pc'[p] = pc[p] /\ tx'[p] = tx[p] /\ idx'[p] = idx[p] /\ pc'[Main] = pc[Main]
      /\ terminate' = terminate /\ tx_counter' = tx_counter
  BY <1>0, WalletIsLocal, ServerIsLocal DEF flags, mainVar
<1>2. wallets_stats'[Id(p)] = wallets_stats[Id(p)]
  <2>1. CASE WalletStep(q) /\ q \in WalletProcs
    <3>1. Id(q) # Id(p) /\ Id(q) \in Wallets
      BY <2>1 DEF WalletProcs, Id
    <3> QED
      BY <1>0, <2>1, <3>1 DEF WalletStep, WalletReceive, WalletRead, WalletExit,
         WalletIdle, WalletProcess, WalletSend, stats
  <2>2. CASE ServerStep(q) /\ q \in ServerProcs
    BY <2>2, ServerIsLocal
  <2> QED
    BY <2>1, <2>2
<1>3. \A i \in Slots : mw_ptrs'[i] = 1 => mw_ptrs[i] = 1
  <2>1. CASE WalletStep(q) /\ q \in WalletProcs
    BY <1>0, <2>1 DEF WalletStep, WalletReceive, WalletRead, WalletExit,
       WalletIdle, WalletProcess, WalletSend, mw, MW!Read, MW!ReadSkip, MW!ReadFound,
       MW!ReadMismatch, MW!ReadMatch, MW!ReadCopy, MW!ReadFree, MW!PassSlot, MW!shared
  <2>2. CASE ServerStep(q) /\ q \in ServerProcs
    BY <2>2, ServerIsLocal DEF mw
  <2> QED
    BY <2>1, <2>2
<1>4. Due(p)' \subseteq Due(p) /\ InHand(p)' = InHand(p) /\ Created' = Created
  BY <1>1, <1>3 DEF Due, InHand, Created
<1>5. SignedNumbers(p)
  BY SignedTypes DEF AllNumbers
<1> QED
  BY <1>2, <1>4, <1>5, DueShrinks DEF SignedNumbers

(* main: with each slot it takes there is one transaction more.            *)
LEMMA MainStepKeepsSigned ==
  ASSUME TypeOK, TypeOK', NEW p \in WalletProcs, NEW n \in Int,
         SignedOver(p, n), MainStep \/ UserCommand
  PROVE  SignedOver(p, n)'
<1> USE DEF flags, money, stats, mw, ws, sm, ledger, local, mainVar, Goto
<1>0. /\ Main \in Procs /\ p \in Children /\ p # Main /\ p \in Procs
      /\ pc \in [Procs -> MainLabels \cup WalletLabels \cup ServerLabels]
      /\ mw_ptrs \in [Slots -> {0, 1}] /\ tx_counter \in Nat
  BY ProcKinds, ArgsAssumption DEF TypeOK, LabelsOK, DataOK, CounterOK
<1>1. /\ pc'[p] = pc[p] \/ pc'[p] \in {"top", "reaped"}
      /\ tx'[p] = tx[p] /\ idx'[p] = idx[p] /\ terminate' \in {terminate, 1}
      /\ wallets_stats' = wallets_stats
  BY <1>0, MainIsLocal
<1>2. InHand(p)' <= InHand(p)
  BY <1>1 DEF InHand
<1>3. CASE MainWrite /\ MW!WriteMark(Main)
  <2>1. /\ pc[Main] = "w_mark" /\ pc'[Main] = "w_copy" /\ tx_counter' = tx_counter
        /\ mw_ptrs' = [mw_ptrs EXCEPT ![idx[Main]] = 1]
    BY <1>0, <1>3 DEF MainWrite, MW!WriteMark, MW!Goto
  <2>2. Created' = Created + 1
    BY <1>0, <2>1 DEF Created
  <2>3. Due(p)' \subseteq Due(p) \cup {idx[Main]}
    BY <1>0, <1>1, <2>1 DEF Due
  <2>4. Cardinality(Due(p)') <= Cardinality(Due(p)) + 1
    <3>1. Due(p) \subseteq Slots /\ idx[Main] \in Slots
      BY <2>1 DEF Due, TypeOK, IndexesOK, MainWriting, MW!WriteLabels
    <3> QED
      BY <2>3, <3>1, OneSlotMore
  <2>5. SignedNumbers(p)
    BY SignedTypes DEF AllNumbers
  <2>6. SignedNumbers(p)'
    <3>1. AllNumbers'
      BY SignedTypes, PTL
    <3> QED
      BY <3>1 DEF AllNumbers
  <2> QED
    BY <1>1, <1>2, <2>2, <2>4, <2>5, <2>6 DEF SignedOver, SignedNumbers
<1>4. CASE ~(MainWrite /\ MW!WriteMark(Main))
  <2>1. mw_ptrs' = mw_ptrs /\ Created' >= Created
    <3>1. CASE MainWrite
      BY <1>0, <1>4, <3>1 DEF MainWrite, MW!Write, MW!WriteSkip, MW!WriteFound,
         MW!WriteCopy, MW!NextSlot, MW!NextWord, MW!Goto, MW!shared, Created
    <3>2. CASE MainRead
      <4>1. pc[Main] \notin {"w_copy", "count"} /\ UNCHANGED <<mw_ptrs, tx_counter>>
        BY <3>2 DEF MainRead, SM!Read, SM!ReadSkip, SM!ReadMismatch, SM!ReadFound,
           SM!ReadMatch, SM!ReadCopy, SM!ReadFree
      <4> QED
        BY <1>0, <4>1 DEF Created
    <3>3. CASE CountTransaction
      BY <1>0, <3>3 DEF CountTransaction, Created
    <3>4. CASE \/ Launch \/ LaunchFails \/ ShowReceipt \/ ReapNone \/ Destroy
               \/ (\E c \in Children : Reap(c)) \/ UserCommand
      <4>1. pc[Main] \notin {"w_copy", "count"} /\ UNCHANGED <<mw_ptrs, tx_counter>>
        BY <3>4 DEF Launch, LaunchFails, ShowReceipt, ReapNone, Destroy, Reap,
           UserCommand, CreateTransaction, AskReceipt, EndExecution
      <4> QED
        BY <1>0, <4>1 DEF Created
    <3> QED
      BY <3>1, <3>2, <3>3, <3>4 DEF MainStep
  <2>2. Due(p)' \subseteq Due(p)
    BY <1>1, <2>1 DEF Due
  <2>3. wallets_stats[Id(p)] \in Nat /\ InHand(p) \in {0, 1} /\ InHand(p)' \in {0, 1}
    BY SignedTypes DEF AllNumbers, SignedNumbers, InHand
  <2> QED
    BY <1>1, <1>2, <2>1, <2>2, <2>3, DueShrinks
<1> QED
  BY <1>3, <1>4

(* No step of any process, then. *)
LEMMA NextSigned ==
  ASSUME TypeOK, TypeOK', NEW p \in WalletProcs, NEW n \in Int,
         SignedOver(p, n), [Next]_vars
  PROVE  SignedOver(p, n)'
<1>1. CASE UNCHANGED vars
  BY <1>1 DEF SignedOver, Due, InHand, Created, vars, flags, stats, mw,
     local, mainVar
<1>2. ASSUME NEW q \in WalletProcs, WalletStep(q) PROVE SignedOver(p, n)'
  <2>1. CASE q = p
    BY <1>2, <2>1, OwnStepKeepsSigned
  <2>2. CASE q # p
    <3>1. q \in Children
      BY ProcKinds
    <3> QED
      BY <1>2, <2>2, <3>1, OtherStepKeepsSigned
  <2> QED
    BY <2>1, <2>2
<1>3. ASSUME NEW q \in ServerProcs, ServerStep(q) PROVE SignedOver(p, n)'
  <2>1. q \in Children /\ q # p
    BY ProcKinds
  <2> QED
    BY <1>3, <2>1, OtherStepKeepsSigned
<1>4. CASE MainStep \/ UserCommand
  BY <1>4, MainStepKeepsSigned
<1> QED
  BY <1>1, <1>2, <1>3, <1>4 DEF Next, Done

(* A run on new segments starts with nothing to take and nothing signed.   *)
LEMMA InitSigned == Init => SignedInv
<1> SUFFICES ASSUME Init, NEW p \in WalletProcs PROVE SignedOver(p, 0)
  BY DEF SignedInv
<1>1. p \in Procs /\ Main \in Procs /\ p # Main /\ Id(p) \in Wallets
  BY ProcKinds
<1>2. Due(p) = {} /\ InHand(p) = 0 /\ Created = 0 /\ wallets_stats[Id(p)] = 0
  BY <1>1 DEF Init, Due, InHand, Created
<1> QED
  BY <1>2, FS_EmptySet DEF SignedOver

(* Whatever the wallets and main do to main's buffer, each wallet signs at *)
(* most as many transactions as main created: no slot is read twice by the *)
(* same one, and a slot freed under a reader is not one more               *)
(* (memory.c:76-85, 116-128; wallet.c:40-51).                              *)
THEOREM NoWalletSignsMore == Spec => []SignedWithinCreated
<1>1. Init => SignedInv
  BY InitSigned
<1>2. TypeOK /\ TypeOK' /\ SignedInv /\ [Next]_vars => SignedInv'
  BY NextSigned DEF SignedInv
<1>3. TypeOK /\ SignedInv => SignedWithinCreated
  <2> SUFFICES ASSUME TypeOK, SignedInv, NEW w \in Wallets PROVE wallets_stats[w] <= Created
    BY DEF SignedWithinCreated
  <2>1. <<"wallet", w>> \in WalletProcs /\ Id(<<"wallet", w>>) = w
    BY DEF WalletProcs, Id
  <2> QED
    BY <2>1, SignedTypes DEF AllNumbers, SignedInv, SignedOver, SignedNumbers
<1> QED
  BY <1>1, <1>2, <1>3, SOchainTyped, PTL DEF Spec

-----------------------------------------------------------------------------
(* One wallet and one server: the ring is a queue in the whole program. *)

W0 == <<"wallet", 0>>

(* The wallet alone works on the slot of in, which is not in the queue. *)
WalletSide ==
  /\ pc[W0] \in {"put_out", "put_copy", "put_set"} => idx[W0] = ws_in
  /\ pc[W0] \in {"put_copy", "put_set"} => WS!Succ(ws_in) # ws_out
  /\ pc[W0] = "put_copy" => Moved(ws_buffer[ws_in], tx[W0], wrd[W0])
  /\ pc[W0] = "put_set" => ws_buffer[ws_in] = tx[W0]

(* The server alone works on the slot of out, once it knows of an entry:   *)
(* the in it loaded may be old, but entries are only added meanwhile.      *)
ServerSide ==
  /\ (pc[S0] = "get_out" /\ idx[S0] # ws_out) => ws_in # ws_out
  /\ pc[S0] \in {"get_copy", "get_set"} => idx[S0] = ws_out /\ ws_in # ws_out
  /\ pc[S0] = "get_copy" => Moved(tx[S0], ws_buffer[ws_out], wrd[S0])
  /\ pc[S0] = "get_set" => tx[S0] = ws_buffer[ws_out]

HandOver == WalletSide /\ ServerSide

-----------------------------------------------------------------------------
(* The ring of the program, as the lemmas about its data see it.           *)
LEMMA RingData ==
  /\ \A i : WS!Succ(i) = SuccOf(i)
  /\ WS!Held = HeldBy(ws_in, ws_out)
  /\ WS!Held' = HeldBy(ws_in', ws_out')
  /\ WS!Content = ContentOf(ws_in, ws_out, ws_buffer)
  /\ WS!Content' = ContentOf(ws_in', ws_out', ws_buffer')
  BY DEF WS!Succ, SuccOf, WS!Held, HeldBy, WS!Nth, NthFrom, WS!Content, ContentOf

(* With one of each, these are the processes.                              *)
LEMMA OneOfEach ==
  ASSUME NWallets = 1, NServers = 1
  PROVE  /\ WalletProcs = {W0} /\ ServerProcs = {S0} /\ W0 # S0
         /\ Wallets = {0} /\ Servers = {0} /\ Id(W0) = 0 /\ Id(S0) = 0
         /\ W0 \in Children /\ S0 \in Children /\ W0 \in Procs /\ S0 \in Procs
         /\ W0 # Main /\ S0 # Main /\ Main \in Procs
  BY DEF WalletProcs, ServerProcs, Wallets, Servers, W0, S0, Id, Children, Procs, Main

(* What each has in hand is well typed; and the copies start at word one.  *)
LEMMA QueueTypes ==
  ASSUME NWallets = 1, NServers = 1, TypeOK, Fresh
  PROVE  /\ ws_in \in Slots /\ ws_out \in Slots /\ ws_buffer \in [Slots -> Tx]
         /\ tx \in [Procs -> Tx] /\ wrd \in [Procs -> 1 .. Words]
         /\ pc \in [Procs -> MainLabels \cup WalletLabels \cup ServerLabels]
         /\ idx \in [Procs -> Nat] /\ idx[W0] \in Slots /\ idx[S0] \in Slots
         /\ pc[W0] = "put_out" => wrd[W0] = 1
         /\ pc[S0] = "get_out" => wrd[S0] = 1
  BY OneOfEach DEF TypeOK, DataOK, LabelsOK, IndexesOK, Fresh, ChildFresh, Copying

(* A step that leaves the ring alone, in which a child either stays as it  *)
(* is or does not go on with the ring.                                     *)
LEMMA HandOverKept ==
  ASSUME HandOver, UNCHANGED ws,
         \/ /\ pc'[W0] = pc[W0] /\ tx'[W0] = tx[W0]
            /\ wrd'[W0] = wrd[W0] /\ idx'[W0] = idx[W0]
         \/ pc'[W0] \notin {"put_out", "put_copy", "put_set"},
         \/ /\ pc'[S0] = pc[S0] /\ tx'[S0] = tx[S0]
            /\ wrd'[S0] = wrd[S0] /\ idx'[S0] = idx[S0]
         \/ pc'[S0] \notin {"get_out", "get_copy", "get_set"}
  PROVE  HandOver'
  BY DEF HandOver, WalletSide, ServerSide, ws, WS!Succ

(* The wallet fills the slot of in, and then gives it to the queue.        *)
LEMMA WalletKeepsHandOver ==
  ASSUME NWallets = 1, NServers = 1, TypeOK, Fresh, HandOver, WalletStep(W0)
  PROVE  HandOver'
<1> USE DEF flags, money, stats, mw, ws, sm, ledger, local, mainVar, Goto
<1>0. /\ ws_in \in Slots /\ ws_out \in Slots /\ ws_buffer \in [Slots -> Tx]
      /\ tx \in [Procs -> Tx] /\ wrd \in [Procs -> 1 .. Words]
      /\ pc \in [Procs -> MainLabels \cup WalletLabels \cup ServerLabels]
      /\ idx \in [Procs -> Nat] /\ idx[W0] \in Slots
      /\ pc[W0] = "put_out" => wrd[W0] = 1
      /\ W0 \in Procs /\ S0 \in Procs /\ W0 # S0 /\ W0 \in WalletProcs
      /\ WalletSide /\ ServerSide
  BY QueueTypes, OneOfEach DEF HandOver
<1>1. /\ pc'[S0] = pc[S0] /\ tx'[S0] = tx[S0] /\ wrd'[S0] = wrd[S0]
      /\ idx'[S0] = idx[S0]
  BY <1>0, WalletIsLocal
<1>2. CASE WalletReceive(W0) \/ WalletRead(W0) \/ WalletExit(W0) \/ WalletIdle(W0)
           \/ WalletProcess(W0)
  <2>1. UNCHANGED ws
    BY <1>2 DEF WalletReceive, WalletRead, WalletExit, WalletIdle, WalletProcess
  <2>2. pc'[W0] \notin {"put_out", "put_copy", "put_set"}
    BY <1>0, <1>2 DEF WalletReceive, WalletRead, WalletExit, WalletIdle, WalletProcess,
       MW!Read, MW!ReadSkip, MW!ReadFound, MW!ReadMismatch, MW!ReadMatch, MW!ReadCopy,
       MW!ReadFree, MW!PassSlot, MW!NextSlot, MW!NextWord, MW!Goto
  <2> QED
    BY <1>1, <2>1, <2>2, HandOverKept
<1>3. CASE WalletSend(W0)
  <2> USE DEF WS!shared, WS!Goto
  <2>1. CASE WS!PutLoadIn(W0)
    BY <1>0, <1>1, <2>1 DEF WS!PutLoadIn, HandOver, WalletSide, ServerSide
  <2>2. CASE WS!PutFull(W0)
    BY <1>0, <1>1, <2>2, HandOverKept DEF WS!PutFull
  <2>3. CASE WS!PutRoom(W0)
    BY <1>0, <1>1, <2>3 DEF WS!PutRoom, HandOver, WalletSide, ServerSide, Moved, WS!Succ
  <2>4. CASE WS!PutCopy(W0)
    <3>1. /\ ws_buffer[ws_in] \in Tx /\ tx[W0] \in Tx /\ wrd[W0] \in 1 .. Words
          /\ Moved(ws_buffer[ws_in], tx[W0], wrd[W0]) /\ idx[W0] = ws_in
          /\ WS!Succ(ws_in) # ws_out
      BY <1>0, <2>4 DEF WS!PutCopy, WalletSide
    <3>2. /\ ws_buffer' = [ws_buffer EXCEPT
                ![ws_in] = CopyWord(ws_buffer[ws_in], tx[W0], wrd[W0])]
          /\ wrd'[W0] = IF wrd[W0] = Words THEN 1 ELSE wrd[W0] + 1
          /\ pc'[W0] = IF wrd[W0] = Words THEN "put_set" ELSE "put_copy"
          /\ UNCHANGED <<ws_in, ws_out, tx, idx>>
      BY <1>0, <2>4, <3>1, SameWords DEF WS!PutCopy, WS!NextWord
    <3>3. ws_buffer'[ws_in] = CopyWord(ws_buffer[ws_in], tx[W0], wrd[W0])
          /\ \A i \in Slots : i # ws_in => ws_buffer'[i] = ws_buffer[i]
      BY <1>0, <3>2
    <3>4. /\ pc'[W0] = "put_copy" => Moved(ws_buffer'[ws_in], tx[W0], wrd'[W0])
          /\ pc'[W0] = "put_set" => ws_buffer'[ws_in] = tx[W0]
      BY <3>1, <3>2, <3>3, MovedNext
    <3>5. WalletSide'
      BY <3>1, <3>2, <3>4 DEF WalletSide, WS!Succ
    <3>6. ServerSide'
      BY <1>0, <1>1, <3>2, <3>3 DEF ServerSide
    <3> QED
      BY <3>5, <3>6 DEF HandOver
  <2>5. CASE WS!PutSet(W0)
    <3>1. /\ ws_in' = WS!Succ(ws_in) /\ ws_out' = ws_out /\ ws_buffer' = ws_buffer
          /\ WS!Succ(ws_in) # ws_out /\ pc'[W0] = "top"
      BY <1>0, <2>5 DEF WS!PutSet, WalletSide
    <3> QED
      BY <1>0, <1>1, <3>1 DEF HandOver, WalletSide, ServerSide
  <2> QED
    BY <1>3, <2>1, <2>2, <2>3, <2>4, <2>5 DEF WalletSend, WS!Put
<1> QED
  BY <1>2, <1>3 DEF WalletStep

(* The server copies the slot of out, and then takes it from the queue.    *)
LEMMA ServerKeepsHandOver ==
  ASSUME NWallets = 1, NServers = 1, TypeOK, Fresh, HandOver, ServerStep(S0)
  PROVE  HandOver'
<1> USE DEF flags, money, stats, mw, ws, sm, ledger, local, mainVar, Goto
<1>0. /\ ws_in \in Slots /\ ws_out \in Slots /\ ws_buffer \in [Slots -> Tx]
      /\ tx \in [Procs -> Tx] /\ wrd \in [Procs -> 1 .. Words]
      /\ pc \in [Procs -> MainLabels \cup WalletLabels \cup ServerLabels]
      /\ idx \in [Procs -> Nat] /\ idx[S0] \in Slots
      /\ pc[S0] = "get_out" => wrd[S0] = 1
      /\ W0 \in Procs /\ S0 \in Procs /\ W0 # S0 /\ S0 \in ServerProcs
      /\ WalletSide /\ ServerSide
  BY QueueTypes, OneOfEach DEF HandOver
<1>1. /\ pc'[W0] = pc[W0] /\ tx'[W0] = tx[W0] /\ wrd'[W0] = wrd[W0]
      /\ idx'[W0] = idx[W0]
  BY <1>0, ServerIsLocal
<1>2. CASE ~ServerRead(S0)
  <2>1. UNCHANGED ws
    BY <1>2 DEF ServerStep, ServerReceive, ServerExit, ServerIdle, ServerReject,
       ServerAccept, LoadDest, StoreDest, LoadSrc, StoreSrc, ServerSign, WriteLedger,
       LedgerFails, ServerSend
  <2>2. pc'[S0] \notin {"get_out", "get_copy", "get_set"}
    <3>1. CASE ServerSend(S0)
      BY <1>0, <3>1 DEF ServerSend, SM!Write, SM!WriteSkip, SM!WriteFound, SM!WriteMark,
         SM!WriteCopy, SM!NextSlot, SM!NextWord, SM!Goto
    <3>2. CASE ~ServerSend(S0)
      BY <1>0, <1>2, <3>2 DEF ServerStep, ServerReceive, ServerExit, ServerIdle,
         ServerReject, ServerAccept, LoadDest, StoreDest, LoadSrc, StoreSrc, ServerSign,
         WriteLedger, LedgerFails
    <3> QED
      BY <3>1, <3>2
  <2> QED
    BY <1>1, <2>1, <2>2, HandOverKept
<1>3. CASE ServerRead(S0)
  <2> USE DEF WS!shared, WS!Goto
  <2>1. CASE WS!GetLoadIn(S0)
    BY <1>0, <1>1, <2>1 DEF WS!GetLoadIn, HandOver, WalletSide, ServerSide, WS!Succ
  <2>2. CASE WS!GetEmpty(S0)
    BY <1>0, <1>1, <2>2, HandOverKept DEF WS!GetEmpty
  <2>3. CASE WS!GetSome(S0)
    BY <1>0, <1>1, <2>3 DEF WS!GetSome, HandOver, WalletSide, ServerSide, Moved, WS!Succ
  <2>4. CASE WS!GetCopy(S0)
    <3>1. /\ ws_buffer[ws_out] \in Tx /\ tx[S0] \in Tx /\ wrd[S0] \in 1 .. Words
          /\ Moved(tx[S0], ws_buffer[ws_out], wrd[S0]) /\ idx[S0] = ws_out
          /\ ws_in # ws_out
      BY <1>0, <2>4 DEF WS!GetCopy, ServerSide
    <3>2. /\ tx'[S0] = CopyWord(tx[S0], ws_buffer[ws_out], wrd[S0])
          /\ wrd'[S0] = IF wrd[S0] = Words THEN 1 ELSE wrd[S0] + 1
          /\ pc'[S0] = IF wrd[S0] = Words THEN "get_set" ELSE "get_copy"
          /\ UNCHANGED <<ws_in, ws_out, ws_buffer, idx>>
      BY <1>0, <2>4, <3>1, SameWords DEF WS!GetCopy, WS!NextWord
    <3>3. /\ pc'[S0] = "get_copy" => Moved(tx'[S0], ws_buffer[ws_out], wrd'[S0])
          /\ pc'[S0] = "get_set" => tx'[S0] = ws_buffer[ws_out]
      BY <3>1, <3>2, MovedNext
    <3>4. ServerSide'
      BY <3>1, <3>2, <3>3 DEF ServerSide
    <3>5. WalletSide'
      BY <1>0, <1>1, <3>2 DEF WalletSide, WS!Succ
    <3> QED
      BY <3>4, <3>5 DEF HandOver
  <2>5. CASE WS!GetSet(S0)
    <3>1. /\ ws_out' = WS!Succ(ws_out) /\ ws_in' = ws_in /\ ws_buffer' = ws_buffer
          /\ ws_in # ws_out /\ pc'[S0] = "got"
      BY <1>0, <2>5 DEF WS!GetSet, ServerSide
    <3>2. WS!Succ(ws_in) # WS!Succ(ws_out)
      BY <1>0, <3>1, RingData, SuccInjective
    <3>3. ServerSide'
      BY <3>1 DEF ServerSide
    <3>4. WalletSide'
      BY <1>0, <1>1, <3>1, <3>2 DEF WalletSide, WS!Succ
    <3> QED
      BY <3>3, <3>4 DEF HandOver
  <2> QED
    BY <1>3, <2>1, <2>2, <2>3, <2>4, <2>5 DEF ServerRead, WS!Get
<1> QED
  BY <1>2, <1>3

(* Nothing breaks the hand-over: main does not touch the ring.             *)
LEMMA NextHandOver ==
  ASSUME NWallets = 1, NServers = 1, TypeOK, Fresh, HandOver, [Next]_vars
  PROVE  HandOver'
<1>0. WalletProcs = {W0} /\ ServerProcs = {S0} /\ W0 \in Children /\ S0 \in Children
  BY OneOfEach
<1>1. CASE MainStep \/ UserCommand
  <2>1. /\ \A c \in {W0, S0} :
             /\ pc'[c] = pc[c] \/ pc'[c] \in {"top", "reaped"}
             /\ tx'[c] = tx[c] /\ wrd'[c] = wrd[c] /\ idx'[c] = idx[c]
        /\ UNCHANGED ws
    BY <1>0, <1>1, MainIsLocal
  <2> QED
    BY <2>1, HandOverKept
<1>2. CASE UNCHANGED vars
  BY <1>2, HandOverKept DEF vars, local
<1> QED
  BY <1>0, <1>1, <1>2, WalletKeepsHandOver, ServerKeepsHandOver DEF Next, Done

(* The wallet may fill the slot of in: the queue stays as it is.           *)
LEMMA FillKeepsContent ==
  ASSUME ws_in \in Slots, ws_out \in Slots, UNCHANGED <<ws_in, ws_out>>,
         \A i \in Slots : i # ws_in => ws_buffer'[i] = ws_buffer[i]
  PROVE  WS!Content' = WS!Content /\ WS!Held' = WS!Held
<1> DEFINE b == ws_buffer
           c == ws_buffer'
<1> HIDE DEF b, c
<1>1. ContentOf(ws_in, ws_out, c) = ContentOf(ws_in, ws_out, b)
  <2>1. \A i \in Slots : i # ws_in => c[i] = b[i]
    BY DEF b, c
  <2> QED
    BY <2>1, ContentKept
<1>2. WS!Held' = WS!Held
  BY DEF WS!Held
<1> QED
  BY <1>1, <1>2, RingData DEF b, c

(* The three things a step may do to the queue.                            *)
QueueStays ==
  WS!Content' = WS!Content /\ WS!Held' = WS!Held /\ ~WS!GetSet(S0)

WalletStores ==
  /\ WalletStep(W0) /\ WS!PutSet(W0)
  /\ WS!Content' = Append(WS!Content, tx[W0]) /\ WS!Held' = WS!Held + 1

ServerTakes ==
  /\ ServerStep(S0) /\ WS!GetSet(S0)
  /\ WS!Content # <<>> /\ tx[S0] = Head(WS!Content)
  /\ WS!Content' = Tail(WS!Content) /\ WS!Held' = WS!Held - 1

(* A step leaves the queue alone, or the wallet appends to it the          *)
(* transaction it holds, or the server has taken the first one from it.    *)
LEMMA QueueSteps ==
  ASSUME NWallets = 1, NServers = 1, TypeOK, Fresh, HandOver, [Next]_vars
  PROVE  QueueStays \/ WalletStores \/ ServerTakes
<1> USE DEF flags, money, stats, mw, ws, sm, ledger, local, mainVar, Goto
<1>0. /\ ws_in \in Slots /\ ws_out \in Slots /\ ws_buffer \in [Slots -> Tx]
      /\ pc \in [Procs -> MainLabels \cup WalletLabels \cup ServerLabels]
      /\ W0 \in Procs /\ S0 \in Procs /\ W0 # S0 /\ W0 # Main /\ S0 # Main
      /\ WalletProcs = {W0} /\ ServerProcs = {S0} /\ W0 \in Children /\ S0 \in Children
      /\ WalletSide /\ ServerSide
  BY QueueTypes, OneOfEach DEF HandOver
<1>1. CASE WalletStep(W0) /\ WS!PutSet(W0)
  <2>1. /\ ws_in' = WS!Succ(ws_in) /\ ws_out' = ws_out /\ ws_buffer' = ws_buffer
        /\ WS!Succ(ws_in) # ws_out /\ ws_buffer[ws_in] = tx[W0]
    BY <1>0, <1>1 DEF WS!PutSet, WalletSide
  <2>2. /\ ContentOf(ws_in', ws_out', ws_buffer')
             = Append(ContentOf(ws_in, ws_out, ws_buffer), tx[W0])
        /\ HeldBy(ws_in', ws_out') = HeldBy(ws_in, ws_out) + 1
    BY <1>0, <2>1, RingData, StoreAppends
  <2> QED
    BY <1>1, <2>2, RingData DEF WalletStores
<1>2. CASE ServerStep(S0) /\ WS!GetSet(S0)
  <2>1. /\ ws_out' = WS!Succ(ws_out) /\ ws_in' = ws_in /\ ws_buffer' = ws_buffer
        /\ ws_in # ws_out /\ tx[S0] = ws_buffer[ws_out]
    BY <1>0, <1>2 DEF WS!GetSet, ServerSide
  <2>2. /\ ContentOf(ws_in, ws_out, ws_buffer) # <<>>
        /\ Head(ContentOf(ws_in, ws_out, ws_buffer)) = tx[S0]
        /\ ContentOf(ws_in', ws_out', ws_buffer') = Tail(ContentOf(ws_in, ws_out, ws_buffer))
        /\ HeldBy(ws_in', ws_out') = HeldBy(ws_in, ws_out) - 1
    BY <1>0, <2>1, RingData, DeliverTakesHead
  <2> QED
    BY <1>2, <2>2, RingData DEF ServerTakes
<1>3. CASE WalletStep(W0) /\ ~WS!PutSet(W0)
  <2>1. UNCHANGED <<ws_in, ws_out>> /\ \A i \in Slots : i # ws_in => ws_buffer'[i] = ws_buffer[i]
    <3>1. CASE WS!PutCopy(W0)
      <4>1. idx[W0] = ws_in
        BY <3>1 DEF WS!PutCopy, HandOver, WalletSide
      <4> QED
        BY <1>0, <3>1, <4>1 DEF WS!PutCopy
    <3>2. CASE ~WS!PutCopy(W0)
      BY <1>3, <3>2 DEF WalletStep, WalletReceive, WalletRead, WalletExit, WalletIdle,
         WalletProcess, WalletSend, WS!Put, WS!PutLoadIn, WS!PutFull, WS!PutRoom, WS!shared
    <3> QED
      BY <3>1, <3>2
  <2>2. ~WS!GetSet(S0)
    BY <1>0, <1>3, WalletIsLocal DEF WS!GetSet, WS!Goto
  <2> QED
    BY <1>0, <1>3, <2>1, <2>2, FillKeepsContent DEF QueueStays
<1>4. CASE ServerStep(S0) /\ ~WS!GetSet(S0)
  <2>1. UNCHANGED ws
    BY <1>4 DEF ServerStep, ServerReceive, ServerExit, ServerIdle, ServerReject,
       ServerAccept, LoadDest, StoreDest, LoadSrc, StoreSrc, ServerSign, WriteLedger,
       LedgerFails, ServerSend, ServerRead, WS!Get, WS!GetLoadIn, WS!GetEmpty,
       WS!GetSome, WS!GetCopy, WS!shared
  <2> QED
    BY <1>0, <1>4, <2>1, FillKeepsContent DEF QueueStays
<1>5. CASE MainStep \/ UserCommand \/ UNCHANGED vars
  <2>1. UNCHANGED ws
    BY <1>5, MainIsLocal DEF vars
  <2>2. ~WS!GetSet(S0)
    BY <1>0, <1>5, MainIsLocal DEF vars, WS!GetSet, WS!Goto
  <2> QED
    BY <1>0, <2>1, <2>2, FillKeepsContent DEF QueueStays
<1> QED
  BY <1>0, <1>1, <1>2, <1>3, <1>4, <1>5 DEF Next, Done

(* The program starts with an empty ring, and nobody on it.                *)
LEMMA InitHandOver ==
  ASSUME NWallets = 1, NServers = 1
  PROVE  Init => HandOver
  BY OneOfEach DEF Init, HandOver, WalletSide, ServerSide

(* With one wallet and one server, whatever the size of the ring and       *)
(* whatever else they and main do, no transaction is lost in the ring,     *)
(* doubled, torn or overtaken there (memory.c:87-145).                     *)
THEOREM RingIsQueueOfTransactions ==
  ASSUME NWallets = 1, NServers = 1
  PROVE  Spec => RingIsQueue
<1> DEFINE QueueStep ==
      \/ WS!Content' = WS!Content
      \/ \E p \in WalletProcs : WS!Content' = Append(WS!Content, tx[p])
      \/ \E p \in ServerProcs : /\ WS!Content # <<>>
                                /\ tx[p] = Head(WS!Content)
                                /\ WS!Content' = Tail(WS!Content)
<1>1. TypeOK /\ Fresh /\ HandOver /\ [Next]_vars => QueueStep
  BY QueueSteps, OneOfEach DEF QueueStays, WalletStores, ServerTakes
<1>2. TypeOK /\ Fresh /\ HandOver /\ [Next]_vars => HandOver'
  BY NextHandOver
<1> HIDE DEF QueueStep
<1>3. Spec => [][QueueStep]_vars
  BY <1>1, <1>2, InitHandOver, InitFresh, NextFresh, SOchainTyped, PTL DEF Spec
<1> QED
  BY <1>3 DEF RingIsQueue, QueueStep

-----------------------------------------------------------------------------
(* One wallet and one server: each transaction signed is in one place. *)

(* What the wallet has signed and not yet put into the ring. *)
WalletHas == IF pc[W0] \in WS!PutLabels THEN 1 ELSE 0

(* What the server took from the ring, and may yet write in the ledger. *)
ServerHas ==
  IF \/ pc[S0] \in Transferring
     \/ pc[S0] = "got" /\ terminate # 1 /\ tx[S0].id # NoTx
    THEN 1 ELSE 0

(* A line of the ledger, a transaction of the server's, an entry of the    *)
(* ring and a transaction of the wallet's are all different ones, signed,  *)
(* but for n of them.                                                      *)
FlowOver(n) ==
  ledger_lines[0] + ServerHas + WS!Held + WalletHas <= wallets_stats[0] + n

Flow == FlowOver(0)

(* The numbers that this adds and compares.                                *)
LEMMA FlowTypes ==
  ASSUME NWallets = 1, NServers = 1, TypeOK
  PROVE  /\ ledger_lines \in [{0} -> Nat] /\ wallets_stats \in [{0} -> Nat]
         /\ WS!Held \in Nat
<1>1. ws_in \in Slots /\ ws_out \in Slots
  BY DEF TypeOK, DataOK
<1>2. HeldBy(ws_in, ws_out) \in Nat
  BY <1>1, HeldSlots, SizesAssumption
<1> QED
  BY <1>2, RingData, OneOfEach DEF TypeOK, DataOK

(* The wallet hands on what it signs, once.                                *)
LEMMA WalletKeepsFlow ==
  ASSUME NWallets = 1, NServers = 1, TypeOK, Fresh, HandOver, NEW n \in Int,
         FlowOver(n), WalletStep(W0)
  PROVE  FlowOver(n)'
<1> USE DEF flags, money, stats, mw, ws, sm, ledger, local, mainVar, Goto
<1>0. /\ pc \in [Procs -> MainLabels \cup WalletLabels \cup ServerLabels]
      /\ W0 \in Procs /\ S0 \in Procs /\ W0 # S0 /\ W0 \in WalletProcs
      /\ tx[W0].src_id = 0 /\ Id(W0) = 0
  BY OneOfEach DEF TypeOK, DataOK, LabelsOK, Tx
<1>1. ServerHas' = ServerHas /\ ledger_lines' = ledger_lines
  BY <1>0, WalletIsLocal DEF ServerHas
<1>2. QueueStays \/ WalletStores
  BY <1>0, QueueSteps, WalletIsLocal DEF ServerTakes, WS!GetSet, WS!Goto, Next
<1>3. CASE WalletStores
  <2>1. WalletHas = 1 /\ WalletHas' = 0 /\ WS!Held' = WS!Held + 1
    BY <1>0, <1>3 DEF WalletStores, WS!PutSet, WS!Goto, WalletHas, WS!PutLabels
  <2>2. wallets_stats' = wallets_stats
    BY <1>0, <1>3 DEF WalletStores, WalletStep, WS!PutSet, WalletReceive, WalletRead,
       WalletExit, WalletIdle, WalletProcess, WalletSend
  <2> QED
    BY <1>1, <2>1, <2>2, FlowTypes DEF FlowOver, ServerHas
<1>4. CASE QueueStays
  <2>1. CASE WalletProcess(W0)
    <3>1. wallets_stats'[0] = wallets_stats[0] + 1 /\ WalletHas = 0
      BY <1>0, <2>1, FlowTypes DEF WalletProcess, WalletHas, WS!PutLabels
    <3> QED
      BY <1>1, <1>4, <3>1, FlowTypes DEF QueueStays, FlowOver, ServerHas, WalletHas
  <2>2. CASE ~WalletProcess(W0)
    <3>1. wallets_stats' = wallets_stats
      BY <2>2 DEF WalletStep, WalletReceive, WalletRead, WalletExit, WalletIdle, WalletSend
    <3>2. pc'[W0] \in WS!PutLabels => pc[W0] \in WS!PutLabels
      <4>1. CASE WalletReceive(W0) \/ WalletExit(W0) \/ WalletIdle(W0)
        BY <1>0, <4>1 DEF WalletReceive, WalletExit, WalletIdle, WS!PutLabels
      <4>2. CASE WalletRead(W0)
        BY <1>0, <4>2 DEF WalletRead, MW!Read, MW!ReadSkip, MW!ReadFound,
           MW!ReadMismatch, MW!ReadMatch, MW!ReadCopy, MW!ReadFree, MW!PassSlot,
           MW!NextSlot, MW!NextWord, MW!Goto, WS!PutLabels
      <4>3. CASE WalletSend(W0)
        BY <1>0, <4>3 DEF WalletSend, WS!Put, WS!PutLoadIn, WS!PutFull, WS!PutRoom,
           WS!PutCopy, WS!PutSet, WS!PutLabels
      <4> QED
        BY <2>2, <4>1, <4>2, <4>3 DEF WalletStep
    <3> QED
      BY <1>1, <1>4, <3>1, <3>2, FlowTypes DEF QueueStays, FlowOver, ServerHas, WalletHas
  <2> QED
    BY <2>1, <2>2
<1> QED
  BY <1>2, <1>3, <1>4

(* The server has a transaction only when it takes it from the ring, and   *)
(* writes one line at most for it.                                         *)
LEMMA ServerKeepsFlow ==
  ASSUME NWallets = 1, NServers = 1, TypeOK, Fresh, HandOver, NEW n \in Int,
         FlowOver(n), ServerStep(S0)
  PROVE  FlowOver(n)'
<1> USE DEF flags, money, stats, mw, ws, sm, ledger, local, mainVar, Goto
<1>0. /\ pc \in [Procs -> MainLabels \cup WalletLabels \cup ServerLabels]
      /\ W0 \in Procs /\ S0 \in Procs /\ W0 # S0 /\ S0 \in ServerProcs
      /\ tx \in [Procs -> Tx] /\ Id(S0) = 0
  BY OneOfEach DEF TypeOK, DataOK, LabelsOK
<1>1. /\ WalletHas' = WalletHas /\ wallets_stats' = wallets_stats
      /\ terminate' = terminate
  BY <1>0, ServerIsLocal DEF WalletHas
<1> USE DEF Transferring
<1>2. CASE ServerRead(S0)
  <2> USE DEF WS!shared, WS!Goto
  <2>1. ledger_lines' = ledger_lines /\ ServerHas = 0
    BY <1>2 DEF ServerRead, WS!Get, WS!GetLoadIn, WS!GetEmpty, WS!GetSome, WS!GetCopy,
       WS!GetSet, ServerHas
  <2>2. CASE WS!GetSet(S0)
    <3>1. ServerTakes
      BY <1>0, <2>2, QueueSteps, ServerIsLocal
      DEF QueueStays, WalletStores, WS!PutSet, WS!Goto, Next
    <3> QED
      BY <1>1, <2>1, <3>1, FlowTypes DEF ServerTakes, FlowOver, ServerHas, WalletHas
  <2>3. CASE WS!GetEmpty(S0)
    <3>1. ServerHas' = 0
      <4>1. tx'[S0].id = NoTx /\ pc'[S0] = "got"
        BY <1>0, <2>3, SameWords DEF WS!GetEmpty, Tx
      <4> QED
        BY <4>1 DEF ServerHas
    <3>2. WS!Held' = WS!Held
      BY <2>3 DEF WS!GetEmpty, WS!Held
    <3> QED
      BY <1>1, <2>1, <3>1, <3>2, FlowTypes DEF FlowOver, WalletHas
  <2>4. CASE WS!GetLoadIn(S0) \/ WS!GetSome(S0) \/ WS!GetCopy(S0)
    <3>1. ServerHas' = 0
      BY <1>0, <2>4 DEF WS!GetLoadIn, WS!GetSome, WS!GetCopy, WS!NextWord, ServerHas
    <3>2. WS!Held' = WS!Held
      BY <2>4 DEF WS!GetLoadIn, WS!GetSome, WS!GetCopy, WS!Held
    <3> QED
      BY <1>1, <2>1, <3>1, <3>2, FlowTypes DEF FlowOver, WalletHas
  <2> QED
    BY <1>2, <2>2, <2>3, <2>4 DEF ServerRead, WS!Get
<1>3. CASE ~ServerRead(S0)
  <2>1. WS!Held' = WS!Held
    BY <1>3 DEF ServerStep, ServerReceive, ServerExit, ServerIdle, ServerReject,
       ServerAccept, LoadDest, StoreDest, LoadSrc, StoreSrc, ServerSign, WriteLedger,
       LedgerFails, ServerSend, WS!Held
  <2>2. CASE WriteLedger(S0)
    <3>1. /\ ServerHas = 1 /\ ServerHas' = 0
          /\ ledger_lines'[0] = ledger_lines[0] + 1
      BY <1>0, <2>2, FlowTypes DEF WriteLedger, ServerHas
    <3> QED
      BY <1>1, <2>1, <3>1, FlowTypes DEF FlowOver, WalletHas
  <2>3. CASE ~WriteLedger(S0)
    <3>1. ledger_lines' = ledger_lines
      BY <1>3, <2>3 DEF ServerStep, ServerReceive, ServerExit, ServerIdle, ServerReject,
         ServerAccept, LoadDest, StoreDest, LoadSrc, StoreSrc, ServerSign,
         LedgerFails, ServerSend
    <3>2. ServerHas' <= ServerHas
      <4>1. CASE ServerSend(S0)
        <5>1. pc'[S0] \in {"w_flag", "w_mark", "w_copy", "top"}
          BY <1>0, <4>1 DEF ServerSend, SM!Write, SM!WriteSkip, SM!WriteFound,
             SM!WriteMark, SM!WriteCopy, SM!NextSlot, SM!NextWord, SM!Goto
        <5> QED
          BY <5>1 DEF ServerHas
      <4>2. CASE ~ServerSend(S0)
        BY <1>0, <1>1, <1>3, <2>3, <4>2 DEF ServerStep, ServerReceive, ServerExit,
           ServerIdle, ServerReject, ServerAccept, LoadDest, StoreDest, LoadSrc,
           StoreSrc, ServerSign, LedgerFails, ServerHas
      <4> QED
        BY <4>1, <4>2
    <3> QED
      BY <1>1, <2>1, <3>1, <3>2, FlowTypes DEF FlowOver, WalletHas, ServerHas
  <2> QED
    BY <2>2, <2>3
<1> QED
  BY <1>2, <1>3

(* main hands nothing to them by way of the ring.                          *)
LEMMA NextFlow ==
  ASSUME NWallets = 1, NServers = 1, TypeOK, Fresh, HandOver, NEW n \in Int,
         FlowOver(n), [Next]_vars
  PROVE  FlowOver(n)'
<1>0. WalletProcs = {W0} /\ ServerProcs = {S0} /\ W0 \in Children /\ S0 \in Children
  BY OneOfEach
<1>1. CASE MainStep \/ UserCommand
  <2>1. /\ \A c \in {W0, S0} :
             /\ pc'[c] = pc[c] \/ pc'[c] \in {"top", "reaped"}
             /\ tx'[c] = tx[c]
        /\ terminate' \in {terminate, 1}
        /\ UNCHANGED <<ws_in, ws_out, wallets_stats, ledger_lines>>
    BY <1>0, <1>1, MainIsLocal DEF ws, stats, ledger
  <2>2. ServerHas' <= ServerHas /\ WalletHas' <= WalletHas /\ WS!Held' = WS!Held
    BY <2>1 DEF ServerHas, WalletHas, Transferring, WS!PutLabels, WS!Held
  <2> QED
    BY <2>1, <2>2, FlowTypes DEF FlowOver, ServerHas, WalletHas
<1>2. CASE UNCHANGED vars
  BY <1>2 DEF vars, local, flags, ws, stats, ledger, FlowOver, ServerHas, WalletHas, WS!Held
<1> QED
  BY <1>0, <1>1, <1>2, WalletKeepsFlow, ServerKeepsFlow DEF Next, Done

(* The run starts with nothing signed.                                     *)
LEMMA InitFlow ==
  ASSUME NWallets = 1, NServers = 1
  PROVE  Init => Flow
<1>1. Wallets = {0} /\ Servers = {0} /\ W0 \in Procs /\ S0 \in Procs /\ W0 # Main /\ S0 # Main
  BY OneOfEach
<1> QED
  BY <1>1 DEF Init, Flow, FlowOver, ServerHas, WalletHas, WS!Held, Transferring, WS!PutLabels

(* With one wallet and one server no line of ledger.txt is written for a   *)
(* transaction that the wallet did not sign, nor a second one for it       *)
(* (memory.c:87-145, server.c:54-84).                                      *)
THEOREM NoneProcessedTwice == Spec => []ProcessedWithinSigned
<1>1. CASE NWallets = 1 /\ NServers = 1
  <2>1. Init => HandOver /\ Flow
    BY <1>1, InitHandOver, InitFlow
  <2>2. TypeOK /\ Fresh /\ HandOver /\ Flow /\ [Next]_vars => HandOver' /\ Flow'
    BY <1>1, NextHandOver, NextFlow DEF Flow
  <2>3. TypeOK /\ Flow => ProcessedWithinSigned
    BY <1>1, FlowTypes DEF Flow, FlowOver, ServerHas, WalletHas,
       ProcessedWithinSigned
  <2> QED
    BY <2>1, <2>2, <2>3, InitFresh, NextFresh, SOchainTyped, PTL DEF Spec
<1>2. CASE ~(NWallets = 1 /\ NServers = 1)
  <2>1. ProcessedWithinSigned
    BY <1>2 DEF ProcessedWithinSigned
  <2> QED
    BY <2>1, PTL
<1> QED
  BY <1>1, <1>2
==============================================================================
