----------------------------- MODULE BooksProofs -----------------------------
(***************************************************************************)
(* With a single server the balances and the ledger agree, and the program *)
(* is the bank of Bank.tla, for every number of wallets, whatever these do *)
(* to the buffers and whatever the user types.  The run lost_update shows  *)
(* that two servers break it.                                              *)
(***************************************************************************)
EXTENDS SOchainProofs

(* Where a transaction has moved some money and is not in the ledger yet,  *)
(* or has loaded a balance it is about to store.                           *)
Midway == {"store_dest", "load_src", "store_src", "sign", "ledger"}

(* The server is launched after every wallet has been given its balance.   *)
(* From then on a balance is ahead of the ledger by what the transaction   *)
(* in progress has moved, and the balance in the register of the server is *)
(* the one in memory: nobody else stores balances.  The books need not be  *)
(* those of ledger.txt: net is what a ledger moves that misses no line.    *)
BooksOf(net) ==
  /\ pc[Main] = "create" /\ idx[Main] <= NWallets
       => pc[S0] = "unborn" /\ net = [w \in Wallets |-> 0]
  /\ \A w \in Wallets :
       Launched(w) => balances[w] = InitBalance + net[w] + Paid(w)
  /\ pc[S0] = "store_dest" => reg[0] = balances[tx[S0].dest_id]
  /\ pc[S0] = "store_src"  => reg[0] = balances[tx[S0].src_id]

Books == BooksOf(ledger_net)

-----------------------------------------------------------------------------
(* A step that moves no money, after the launch or of a child, and either  *)
(* leaves the server alone or finds and leaves it with nothing in progress.*)
LEMMA BooksKept ==
  ASSUME NEW n, BooksOf(n), UNCHANGED <<balances, reg>>,
         \/ pc'[S0] = pc[S0] /\ tx'[S0] = tx[S0]
         \/ pc[S0] \notin Midway \cup {"unborn"} /\ pc'[S0] \notin Midway,
         \/ pc'[Main] = pc[Main] /\ idx'[Main] = idx[Main]
         \/ pc[Main] # "create" /\ pc'[Main] # "create"
  PROVE  BooksOf(n)'
<1>1. \A w \in Wallets : Paid(w)' = Paid(w) /\ (Launched(w)' => Launched(w))
  BY DEF Paid, Launched, Midway
<1> QED
  BY <1>1 DEF BooksOf, Midway

(* Each turn of create_processes gives a wallet its balance, or launches   *)
(* the server once all have one.                                           *)
LEMMA LaunchKeepsBooks ==
  ASSUME TypeOK, NServers = 1, NEW n \in [Wallets -> Int], BooksOf(n),
         Launch \/ LaunchFails
  PROVE  BooksOf(n)'
<1> DEFINE k == idx[Main]
<1>0. /\ Main \in Procs /\ S0 \in Procs /\ S0 # Main
      /\ NWallets \in Nat \ {0} /\ NChildren = NWallets + 1
      /\ pc[Main] = "create" /\ k \in 0 .. NWallets
      /\ pc \in [Procs -> MainLabels \cup WalletLabels \cup ServerLabels]
      /\ idx \in [Procs -> Nat] /\ balances \in [Wallets -> Int]
  <2>1. pc[Main] = "create"
    BY DEF Launch, LaunchFails
  <2>2. NWallets \in Nat \ {0} /\ NChildren = NWallets + 1
    BY SizesAssumption DEF NChildren
  <2> QED
    BY <2>1, <2>2, ProcKinds
    DEF TypeOK, DataOK, LabelsOK, IndexesOK, Procs, Children, ServerProcs, Servers, S0
<1>1. UNCHANGED <<reg, tx>>
  BY DEF Launch, LaunchFails, money, local
<1>2. pc[S0] = "unborn" /\ \A w \in Wallets : n[w] = 0 /\ Paid(w) = 0
  BY <1>0 DEF BooksOf, Paid
<1>3. CASE k < NWallets
  <2>1. ChildAt(k) # S0
    BY <1>3 DEF ChildAt, S0
  <2>2. /\ pc'[Main] = "create" /\ pc'[S0] = "unborn" /\ idx'[Main] = k + 1
        /\ balances' = [balances EXCEPT ![k] = InitBalance]
    BY <1>0, <1>2, <1>3, <2>1 DEF Launch, LaunchFails, NextChild, SetBalance
  <2>3. \A w \in Wallets : Paid(w)' = 0
    BY <1>1, <1>2, <2>2 DEF Paid
  <2>4. \A w \in Wallets : Launched(w)' => w = k \/ Launched(w)
    BY <1>0, <2>2 DEF Launched, Wallets
  <2>5. \A w \in Wallets : Launched(w)' => balances'[w] = InitBalance
    BY <1>0, <1>2, <2>2, <2>4, ArgsAssumption DEF BooksOf
  <2> QED
    BY <1>0, <1>1, <2>2, <2>3, <2>5, ArgsAssumption DEF BooksOf
<1>4. CASE k = NWallets
  <2>1. pc'[Main] = "prompt" /\ pc'[S0] \in {"unborn", "top"} /\ balances' = balances
    BY <1>0, <1>2, <1>4 DEF Launch, LaunchFails, NextChild, SetBalance
  <2>2. \A w \in Wallets : Launched(w) /\ Paid(w)' = 0
    BY <1>0, <1>4, <2>1 DEF Launched, Wallets, Paid
  <2> QED
    BY <1>0, <1>1, <1>2, <2>1, <2>2 DEF BooksOf
<1> QED
  BY <1>0, <1>3, <1>4

(* The only server loads, adds and stores, twice, then writes its line, or *)
(* goes on without it when the ledger does not open (server.c:55-107).     *)
LEMMA ServerKeepsBooks ==
  ASSUME TypeOK, NServers = 1, NEW n \in [Wallets -> Int], BooksOf(n), ServerStep(S0),
         NEW m \in [Wallets -> Int],
         \A w \in Wallets :
           m[w] = n[w] + (IF pc[S0] = "ledger" THEN NetOf(tx[S0], w) ELSE 0)
  PROVE  BooksOf(m)'
<1> USE DEF flags, money, stats, mw, ws, sm, ledger, local, mainVar, Goto
<1>0. /\ S0 \in ServerProcs /\ S0 \in Procs /\ S0 # Main /\ Id(S0) = 0 /\ 0 \in Servers
      /\ tx[S0] \in Tx
  BY ProcKinds DEF TypeOK, DataOK, ServerProcs, Servers, S0, Id
<1>1. /\ pc[S0] # "unborn" /\ pc'[Main] = pc[Main] /\ idx'[Main] = idx[Main]
  BY <1>0, ServerIsLocal, ProcKinds
<1>2. /\ tx[S0].dest_id \in Wallets /\ tx[S0].src_id \in Wallets
      /\ tx[S0].amount \in Int
      /\ balances \in [Wallets -> Int]
      /\ reg \in [Servers -> Int] /\ tx \in [Procs -> Tx]
      /\ pc \in [Procs -> MainLabels \cup WalletLabels \cup ServerLabels]
      /\ InitBalance \in Int
  BY <1>0, ArgsAssumption DEF Tx, TypeOK, DataOK, LabelsOK
<1>3. \A w \in Wallets : Launched(w) /\ Launched(w)'
  BY <1>1, SizesAssumption, ProcKinds DEF BooksOf, Launched, Wallets, TypeOK, IndexesOK
<1>10. ASSUME pc[S0] # "ledger" PROVE m = n
  BY <1>10
<1>4. CASE \/ ServerReceive(S0) \/ ServerExit(S0) \/ ServerIdle(S0)
           \/ ServerReject(S0) \/ ServerAccept(S0)
  <2>1. pc'[S0] \notin Midway /\ pc[S0] \notin Midway
        /\ UNCHANGED <<balances, reg>>
    BY <1>0, <1>2, <1>4
    DEF ServerReceive, ServerExit, ServerIdle, ServerReject, ServerAccept, Midway
  <2> QED
    BY <1>1, <1>10, <2>1, BooksKept DEF Midway
<1>5. CASE ServerRead(S0) \/ ServerSend(S0)
  <2>1. pc'[S0] \notin Midway /\ pc[S0] \notin Midway
    <3>1. CASE ServerRead(S0)
      BY <1>0, <1>2, <3>1 DEF ServerRead, WS!Get, WS!GetLoadIn, WS!GetEmpty,
         WS!GetSome, WS!GetCopy, WS!GetSet, WS!NextWord, WS!Goto, Midway
    <3>2. CASE ServerSend(S0)
      BY <1>0, <1>2, <3>2 DEF ServerSend, SM!Write, SM!WriteSkip, SM!WriteFound,
         SM!WriteMark, SM!WriteCopy, SM!NextSlot, SM!NextWord, SM!Goto, Midway
    <3> QED
      BY <1>5, <3>1, <3>2
  <2>2. UNCHANGED <<balances, reg>>
    BY <1>5 DEF ServerRead, ServerSend
  <2> QED
    BY <1>1, <1>10, <2>1, <2>2, BooksKept DEF Midway
<1>6. CASE LoadDest(S0) \/ LoadSrc(S0)
  <2>1. \A w \in Wallets : Paid(w)' = Paid(w)
    BY <1>0, <1>2, <1>6 DEF LoadDest, LoadSrc, Paid
  <2>2. UNCHANGED <<balances, tx>> /\ m = n
    BY <1>6, <1>10 DEF LoadDest, LoadSrc
  <2>3. /\ pc'[S0] = "store_dest" => reg'[0] = balances[tx[S0].dest_id]
        /\ pc'[S0] = "store_src"  => reg'[0] = balances[tx[S0].src_id]
    BY <1>0, <1>2, <1>6 DEF LoadDest, LoadSrc
  <2> QED
    BY <1>1, <1>3, <2>1, <2>2, <2>3 DEF BooksOf
<1>7. CASE StoreDest(S0)
  <2>1. reg[0] = balances[tx[S0].dest_id] /\ pc[S0] = "store_dest" /\ pc'[S0] = "load_src"
        /\ tx' = tx /\ m = n
    BY <1>0, <1>2, <1>7, <1>10 DEF StoreDest, BooksOf
  <2>2. \A w \in Wallets : balances'[w] =
          balances[w] + (IF tx[S0].dest_id = w THEN tx[S0].amount ELSE 0)
    BY <1>0, <1>2, <1>7, <2>1 DEF StoreDest
  <2>3. \A w \in Wallets :
          /\ Paid(w) = 0
          /\ Paid(w)' = IF tx[S0].dest_id = w THEN tx[S0].amount ELSE 0
    BY <1>2, <2>1 DEF Paid
  <2>4. \A w \in Wallets : balances[w] = InitBalance + n[w]
    BY <1>2, <1>3, <2>3 DEF BooksOf
  <2>5. \A w \in Wallets : balances'[w] = InitBalance + m[w] + Paid(w)'
    BY <1>2, <2>1, <2>2, <2>3, <2>4
  <2> QED
    BY <1>1, <1>3, <2>1, <2>5 DEF BooksOf
<1>8. CASE StoreSrc(S0)
  <2>1. reg[0] = balances[tx[S0].src_id] /\ pc[S0] = "store_src" /\ pc'[S0] = "sign"
        /\ tx' = tx /\ m = n
    BY <1>0, <1>2, <1>8, <1>10 DEF StoreSrc, BooksOf
  <2>2. \A w \in Wallets : balances'[w] =
          balances[w] - (IF tx[S0].src_id = w THEN tx[S0].amount ELSE 0)
    BY <1>0, <1>2, <1>8, <2>1 DEF StoreSrc
  <2>3. \A w \in Wallets :
          /\ Paid(w) \in Int
          /\ Paid(w)' = Paid(w) - (IF tx[S0].src_id = w THEN tx[S0].amount ELSE 0)
    BY <1>2, <2>1 DEF Paid
  <2>4. \A w \in Wallets : balances[w] = InitBalance + n[w] + Paid(w)
    BY <1>3 DEF BooksOf
  <2>5. \A w \in Wallets : balances'[w] = InitBalance + m[w] + Paid(w)'
    BY <1>2, <2>1, <2>2, <2>3, <2>4
  <2> QED
    BY <1>1, <1>3, <2>1, <2>5 DEF BooksOf
<1>9. CASE ServerSign(S0)
  <2>1. /\ pc[S0] = "sign" /\ pc'[S0] = "ledger" /\ balances' = balances /\ m = n
        /\ tx'[S0] = [tx[S0] EXCEPT !.server_signature = 0]
    BY <1>0, <1>2, <1>9, <1>10 DEF ServerSign
  <2>2. tx'[S0].dest_id = tx[S0].dest_id /\ tx'[S0].src_id = tx[S0].src_id
        /\ tx'[S0].amount = tx[S0].amount
    BY <1>0, <2>1 DEF Tx
  <2>3. \A w \in Wallets : Paid(w)' = Paid(w)
    BY <2>1, <2>2 DEF Paid
  <2> QED
    BY <1>1, <1>3, <2>1, <2>3 DEF BooksOf
<1>11. CASE WriteLedger(S0) \/ LedgerFails(S0)
  <2>1. /\ pc[S0] = "ledger" /\ pc'[S0] \notin Midway /\ balances' = balances
        /\ \A w \in Wallets : m[w] = n[w] + NetOf(tx[S0], w)
    BY <1>0, <1>2, <1>11 DEF WriteLedger, LedgerFails, Midway
  <2>2. \A w \in Wallets : Paid(w) = NetOf(tx[S0], w) /\ Paid(w) \in Int /\ Paid(w)' = 0
    BY <1>2, <2>1 DEF Paid, NetOf, Midway
  <2>3. \A w \in Wallets : balances'[w] = InitBalance + m[w] + Paid(w)'
    BY <1>2, <1>3, <2>1, <2>2 DEF BooksOf
  <2> QED
    BY <1>1, <1>3, <2>1, <2>3 DEF BooksOf, Midway
<1> QED
  BY <1>4, <1>5, <1>6, <1>7, <1>8, <1>9, <1>11 DEF ServerStep

(* Where the only server goes on without writing its line, or writes it.   *)
Booking == WriteLedger(S0) \/ LedgerFails(S0)

(* No step of any process disturbs the books: a ledger that misses no line *)
(* has one more when the server is where it writes it, and moves what it   *)
(* moved otherwise.                                                        *)
LEMMA StepKeepsBooksOf ==
  ASSUME NServers = 1, TypeOK, [Next]_vars, NEW n \in [Wallets -> Int], BooksOf(n)
  PROVE  \/ BooksOf(n)' /\ ledger_net' = ledger_net
         \/ /\ Booking
            /\ \E m \in [Wallets -> Int] :
                 /\ m = [w \in Wallets |-> n[w] + NetOf(tx[S0], w)]
                 /\ BooksOf(m)'
<1> USE DEF flags, money, stats, mw, ws, sm, ledger, local, mainVar, Goto
<1>0. /\ Main \in Procs /\ S0 \in Procs /\ S0 # Main /\ ServerProcs = {S0}
      /\ S0 \notin WalletProcs
      /\ pc \in [Procs -> MainLabels \cup WalletLabels \cup ServerLabels]
      /\ idx \in [Procs -> Nat] /\ tx \in [Procs -> Tx]
  BY ProcKinds DEF ServerProcs, Servers, S0, TypeOK, LabelsOK, IndexesOK, DataOK
<1>1. ASSUME NEW p \in WalletProcs, WalletStep(p)
      PROVE  BooksOf(n)' /\ ledger_net' = ledger_net
  <2>1. pc'[S0] = pc[S0] /\ tx'[S0] = tx[S0] /\ pc'[Main] = pc[Main]
    BY <1>0, <1>1, WalletIsLocal, ProcKinds
  <2> QED
    BY <1>1, <2>1, WalletIsLocal, BooksKept
<1>2. CASE ServerStep(S0) /\ ~Booking
  <2>1. pc[S0] # "ledger" /\ ledger_net' = ledger_net
    BY <1>2 DEF Booking, ServerStep, ServerReceive, ServerRead, ServerExit, ServerIdle,
       ServerReject, ServerAccept, LoadDest, StoreDest, LoadSrc, StoreSrc, ServerSign,
       ServerSend, WS!Get, WS!GetLoadIn, WS!GetEmpty, WS!GetSome, WS!GetCopy, WS!GetSet,
       SM!Write, SM!WriteSkip, SM!WriteFound, SM!WriteMark, SM!WriteCopy
  <2> QED
    BY <1>2, <2>1, ServerKeepsBooks
<1>3. CASE Booking
  <2> DEFINE m == [w \in Wallets |-> n[w] + NetOf(tx[S0], w)]
  <2>1. pc[S0] = "ledger" /\ ServerStep(S0)
    BY <1>3 DEF Booking, WriteLedger, LedgerFails, ServerStep
  <2>2. \A w \in Wallets : NetOf(tx[S0], w) \in Int
    BY <1>0 DEF NetOf, Tx
  <2>3. PICK k \in [Wallets -> Int] : k = m
    <3>1. \A w \in Wallets : n[w] + NetOf(tx[S0], w) \in Int
      BY <2>2
    <3>2. m \in [Wallets -> Int]
      BY <3>1
    <3> QED
      BY <3>2, Zenon
  <2>4. BooksOf(k)'
    BY <2>1, <2>2, <2>3, ServerKeepsBooks
  <2> QED
    BY <1>3, <2>3, <2>4
<1>4. CASE UNCHANGED vars
  BY <1>4, BooksKept DEF vars
<1>5. CASE Launch \/ LaunchFails
  BY <1>5, LaunchKeepsBooks DEF Launch, LaunchFails
<1>6. CASE CountTransaction \/ ShowReceipt \/ Destroy
  BY <1>0, <1>6, BooksKept DEF CountTransaction, ShowReceipt, Destroy
<1>7. CASE MainWrite
  BY <1>0, <1>7, BooksKept DEF MainWrite, MW!Write, MW!WriteSkip, MW!WriteFound,
     MW!WriteMark, MW!WriteCopy, MW!NextSlot, MW!NextWord, MW!Goto
<1>8. CASE MainRead
  BY <1>0, <1>8, BooksKept DEF MainRead, SM!Read, SM!ReadSkip, SM!ReadMismatch,
     SM!ReadFound, SM!ReadMatch, SM!ReadCopy, SM!ReadFree, SM!PassSlot, SM!NextSlot,
     SM!NextWord, SM!Goto
<1>9. CASE ReapNone
  BY <1>0, <1>9, BooksKept DEF ReapNone, NextChild
<1>10. CASE \E c \in Children : Reap(c)
  BY <1>0, <1>10, BooksKept DEF Reap, Midway
<1>11. CASE UserCommand
  BY <1>0, <1>11, BooksKept
  DEF UserCommand, CreateTransaction, AskReceipt, EndExecution
<1> QED
  BY <1>0, <1>1, <1>2, <1>3, <1>4, <1>5, <1>6, <1>7, <1>8, <1>9, <1>10, <1>11
  DEF Next, MainStep, Done

(* With a ledger that opens, these books are those of ledger.txt.          *)
LEMMA StepKeepsBooks ==
  ASSUME NServers = 1, ~LedgerMayFail
  PROVE  TypeOK /\ Books /\ [Next]_vars => Books'
<1> SUFFICES ASSUME TypeOK, Books, [Next]_vars PROVE Books'
  OBVIOUS
<1>1. PICK n \in [Wallets -> Int] : n = ledger_net
  BY DEF TypeOK, DataOK
<1>2. BooksOf(n)
  BY <1>1 DEF Books
<1>3. CASE BooksOf(n)' /\ ledger_net' = ledger_net
  BY <1>1, <1>3 DEF Books, BooksOf
<1>4. ASSUME Booking,
             NEW m \in [Wallets -> Int], m = [w \in Wallets |-> n[w] + NetOf(tx[S0], w)],
             BooksOf(m)'
      PROVE  Books'
  <2>1. ledger_net' = m
    BY <1>1, <1>4 DEF Booking, LedgerFails, WriteLedger
  <2> QED
    BY <1>4, <2>1 DEF Books, BooksOf
<1> QED
  BY <1>2, <1>3, <1>4, StepKeepsBooksOf

(* The books are empty before the launch.                                  *)
LEMMA InitBooks == Init => Books
  BY ProcKinds, SizesAssumption
  DEF Init, Books, BooksOf, Launched, Paid, S0, Wallets, ServerProcs, Servers, Procs, Children

(* Between two transactions nothing is paid that is not booked.            *)
LEMMA BooksUsed == TypeOK /\ Books => BooksBalance
<1> SUFFICES ASSUME TypeOK, Books, \A p \in ServerProcs : pc[p] \notin Transferring,
                    NEW w \in Wallets, Launched(w)
             PROVE  balances[w] = InitBalance + ledger_net[w]
  BY DEF BooksBalance
<1>1. pc[S0] \notin Transferring
  BY SizesAssumption DEF ServerProcs, Servers, S0
<1>2. Paid(w) = 0
  BY <1>1 DEF Paid, Transferring
<1> QED
  BY <1>2, ArgsAssumption DEF Books, BooksOf, TypeOK, DataOK

(* With one server, whenever it is not in the middle of a transaction each *)
(* balance is the initial one plus what the ledger's lines move, however   *)
(* torn, repeated or lost the transactions it read (server.c:55-80), as    *)
(* long as the ledger can be opened (server.c:95).                         *)
THEOREM OneServerBooksBalance ==
  ASSUME NServers = 1, ~LedgerMayFail
  PROVE  Spec => []BooksBalance
  BY InitBooks, BooksUsed, StepKeepsBooks, SOchainTyped, PTL DEF Spec

-----------------------------------------------------------------------------
(* The money there is. *)

(* The books of a ledger that misses no line move nothing in or out.  Each *)
(* balance is then as far from the initial one as all the others together. *)
Money == \E n \in [Wallets -> Int] : BooksOf(n) /\ SumOf(n, Wallets) = 0

(* The wallets can be counted.                                             *)
LEMMA WalletsAreFinite == IsFiniteSet(Wallets) /\ Cardinality(Wallets) = NWallets
  BY SizesAssumption, FS_Interval DEF Wallets

(* Nothing was moved before the launch.                                    *)
LEMMA InitMoney == Init => Money
<1> SUFFICES ASSUME Init PROVE Money
  OBVIOUS
<1>1. PICK n \in [Wallets -> Int] : n = [w \in Wallets |-> 0]
  BY [w \in Wallets |-> 0] \in [Wallets -> Int], Zenon
<1>2. BooksOf(n)
  BY <1>1, InitBooks DEF Init, Books
<1>3. SumOf(n, Wallets) = 0
  BY <1>1, WalletsAreFinite, SumOfZeros
<1> QED
  BY <1>2, <1>3 DEF Money

(* A line moves from one wallet what it moves to another, or would have if *)
(* the ledger had opened.                                                  *)
LEMMA StepKeepsMoney ==
  ASSUME NServers = 1, TypeOK, Money, [Next]_vars
  PROVE  Money'
<1>1. PICK n \in [Wallets -> Int] : BooksOf(n) /\ SumOf(n, Wallets) = 0
  BY DEF Money
<1>2. CASE BooksOf(n)'
  BY <1>1, <1>2 DEF Money
<1>3. ASSUME NEW m \in [Wallets -> Int], m = [w \in Wallets |-> n[w] + NetOf(tx[S0], w)],
             BooksOf(m)'
      PROVE  Money'
  <2>1. tx[S0] \in Tx
    BY SizesAssumption DEF TypeOK, DataOK, S0, Procs, Children, ServerProcs, Servers
  <2> DEFINE to == tx[S0].dest_id
             from == tx[S0].src_id
             a == tx[S0].amount
  <2>2. to \in Wallets /\ from \in Wallets /\ a \in Int
    BY <2>1 DEF Tx
  <2>3. Transferred(n, m, Wallets, from, to, a)
    BY <1>3, <2>2 DEF NetOf, Transferred
  <2> HIDE DEF to, from, a
  <2>4. SumOf(m, Wallets) = SumOf(n, Wallets)
    BY <2>2, <2>3, WalletsAreFinite, SumMoves
  <2> QED
    BY <1>1, <1>3, <2>4 DEF Money
<1> QED
  BY <1>1, <1>2, <1>3, StepKeepsBooksOf

(* Between two transactions all of it is in the balances.                  *)
LEMMA MoneyUsed == NServers = 1 /\ TypeOK /\ Money => MoneyConserved
<1> SUFFICES ASSUME NServers = 1, TypeOK, Money, pc[Main] # "create",
                    \A p \in ServerProcs : pc[p] \notin Transferring
             PROVE  SumOf(balances, Wallets) = NWallets * InitBalance
  BY DEF MoneyConserved, SumOf
<1>1. PICK n \in [Wallets -> Int] : BooksOf(n) /\ SumOf(n, Wallets) = 0
  BY DEF Money
<1>2. pc[S0] \notin Transferring
  BY SizesAssumption DEF ServerProcs, Servers, S0
<1>3. \A w \in Wallets : n[w] \in Int /\ balances[w] = InitBalance + n[w]
  <2>1. \A w \in Wallets : Launched(w) /\ Paid(w) = 0
    BY <1>2 DEF Launched, Paid, Transferring
  <2> QED
    BY <1>1, <2>1, ArgsAssumption DEF BooksOf
<1>4. InitBalance \in Int
  BY ArgsAssumption
<1>5. SumOf(balances, Wallets) = Cardinality(Wallets) * InitBalance + SumOf(n, Wallets)
  BY <1>3, <1>4, WalletsAreFinite, SumShift
<1>6. NWallets * InitBalance \in Int
  BY <1>4, SizesAssumption
<1> QED
  BY <1>1, <1>5, <1>6, WalletsAreFinite

(* With one server no money is made or lost, for every number of wallets   *)
(* and whatever they do to the transactions of one another: between two    *)
(* transactions the balances add up to what create_processes gave, also    *)
(* when lines are missing because the ledger did not open (server.c:55-78, *)
(* 95; main.c:131-143).                                                    *)
THEOREM OneServerConservesMoney ==
  ASSUME NServers = 1
  PROVE  Spec => []MoneyConserved
<1>1. TypeOK /\ Money /\ [Next]_vars => Money'
  BY StepKeepsMoney
<1>2. TypeOK /\ Money => MoneyConserved
  BY MoneyUsed
<1> QED
  BY InitMoney, <1>1, <1>2, SOchainTyped, PTL DEF Spec

-----------------------------------------------------------------------------
(* What the transactions order, wherever they are. *)

(* However torn, each transaction orders what the user typed, or nothing.  *)
Ordered ==
  /\ \A i \in Slots : /\ OrderOf(mw_buffer[i]) \in Orders
                      /\ OrderOf(ws_buffer[i]) \in Orders
                      /\ OrderOf(sm_buffer[i]) \in Orders
  /\ \A p \in Procs : OrderOf(tx[p]) \in Orders

(* The order travels in one word: no copy mixes two of them.               *)
LEMMA OrderOfCopy ==
  ASSUME NEW to, NEW from, NEW k \in 1 .. Words,
         OrderOf(to) \in Orders, OrderOf(from) \in Orders
  PROVE  OrderOf(CopyWord(to, from, k)) \in Orders
<1>1. OrderOf(CopyWord(to, from, k)) = IF k = 2 THEN OrderOf(from) ELSE OrderOf(to)
  BY DEF OrderOf, CopyWord
<1> QED
  BY <1>1

(* A new slot and an unassigned transaction order nothing; setting an id   *)
(* or a signature changes no order.                                        *)
LEMMA OrderOfOthers ==
  /\ OrderOf(ZeroTx) \in Orders /\ OrderOf(IndeterminateTx) \in Orders
  /\ \A t \in Tx, i \in Int : /\ OrderOf([t EXCEPT !.id = i]) = OrderOf(t)
                             /\ OrderOf([t EXCEPT !.wallet_signature = i]) = OrderOf(t)
                             /\ OrderOf([t EXCEPT !.server_signature = i]) = OrderOf(t)
  BY DEF OrderOf, ZeroTx, IndeterminateTx, Orders, Tx

(* A step that gives one process another transaction, ordered too.         *)
LEMMA HolderKeepsOrdered ==
  ASSUME TypeOK, Ordered, NEW p \in Procs, NEW t, OrderOf(t) \in Orders,
         tx' = [tx EXCEPT ![p] = t], UNCHANGED <<mw_buffer, ws_buffer, sm_buffer>>
  PROVE  Ordered'
  BY DEF Ordered, TypeOK, DataOK

(* A step that touches no transaction.                                     *)
LEMMA OrderedKept ==
  ASSUME Ordered, UNCHANGED <<tx, mw_buffer, ws_buffer, sm_buffer>>
  PROVE  Ordered'
  BY DEF Ordered

(* A wallet.                                                               *)
LEMMA WalletKeepsOrdered ==
  ASSUME TypeOK, Ordered, NEW p \in WalletProcs, WalletStep(p)
  PROVE  Ordered'
<1> USE DEF flags, money, stats, mw, ws, sm, ledger, local, mainVar
<1>0. /\ p \in Procs /\ tx[p] \in Tx /\ idx[p] \in Slots /\ wrd[p] \in 1 .. Words
      /\ tx \in [Procs -> Tx] /\ ws_buffer \in [Slots -> Tx] /\ Id(p) \in Int
      /\ OrderOf(tx[p]) \in Orders
  BY ProcKinds DEF TypeOK, DataOK, IndexesOK, Ordered, Wallets
<1>1. CASE WalletReceive(p) \/ WalletExit(p)
  BY <1>0, <1>1, OrderOfOthers, HolderKeepsOrdered DEF WalletReceive, WalletExit
<1>2. CASE WalletIdle(p)
  BY <1>2, OrderedKept DEF WalletIdle
<1>3. CASE WalletProcess(p)
  <2>1. PICK t : tx' = [tx EXCEPT ![p] = t] /\ OrderOf(t) = OrderOf(tx[p])
    BY <1>0, <1>3, OrderOfOthers DEF WalletProcess
  <2> QED
    BY <1>0, <1>3, <2>1, HolderKeepsOrdered DEF WalletProcess
<1>4. CASE WalletRead(p)
  <2> USE DEF MW!shared
  <2>1. CASE MW!ReadSkip(p) \/ MW!ReadMismatch(p)
    <3>1. MW!PassSlot(p)
      BY <2>1 DEF MW!ReadSkip, MW!ReadMismatch
    <3>2. PICK i \in Int : tx' = [tx EXCEPT ![p] = [tx[p] EXCEPT !.id = i]]
      <4> DEFINE i == IF MW!LastSlot(p) THEN NoTx ELSE tx[p].id
      <4>1. i \in Int
        BY <1>0 DEF Tx, NoTx
      <4>2. tx' = [tx EXCEPT ![p] = [tx[p] EXCEPT !.id = i]]
        BY <3>1, SameWords DEF MW!PassSlot
      <4> QED
        BY <4>1, <4>2
    <3>3. OrderOf([tx[p] EXCEPT !.id = i]) \in Orders
      BY <1>0, OrderOfOthers
    <3>4. UNCHANGED <<mw_buffer, ws_buffer, sm_buffer>>
      BY <1>4, <3>1 DEF WalletRead, MW!PassSlot
    <3> QED
      BY <1>0, <3>2, <3>3, <3>4, HolderKeepsOrdered
  <2>2. CASE MW!ReadCopy(p)
    <3>1. OrderOf(CopyWord(tx[p], mw_buffer[idx[p]], wrd[p])) \in Orders
      BY <1>0, OrderOfCopy DEF Ordered
    <3> QED
      BY <1>0, <1>4, <2>2, <3>1, SameWords, HolderKeepsOrdered DEF WalletRead, MW!ReadCopy
  <2>3. CASE MW!ReadFound(p) \/ MW!ReadMatch(p) \/ MW!ReadFree(p)
    BY <1>4, <2>3, OrderedKept DEF WalletRead, MW!ReadFound, MW!ReadMatch, MW!ReadFree
  <2> QED
    BY <1>4, <2>1, <2>2, <2>3 DEF WalletRead, MW!Read
<1>5. CASE WalletSend(p)
  <2> USE DEF WS!shared
  <2>1. CASE WS!PutCopy(p)
    <3>1. OrderOf(CopyWord(ws_buffer[idx[p]], tx[p], wrd[p])) \in Orders
      BY <1>0, OrderOfCopy DEF Ordered
    <3>2. ws_buffer' = [ws_buffer EXCEPT
                         ![idx[p]] = CopyWord(ws_buffer[idx[p]], tx[p], wrd[p])]
          /\ UNCHANGED <<tx, mw_buffer, sm_buffer>>
      BY <1>0, <1>5, <2>1, SameWords DEF WalletSend, WS!PutCopy
    <3>3. \A i \in Slots : OrderOf(ws_buffer'[i]) \in Orders
      BY <1>0, <3>1, <3>2 DEF Ordered
    <3> QED
      BY <3>2, <3>3 DEF Ordered
  <2>2. CASE WS!PutLoadIn(p) \/ WS!PutFull(p) \/ WS!PutRoom(p) \/ WS!PutSet(p)
    BY <1>5, <2>2, OrderedKept
    DEF WalletSend, WS!PutLoadIn, WS!PutFull, WS!PutRoom, WS!PutSet
  <2> QED
    BY <1>5, <2>1, <2>2 DEF WalletSend, WS!Put
<1> QED
  BY <1>1, <1>2, <1>3, <1>4, <1>5 DEF WalletStep

(* A server.                                                               *)
LEMMA ServerKeepsOrdered ==
  ASSUME TypeOK, Ordered, NEW p \in ServerProcs, ServerStep(p)
  PROVE  Ordered'
<1> USE DEF flags, money, stats, mw, ws, sm, ledger, local, mainVar
<1>0. /\ p \in Procs /\ tx[p] \in Tx /\ idx[p] \in Slots /\ wrd[p] \in 1 .. Words
      /\ tx \in [Procs -> Tx] /\ sm_buffer \in [Slots -> Tx] /\ Id(p) \in Int
      /\ OrderOf(tx[p]) \in Orders
  BY ProcKinds DEF TypeOK, DataOK, IndexesOK, Ordered, Servers
<1>1. CASE ServerReceive(p) \/ ServerExit(p)
  BY <1>0, <1>1, OrderOfOthers, HolderKeepsOrdered DEF ServerReceive, ServerExit
<1>2. CASE \/ ServerIdle(p) \/ ServerReject(p) \/ ServerAccept(p) \/ LoadDest(p)
           \/ StoreDest(p) \/ LoadSrc(p) \/ StoreSrc(p) \/ WriteLedger(p)
           \/ LedgerFails(p)
  BY <1>2, OrderedKept DEF ServerIdle, ServerReject, ServerAccept, LoadDest, StoreDest,
     LoadSrc, StoreSrc, WriteLedger, LedgerFails
<1>3. CASE ServerSign(p)
  <2>1. /\ tx' = [tx EXCEPT ![p] = [tx[p] EXCEPT !.server_signature = Id(p)]]
        /\ UNCHANGED <<mw_buffer, ws_buffer, sm_buffer>>
    BY <1>3 DEF ServerSign
  <2>2. OrderOf([tx[p] EXCEPT !.server_signature = Id(p)]) \in Orders
    BY <1>0, OrderOfOthers
  <2> QED
    BY <1>0, <2>1, <2>2, HolderKeepsOrdered
<1>4. CASE ServerRead(p)
  <2> USE DEF WS!shared
  <2>1. CASE WS!GetEmpty(p)
    <3>1. tx' = [tx EXCEPT ![p] = [tx[p] EXCEPT !.id = NoTx]] /\ NoTx \in Int
      BY <2>1, SameWords DEF WS!GetEmpty, NoTx
    <3>2. OrderOf([tx[p] EXCEPT !.id = NoTx]) \in Orders
      BY <1>0, <3>1, OrderOfOthers
    <3>3. UNCHANGED <<mw_buffer, ws_buffer, sm_buffer>>
      BY <1>4, <2>1 DEF ServerRead, WS!GetEmpty
    <3> QED
      BY <1>0, <3>1, <3>2, <3>3, HolderKeepsOrdered
  <2>2. CASE WS!GetCopy(p)
    <3>1. OrderOf(CopyWord(tx[p], ws_buffer[idx[p]], wrd[p])) \in Orders
      BY <1>0, OrderOfCopy DEF Ordered
    <3> QED
      BY <1>0, <1>4, <2>2, <3>1, SameWords, HolderKeepsOrdered DEF ServerRead, WS!GetCopy
  <2>3. CASE WS!GetLoadIn(p) \/ WS!GetSome(p) \/ WS!GetSet(p)
    BY <1>4, <2>3, OrderedKept DEF ServerRead, WS!GetLoadIn, WS!GetSome, WS!GetSet
  <2> QED
    BY <1>4, <2>1, <2>2, <2>3 DEF ServerRead, WS!Get
<1>5. CASE ServerSend(p)
  <2> USE DEF SM!shared
  <2>1. CASE SM!WriteCopy(p)
    <3>1. OrderOf(CopyWord(sm_buffer[idx[p]], tx[p], wrd[p])) \in Orders
      BY <1>0, OrderOfCopy DEF Ordered
    <3>2. sm_buffer' = [sm_buffer EXCEPT
                         ![idx[p]] = CopyWord(sm_buffer[idx[p]], tx[p], wrd[p])]
          /\ UNCHANGED <<tx, mw_buffer, ws_buffer>>
      BY <1>0, <1>5, <2>1, SameWords DEF ServerSend, SM!WriteCopy
    <3>3. \A i \in Slots : OrderOf(sm_buffer'[i]) \in Orders
      BY <1>0, <3>1, <3>2 DEF Ordered
    <3> QED
      BY <3>2, <3>3 DEF Ordered
  <2>2. CASE SM!WriteSkip(p) \/ SM!WriteFound(p) \/ SM!WriteMark(p)
    BY <1>5, <2>2, OrderedKept DEF ServerSend, SM!WriteSkip, SM!WriteFound, SM!WriteMark
  <2> QED
    BY <1>5, <2>1, <2>2 DEF ServerSend, SM!Write
<1> QED
  BY <1>1, <1>2, <1>3, <1>4, <1>5 DEF ServerStep

(* main: what it creates was typed; a receipt it reads was ordered.        *)
LEMMA MainKeepsOrdered ==
  ASSUME TypeOK, Ordered, MainStep \/ UserCommand
  PROVE  Ordered'
<1> USE DEF flags, money, stats, mw, ws, sm, ledger, local, mainVar
<1>0. /\ Main \in Procs /\ tx[Main] \in Tx /\ wrd[Main] \in 1 .. Words
      /\ pc[Main] \in MainWriting \cup MainReading => idx[Main] \in Slots
      /\ tx \in [Procs -> Tx] /\ mw_buffer \in [Slots -> Tx]
      /\ OrderOf(tx[Main]) \in Orders
  BY ProcKinds DEF TypeOK, DataOK, IndexesOK, Ordered
<1> USE DEF MainWriting, MainReading, MW!WriteLabels, SM!ReadLabels
<1>1. CASE MainWrite
  <2> USE DEF MW!shared
  <2>1. CASE MW!WriteCopy(Main)
    <3>1. idx[Main] \in Slots
      BY <1>0, <2>1 DEF MW!WriteCopy
    <3>2. OrderOf(CopyWord(mw_buffer[idx[Main]], tx[Main], wrd[Main])) \in Orders
      BY <1>0, <3>1, OrderOfCopy DEF Ordered
    <3>3. mw_buffer' = [mw_buffer EXCEPT
                 ![idx[Main]] = CopyWord(mw_buffer[idx[Main]], tx[Main], wrd[Main])]
          /\ UNCHANGED <<tx, ws_buffer, sm_buffer>>
      BY <1>0, <1>1, <2>1, SameWords DEF MainWrite, MW!WriteCopy
    <3>4. \A i \in Slots : OrderOf(mw_buffer'[i]) \in Orders
      BY <1>0, <3>2, <3>3 DEF Ordered
    <3> QED
      BY <3>3, <3>4 DEF Ordered
  <2>2. CASE MW!WriteSkip(Main) \/ MW!WriteFound(Main) \/ MW!WriteMark(Main)
    BY <1>1, <2>2, OrderedKept DEF MainWrite, MW!WriteSkip, MW!WriteFound, MW!WriteMark
  <2> QED
    BY <1>1, <2>1, <2>2 DEF MainWrite, MW!Write
<1>2. CASE MainRead
  <2> USE DEF SM!shared
  <2>1. CASE SM!ReadSkip(Main) \/ SM!ReadMismatch(Main)
    <3>1. SM!PassSlot(Main)
      BY <2>1 DEF SM!ReadSkip, SM!ReadMismatch
    <3>2. PICK i \in Int : tx' = [tx EXCEPT ![Main] = [tx[Main] EXCEPT !.id = i]]
      <4> DEFINE i == IF SM!LastSlot(Main) THEN NoTx ELSE tx[Main].id
      <4>1. i \in Int
        BY <1>0 DEF Tx, NoTx
      <4>2. tx' = [tx EXCEPT ![Main] = [tx[Main] EXCEPT !.id = i]]
        BY <3>1, SameWords DEF SM!PassSlot
      <4> QED
        BY <4>1, <4>2
    <3>3. OrderOf([tx[Main] EXCEPT !.id = i]) \in Orders
      BY <1>0, OrderOfOthers
    <3>4. UNCHANGED <<mw_buffer, ws_buffer, sm_buffer>>
      BY <1>2, <3>1 DEF MainRead, SM!PassSlot
    <3> QED
      BY <1>0, <3>2, <3>3, <3>4, HolderKeepsOrdered
  <2>2. CASE SM!ReadCopy(Main)
    <3>1. idx[Main] \in Slots
      BY <1>0, <2>2 DEF SM!ReadCopy
    <3>2. OrderOf(CopyWord(tx[Main], sm_buffer[idx[Main]], wrd[Main])) \in Orders
      BY <1>0, <3>1, OrderOfCopy DEF Ordered
    <3> QED
      BY <1>0, <1>2, <2>2, <3>2, SameWords, HolderKeepsOrdered DEF MainRead, SM!ReadCopy
  <2>3. CASE SM!ReadFound(Main) \/ SM!ReadMatch(Main) \/ SM!ReadFree(Main)
    BY <1>2, <2>3, OrderedKept DEF MainRead, SM!ReadFound, SM!ReadMatch, SM!ReadFree
  <2> QED
    BY <1>2, <2>1, <2>2, <2>3 DEF MainRead, SM!Read
<1>3. CASE CountTransaction \/ ShowReceipt
  BY <1>0, <1>3, OrderOfOthers, HolderKeepsOrdered DEF CountTransaction, ShowReceipt
<1>4. CASE \/ Launch \/ LaunchFails \/ ReapNone \/ Destroy \/ EndExecution
           \/ (\E c \in Children : Reap(c)) \/ (\E id \in RcpIds : AskReceipt(id))
  BY <1>4, OrderedKept DEF Launch, LaunchFails, ReapNone, Destroy, EndExecution, Reap,
     AskReceipt
<1>5. ASSUME NEW t \in Transfers, CreateTransaction(t[1], t[2], t[3]) PROVE Ordered'
  <2>1. t \in Int \X Int \X Int /\ t[1] \in Wallets /\ t[2] \in Wallets
    BY <1>5, InputsAssumption DEF CreateTransaction, Accepted
  <2>2. t \in Transfers \cap (Wallets \X Wallets \X Int)
    BY <2>1
  <2>3. <<t[2], t[3]>> \in Orders
    BY <2>2 DEF Orders
  <2>4. PICK ws_sig \in Residue, ss_sig \in Residue :
          tx' = [tx EXCEPT ![Main] =
                  [id |-> tx_counter, src_id |-> t[1], dest_id |-> t[2],
                   amount |-> t[3], wallet_signature |-> ws_sig,
                   server_signature |-> ss_sig]]
    BY <1>5 DEF CreateTransaction
  <2> DEFINE u == [id |-> tx_counter, src_id |-> t[1], dest_id |-> t[2],
                   amount |-> t[3], wallet_signature |-> ws_sig,
                   server_signature |-> ss_sig]
  <2>5. OrderOf(u) \in Orders
    BY <2>3 DEF OrderOf
  <2>6. tx' = [tx EXCEPT ![Main] = u] /\ UNCHANGED <<mw_buffer, ws_buffer, sm_buffer>>
    BY <1>5, <2>4 DEF CreateTransaction
  <2> HIDE DEF u
  <2> QED
    BY <1>0, <2>5, <2>6, HolderKeepsOrdered
<1> QED
  BY <1>1, <1>2, <1>3, <1>4, <1>5 DEF MainStep, UserCommand

(* Whatever is torn, nobody ever holds an order that was not typed.        *)
LEMMA NextOrdered == TypeOK /\ Ordered /\ [Next]_vars => Ordered'
  BY WalletKeepsOrdered, ServerKeepsOrdered, MainKeepsOrdered, OrderedKept
  DEF Next, Done, vars, mw, ws, sm, local

(* New segments and stacks order nothing.                                  *)
LEMMA InitOrdered == Init => Ordered
  BY OrderOfOthers DEF Init, Ordered

(* A step but the showing of a receipt leaves the receipts alone.          *)
LEMMA OnlyShowAddsReceipts ==
  ASSUME TypeOK, [Next]_vars, ~ShowReceipt
  PROVE  receipts' = receipts
<1> USE DEF mainVar
<1>1. CASE MainStep
  BY <1>1 DEF MainStep, Launch, LaunchFails, CountTransaction, ReapNone, Reap, Destroy,
     MainWrite, MainRead
<1>2. CASE UserCommand
  BY <1>2 DEF UserCommand, CreateTransaction, AskReceipt, EndExecution
<1>3. ASSUME NEW p \in ServerProcs, ServerStep(p) PROVE receipts' = receipts
  BY <1>3, ServerIsLocal
<1>4. ASSUME NEW p \in WalletProcs, WalletStep(p) PROVE receipts' = receipts
  BY <1>4, WalletIsLocal
<1> QED
  BY <1>1, <1>2, <1>3, <1>4 DEF Next, Done, vars

(* What main shows is what it holds, ordered like all that anybody holds.  *)
LEMMA StepKeepsReceipts ==
  TypeOK /\ Ordered /\ ReceiptsTyped /\ [Next]_vars => ReceiptsTyped'
<1> SUFFICES ASSUME TypeOK, Ordered, ReceiptsTyped, [Next]_vars
             PROVE  ReceiptsTyped'
  OBVIOUS
<1>1. CASE ShowReceipt
  <2>1. OrderOf(tx[Main]) \in Orders
    BY ProcKinds DEF Ordered
  <2>2. \A r \in receipts' : r \in receipts \/ r.got = tx[Main]
    BY <1>1 DEF ShowReceipt
  <2> QED
    BY <2>1, <2>2 DEF ReceiptsTyped
<1>2. CASE ~ShowReceipt
  BY <1>2, OnlyShowAddsReceipts DEF ReceiptsTyped
<1> QED
  BY <1>1, <1>2

(* Any number of wallets and servers, whatever they tear or read too       *)
(* early: a receipt main shows is of an amount the user typed, to the      *)
(* wallet it was typed for, or of zeros (memory.c:76-158, main.c:296-317). *)
THEOREM ReceiptsOfTypedOrders == Spec => []ReceiptsTyped
<1>1. Init => ReceiptsTyped
  BY DEF Init, ReceiptsTyped
<1> QED
  BY <1>1, InitOrdered, NextOrdered, StepKeepsReceipts, SOchainTyped, PTL DEF Spec

-----------------------------------------------------------------------------
(* Step by step, SOchain is the bank. *)

(* What the bank has on its accounts. *)
BankBalance == [w \in Wallets |-> IF Launched(w) THEN balances[w] - Paid(w) ELSE 0]

(* Between the steps it is the deposit and what was booked.                *)
LEMMA BankBalanceIsBooked ==
  TypeOK /\ Books
    => BankBalance = [w \in Wallets |->
                        IF Launched(w) THEN InitBalance + ledger_net[w] ELSE 0]
<1> SUFFICES ASSUME TypeOK, Books, NEW w \in Wallets, Launched(w)
             PROVE  balances[w] - Paid(w) = InitBalance + ledger_net[w]
  BY DEF BankBalance
<1>1. S0 \in Procs
  BY SizesAssumption DEF S0, Procs, Children, ServerProcs, Servers
<1>2. /\ balances[w] \in Int /\ ledger_net[w] \in Int /\ InitBalance \in Int
      /\ tx[S0].amount \in Int
  BY <1>1, ArgsAssumption DEF TypeOK, DataOK, Tx
<1>3. Paid(w) \in Int
  BY <1>2 DEF Paid
<1> QED
  BY <1>2, <1>3 DEF Books, BooksOf

(* Only the launch of a wallet opens an account.                           *)
LEMMA OnlyLaunchOpens ==
  ASSUME TypeOK, [Next]_vars, ~Launch, ~LaunchFails
  PROVE  \A w \in Wallets : Launched(w)' <=> Launched(w)
<1> USE DEF flags, money, stats, mw, ws, sm, ledger, local, mainVar, Goto
<1>0. /\ Main \in Procs
      /\ pc \in [Procs -> MainLabels \cup WalletLabels \cup ServerLabels]
  BY ProcKinds DEF TypeOK, LabelsOK
<1>2. CASE pc[Main] # "create" /\ pc'[Main] # "create"
  BY <1>2 DEF Launched
<1>3. CASE MainWrite
  BY <1>0, <1>2, <1>3 DEF MainWrite, MW!Write, MW!WriteSkip, MW!WriteFound,
     MW!WriteMark, MW!WriteCopy, MW!NextSlot, MW!NextWord, MW!Goto
<1>4. CASE MainRead
  BY <1>0, <1>2, <1>4 DEF MainRead, SM!Read, SM!ReadSkip, SM!ReadMismatch,
     SM!ReadFound, SM!ReadMatch, SM!ReadCopy, SM!ReadFree, SM!PassSlot, SM!NextSlot,
     SM!NextWord, SM!Goto
<1>5. CASE CountTransaction \/ ShowReceipt \/ Destroy \/ ReapNone
  BY <1>0, <1>2, <1>5 DEF CountTransaction, ShowReceipt, Destroy, ReapNone, NextChild
<1>6. CASE \E c \in Children : Reap(c)
  BY <1>0, <1>2, <1>6, ProcKinds DEF Reap
<1>7. CASE UserCommand
  BY <1>0, <1>2, <1>7 DEF UserCommand, CreateTransaction, AskReceipt, EndExecution
<1>8. CASE UNCHANGED vars
  BY <1>8 DEF vars, Launched
<1>9. ASSUME NEW p \in WalletProcs, WalletStep(p)
      PROVE  \A w \in Wallets : Launched(w)' <=> Launched(w)
  BY <1>9, ProcKinds, WalletIsLocal DEF Launched
<1>10. ASSUME NEW p \in ServerProcs, ServerStep(p)
       PROVE  \A w \in Wallets : Launched(w)' <=> Launched(w)
  BY <1>10, ProcKinds, ServerIsLocal DEF Launched
<1> QED
  BY <1>3, <1>4, <1>5, <1>6, <1>7, <1>8, <1>9, <1>10 DEF Next, MainStep, Done

(* Each turn of create_processes opens the account of one wallet.          *)
LEMMA LaunchIsOpen ==
  ASSUME TypeOK, TypeOK', NServers = 1, Books, Books', Launch \/ LaunchFails
  PROVE  \/ \E a \in Wallets : TheBank!Open(a)
         \/ UNCHANGED TheBank!vars
<1> DEFINE k == idx[Main]
           b == BankBalance
           c == BankBalance'
<1>0. /\ Main \in Procs /\ S0 \in Procs /\ S0 # Main
      /\ NWallets \in Nat \ {0} /\ NChildren = NWallets + 1
      /\ pc[Main] = "create" /\ k \in 0 .. NWallets
      /\ pc \in [Procs -> MainLabels \cup WalletLabels \cup ServerLabels]
      /\ idx \in [Procs -> Nat] /\ InitBalance \in Int
  <2>1. pc[Main] = "create"
    BY DEF Launch, LaunchFails
  <2>2. NWallets \in Nat \ {0} /\ NChildren = NWallets + 1
    BY SizesAssumption DEF NChildren
  <2> QED
    BY <2>1, <2>2, ProcKinds, ArgsAssumption
    DEF TypeOK, DataOK, LabelsOK, IndexesOK, Procs, Children, ServerProcs, Servers, S0
<1>1. ledger_net' = ledger_net /\ \A w \in Wallets : ledger_net[w] = 0
  BY <1>0 DEF Launch, LaunchFails, ledger, Books, BooksOf
<1>2. /\ b = [w \in Wallets |-> IF Launched(w) THEN InitBalance ELSE 0]
      /\ c = [w \in Wallets |-> IF Launched(w)' THEN InitBalance ELSE 0]
  <2>1. b = [w \in Wallets |-> IF Launched(w) THEN InitBalance + ledger_net[w] ELSE 0]
    BY BankBalanceIsBooked
  <2>2. c = [w \in Wallets |-> IF Launched(w)' THEN InitBalance + ledger_net'[w] ELSE 0]
    <3>1. (TypeOK /\ Books)'
            => (BankBalance = [w \in Wallets |->
                        IF Launched(w) THEN InitBalance + ledger_net[w] ELSE 0])'
      BY BankBalanceIsBooked, PTL
    <3> QED
      BY <3>1
  <2> QED
    BY <1>0, <1>1, <2>1, <2>2
<1>3. /\ pc'[Main] = IF k = NWallets THEN "prompt" ELSE "create"
      /\ idx'[Main] = IF k = NWallets THEN 0 ELSE k + 1
  <2>1. CASE Launch
    <3>1. ChildAt(k) # Main
      BY DEF ChildAt, Main
    <3> QED
      BY <1>0, <2>1, <3>1 DEF Launch
  <2>2. CASE LaunchFails
    BY <1>0, <2>2 DEF LaunchFails, NextChild
  <2> QED
    BY <2>1, <2>2
<1> HIDE DEF b, c
<1>4. CASE k = NWallets
  <2>1. \A w \in Wallets : Launched(w) /\ Launched(w)'
    BY <1>0, <1>3, <1>4 DEF Launched, Wallets
  <2>2. c = b
    BY <1>2, <2>1
  <2> QED
    BY <1>1, <2>2 DEF TheBank!vars, b, c, BankBalance
<1>5. CASE k # NWallets
  <2>1. \A w \in Wallets : /\ Launched(w) <=> w < k
                           /\ Launched(w)' <=> w <= k
    BY <1>0, <1>3, <1>5 DEF Launched, Wallets
  <2>2. k \in Wallets /\ b[k] = 0 /\ ledger_net[k] = 0
    BY <1>0, <1>1, <1>2, <1>5, <2>1 DEF Wallets
  <2>3. c = [b EXCEPT ![k] = InitBalance]
    <3>1. \A w \in Wallets : (w <= k) <=> (w = k \/ w < k)
      BY <1>0 DEF Wallets
    <3>2. \A w \in Wallets : c[w] = IF w = k THEN InitBalance ELSE b[w]
      BY <1>2, <2>1, <3>1
    <3> QED
      BY <1>2, <2>2, <3>2
  <2>4. TheBank!Open(k)
    BY <1>1, <2>2, <2>3 DEF TheBank!Open, b, c, BankBalance
  <2>5. \E a \in Wallets : TheBank!Open(a)
    BY <2>2, <2>4 DEF TheBank!Open
  <2> QED
    BY <2>5
<1> QED
  BY <1>4, <1>5

(* The line of the ledger makes the transfer, of an amount that was typed  *)
(* to the wallet it was typed for.                                         *)
LEMMA LineIsTransfer ==
  ASSUME TypeOK, TypeOK', NServers = 1, Books, Books', Ordered, WriteLedger(S0)
  PROVE  \E from \in Wallets, order \in Orders : TheBank!Transfer(from, order)
<1> DEFINE t == tx[S0]
           b == BankBalance
           c == BankBalance'
<1>0. /\ S0 \in ServerProcs /\ S0 \in Procs /\ S0 # Main /\ Main \in Procs
      /\ pc \in [Procs -> MainLabels \cup WalletLabels \cup ServerLabels]
      /\ t.src_id \in Wallets /\ t.dest_id \in Wallets /\ t.amount \in Int
      /\ ledger_net \in [Wallets -> Int] /\ InitBalance \in Int
  BY ProcKinds, ArgsAssumption
  DEF TypeOK, DataOK, LabelsOK, Tx, ServerProcs, Servers, S0
<1>1. OrderOf(t) \in Orders
  BY <1>0 DEF Ordered
<1>2. /\ pc[S0] = "ledger"
      /\ ledger_net' = [w \in Wallets |-> ledger_net[w] + NetOf(t, w)]
      /\ pc'[Main] = pc[Main] /\ idx'[Main] = idx[Main]
  BY <1>0 DEF WriteLedger, Goto, local
<1>3. \A w \in Wallets : Launched(w) /\ Launched(w)'
  BY <1>2, SizesAssumption, ProcKinds DEF Books, BooksOf, Launched, Wallets, TypeOK, IndexesOK
<1>4. b = [w \in Wallets |-> InitBalance + ledger_net[w]]
  <2>1. b = [w \in Wallets |-> IF Launched(w) THEN InitBalance + ledger_net[w] ELSE 0]
    BY BankBalanceIsBooked
  <2> QED
    BY <1>3, <2>1
<1>5. c = [w \in Wallets |-> InitBalance + ledger_net'[w]]
  <2>1. (TypeOK /\ Books)'
          => (BankBalance = [w \in Wallets |->
                      IF Launched(w) THEN InitBalance + ledger_net[w] ELSE 0])'
    BY BankBalanceIsBooked, PTL
  <2>2. c = [w \in Wallets |-> IF Launched(w)' THEN InitBalance + ledger_net'[w] ELSE 0]
    BY <2>1
  <2> QED
    BY <1>3, <2>2
<1> HIDE DEF b, c
<1>6. \A w \in Wallets :
        NetOf(t, w) = (IF w = t.dest_id THEN t.amount ELSE 0)
                      - (IF w = t.src_id THEN t.amount ELSE 0)
  BY DEF NetOf
<1>7. ledger_net' = TheBank!Moved(ledger_net, t.src_id, t.dest_id, t.amount)
  BY <1>0, <1>2, <1>6 DEF TheBank!Moved
<1>8. c = TheBank!Moved(b, t.src_id, t.dest_id, t.amount)
  BY <1>0, <1>2, <1>4, <1>5, <1>6 DEF TheBank!Moved
<1>9. TheBank!Transfer(t.src_id, OrderOf(t))
  BY <1>7, <1>8 DEF TheBank!Transfer, OrderOf, b, c, BankBalance
<1> HIDE DEF t
<1> QED
  BY <1>0, <1>1, <1>9 DEF TheBank!Transfer

(* Every other step, of whatever process, is none of the bank's.           *)
LEMMA OthersStutter ==
  ASSUME TypeOK, TypeOK', Books, Books', [Next]_vars, ~Launch, ~LaunchFails,
         \A p \in ServerProcs : ~WriteLedger(p)
  PROVE  UNCHANGED TheBank!vars
<1>1. ledger_net' = ledger_net
  <2> USE DEF ledger
  <2>1. ASSUME NEW p \in ServerProcs, ServerStep(p) PROVE ledger_net' = ledger_net
    BY <2>1 DEF ServerStep, ServerReceive, ServerRead, ServerExit, ServerIdle,
       ServerReject, ServerAccept, LoadDest, StoreDest, LoadSrc, StoreSrc, ServerSign,
       LedgerFails, ServerSend
  <2> QED
    BY <2>1, WalletIsLocal, MainIsLocal DEF Next, Done, vars
<1>2. \A w \in Wallets : Launched(w)' <=> Launched(w)
  BY OnlyLaunchOpens
<1>3. BankBalance' = BankBalance
  <2>1. BankBalance = [w \in Wallets |->
                         IF Launched(w) THEN InitBalance + ledger_net[w] ELSE 0]
    BY BankBalanceIsBooked
  <2>2. (TypeOK /\ Books)'
          => (BankBalance = [w \in Wallets |->
                      IF Launched(w) THEN InitBalance + ledger_net[w] ELSE 0])'
    BY BankBalanceIsBooked, PTL
  <2>3. BankBalance' = [w \in Wallets |->
                         IF Launched(w)' THEN InitBalance + ledger_net'[w] ELSE 0]
    BY <2>2
  <2> QED
    BY <1>1, <1>2, <2>1, <2>3
<1> QED
  BY <1>1, <1>3 DEF TheBank!vars, BankBalance

(* A step of SOchain is one of the bank, or none.                          *)
LEMMA StepIsBankStep ==
  ASSUME TypeOK, TypeOK', NServers = 1, Books, Books', Ordered, [Next]_vars
  PROVE  [TheBank!Next]_(TheBank!vars)
<1>1. CASE Launch \/ LaunchFails
  BY <1>1, LaunchIsOpen DEF TheBank!Next
<1>2. CASE \E p \in ServerProcs : WriteLedger(p)
  <2>1. WriteLedger(S0)
    BY <1>2 DEF ServerProcs, Servers, S0
  <2> QED
    BY <2>1, LineIsTransfer DEF TheBank!Next
<1>3. CASE ~Launch /\ ~LaunchFails /\ \A p \in ServerProcs : ~WriteLedger(p)
  BY <1>3, OthersStutter
<1> QED
  BY <1>1, <1>2, <1>3

(* The bank starts with no account open.                                   *)
LEMMA InitIsBankInit == Init => TheBank!Init
  BY ProcKinds, SizesAssumption DEF Init, TheBank!Init, Launched, Wallets

(* However torn, doubled or lost the transactions in the buffers, with one *)
(* server and a ledger that opens SOchain moves money as the bank does:    *)
(* one transfer after the other, each one booked with its own amount, and  *)
(* only amounts that were typed, to the wallets they were typed for        *)
(* (server.c:54-107, memory.c:76-145).                                     *)
THEOREM SOchainIsBank ==
  ASSUME NServers = 1, ~LedgerMayFail
  PROVE  Spec => IsBank
<1>1. TypeOK /\ Books /\ [Next]_vars => Books'
  BY StepKeepsBooks
<1>2. TypeOK /\ TypeOK' /\ Books /\ Books' /\ Ordered /\ [Next]_vars
        => [TheBank!Next]_(TheBank!vars)
  BY StepIsBankStep
<1> QED
  BY InitBooks, InitOrdered, InitIsBankInit, NextOrdered, <1>1, <1>2, SOchainTyped, PTL
  DEF Spec, IsBank, TheBank!Spec
==============================================================================
