-------------------------- MODULE EnvironmentProofs -------------------------
(***************************************************************************)
(* The program in its environment: what was typed, read word by word from  *)
(* an input that comes to its end; signals, wherever they find a child;    *)
(* and runs started again on what an interrupted one left in the segments. *)
(* For every number of processes, size and input.                          *)
(***************************************************************************)
EXTENDS Console, Faults, BufferProofs, BooksProofs, SequenceTheorems

-----------------------------------------------------------------------------
(* What is left of the input. *)

(* The words not scanned yet are the last ones of a script.                *)
EndOfScript ==
  /\ stdin \in Seq(STRING)
  /\ \E s \in Scripts : \E k \in Nat :
       /\ k <= Len(s) /\ Len(stdin) = Len(s) - k
       /\ \A i \in 1 .. Len(stdin) : stdin[i] = s[k+i]

(* The command scanned and its arguments.                                  *)
LEMMA WordAndArgs ==
  ASSUME EndOfScript
  PROVE  /\ Args \in Seq(STRING)
         /\ AtEOF => Word = input /\ Args = <<>>
         /\ ~AtEOF => /\ Word = stdin[1]
                      /\ Len(stdin) \in Nat \ {0}
                      /\ Len(Args) = Len(stdin) - 1
                      /\ \A i \in 1 .. Len(Args) : Args[i] = stdin[i+1]
<1>1. CASE AtEOF
  BY <1>1 DEF Word, Args
<1>2. CASE ~AtEOF
  <2>1. stdin \in Seq(STRING) /\ stdin # <<>>
    BY <1>2 DEF EndOfScript, AtEOF
  <2>2. Len(stdin) \in Nat \ {0} /\ Head(stdin) = stdin[1]
    BY <2>1
  <2> QED
    BY <1>2, <2>1, <2>2, HeadTailProperties DEF Word, Args
<1> QED
  BY <1>1, <1>2

(* scanf converts no word past the end, nor one that is not a number; at   *)
(* the end of the input it converts nothing (main.c:225, 246, 301).        *)
LEMMA ScannedAreNumerals ==
  ASSUME Args \in Seq(STRING), NEW n \in {0, 1, 3}
  PROVE  \/ Args = <<>> /\ Scanned(n) = -1
         \/ /\ Args # <<>> /\ Scanned(n) \in 0 .. n /\ Scanned(n) <= Len(Args)
            /\ \A i \in 1 .. Scanned(n) : Args[i] \in DOMAIN Value
<1>1. CASE Args = <<>>
  BY <1>1 DEF Scanned
<1>2. CASE Args # <<>>
  <2> DEFINE numerals(k) == k <= Len(Args) /\ \A i \in 1 .. k : Args[i] \in DOMAIN Value
             stops(k) == numerals(k) /\ ~ (k < n /\ numerals(k + 1))
  <2>1. Scanned(n) = CHOOSE k \in 0 .. n : stops(k)
    BY <1>2 DEF Scanned
  <2>2. \E k \in 0 .. n : stops(k)
    <3>1. numerals(0)
      OBVIOUS
    <3>2. CASE ~numerals(1)
      BY <3>1, <3>2
    <3>3. CASE numerals(1) /\ ~numerals(2)
      BY <3>1, <3>3
    <3>4. CASE numerals(1) /\ numerals(2)
      BY <3>1, <3>4
    <3> QED
      BY <3>2, <3>3, <3>4
  <2> HIDE DEF stops
  <2>3. Scanned(n) \in 0 .. n /\ stops(Scanned(n))
    BY <2>1, <2>2
  <2> QED
    BY <1>2, <2>3 DEF stops
<1> QED
  BY <1>1, <1>2

(* A command consumes the words it scanned, and no other one.              *)
LEMMA ConsumeKeepsScript ==
  ASSUME EndOfScript, NEW n, NEW valid \in Int, Consume(valid, n),
         \/ Args = <<>> /\ valid \in {-1, 0}
         \/ valid \in 0 .. Len(Args)
  PROVE  EndOfScript'
<1>1. PICK s \in Scripts, k \in Nat :
        /\ k <= Len(s) /\ Len(stdin) = Len(s) - k
        /\ \A i \in 1 .. Len(stdin) : stdin[i] = s[k+i]
  BY DEF EndOfScript
<1>2. Args \in Seq(STRING) /\ Len(Args) \in Nat /\ s \in Seq(STRING) /\ Len(s) \in Nat
  BY WordAndArgs, ScriptsAssumption
<1>3. CASE Args = <<>>
  <2>1. stdin' = <<>>
    BY <1>3 DEF Consume
  <2> QED
    BY <1>2, <2>1 DEF EndOfScript
<1>4. CASE Args # <<>>
  <2>1. valid \in 0 .. Len(Args) /\ stdin' = SubSeq(Args, valid + 1, Len(Args))
    BY <1>4 DEF Consume
  <2>2. ~AtEOF
    BY <1>4, WordAndArgs
  <2>3. /\ Len(stdin) \in Nat \ {0} /\ Len(Args) = Len(stdin) - 1
        /\ \A i \in 1 .. Len(Args) : Args[i] = stdin[i+1]
    BY <2>2, WordAndArgs
  <2>4. /\ stdin' \in Seq(STRING) /\ Len(stdin') = Len(Args) - valid
        /\ \A i \in 1 .. Len(stdin') : stdin'[i] = Args[valid+i]
    <3>1. \A i \in valid + 1 .. Len(Args) : Args[i] \in STRING
      BY <1>2, <2>1
    <3> QED
      BY <1>2, <2>1, <3>1, SubSeqProperties
  <2> DEFINE next == k + valid + 1
  <2>5. \A i \in 1 .. Len(stdin') : stdin'[i] = s[next + i]
    BY <1>1, <1>2, <2>1, <2>3, <2>4
  <2>6. next \in Nat /\ next <= Len(s) /\ Len(stdin') = Len(s) - next
    BY <1>1, <1>2, <2>1, <2>3, <2>4
  <2> HIDE DEF next
  <2> QED
    BY <2>4, <2>5, <2>6 DEF EndOfScript
<1> QED
  BY <1>3, <1>4

(* The transfers and receipts a turn of the loop asks for were typed.      *)
LEMMA TurnIsTyped ==
  ASSUME EndOfScript, Turn
  PROVE  EndOfScript' /\ (UserCommand \/ UNCHANGED vars)
<1>0. Args \in Seq(STRING) /\ Len(Args) \in Nat
  BY WordAndArgs
<1>1. ASSUME NEW n \in {0, 1, 3}, Consume(Scanned(n), n) PROVE EndOfScript'
  BY <1>0, <1>1, ScannedAreNumerals, ConsumeKeepsScript
<1>2. ASSUME NEW n \in {1, 3}, Scanned(n) = n
      PROVE  \E s \in Scripts : \E i \in 1 .. Len(s) :
               /\ Word = s[i] /\ i + n <= Len(s)
               /\ \A k \in 1 .. n : Arg(k) = Value[s[i+k]] /\ s[i+k] \in DOMAIN Value
  <2>1. PICK s \in Scripts, k \in Nat :
          /\ k <= Len(s) /\ Len(stdin) = Len(s) - k
          /\ \A i \in 1 .. Len(stdin) : stdin[i] = s[k+i]
    BY DEF EndOfScript
  <2>2. Len(s) \in Nat
    BY ScriptsAssumption
  <2>3. /\ Args # <<>> /\ n <= Len(Args)
        /\ \A i \in 1 .. n : Args[i] \in DOMAIN Value
    BY <1>0, <1>2, ScannedAreNumerals
  <2>4. /\ Word = stdin[1] /\ Len(stdin) \in Nat \ {0}
        /\ Len(Args) = Len(stdin) - 1
        /\ \A i \in 1 .. Len(Args) : Args[i] = stdin[i+1]
    BY <2>3, WordAndArgs
  <2>5. k + 1 \in 1 .. Len(s) /\ Word = s[k+1] /\ k + 1 + n <= Len(s)
    BY <2>1, <2>2, <2>3, <2>4
  <2>6. \A j \in 1 .. n : Args[j] = s[(k+1)+j]
    BY <2>1, <2>2, <2>3, <2>4
  <2> QED
    BY <2>3, <2>5, <2>6 DEF Arg
<1>3. CASE Trx
  <2>1. Scanned(3) = 3 /\ Consume(Scanned(3), 3) /\ Word = "trx"
        /\ CreateTransaction(Arg(1), Arg(2), Arg(3))
    BY <1>3 DEF Trx
  <2>2. <<Arg(1), Arg(2), Arg(3)>> \in Transfers
    <3>1. PICK s \in Scripts, i \in Nat :
               /\ i \in 1 .. Len(s) /\ s[i] = "trx" /\ i + 3 <= Len(s)
               /\ \A k \in 1 .. 3 : Arg(k) = Value[s[i+k]] /\ s[i+k] \in DOMAIN Value
      BY <1>2, <2>1
    <3> QED
      BY <3>1, TypedAssumption
  <2> QED
    BY <1>1, <2>1, <2>2 DEF UserCommand
<1>4. CASE Rcp
  <2>1. Scanned(1) = 1 /\ Consume(Scanned(1), 1) /\ Word = "rcp" /\ AskReceipt(Arg(1))
    BY <1>4 DEF Rcp
  <2>2. Arg(1) \in RcpIds
    <3>1. PICK s \in Scripts, i \in Nat :
               /\ i \in 1 .. Len(s) /\ s[i] = "rcp" /\ i + 1 <= Len(s)
               /\ \A k \in 1 .. 1 : Arg(k) = Value[s[i+k]] /\ s[i+k] \in DOMAIN Value
      BY <1>2, <2>1
    <3>2. Arg(1) = Value[s[i+1]] /\ \A k \in 1 .. 1 : s[i+k] \in DOMAIN Value
      BY <3>1
    <3> QED
      BY <3>1, <3>2, TypedAssumption
  <2> QED
    BY <1>1, <2>1, <2>2 DEF UserCommand
<1>5. CASE Refuse
  BY <1>1, <1>5 DEF Refuse
<1>6. CASE Show \/ End
  BY <1>0, <1>6, ConsumeKeepsScript DEF Show, End, UserCommand
<1> QED
  BY <1>3, <1>4, <1>5, <1>6 DEF Turn

LEMMA ScriptInvariant == ConsoleSpec => []EndOfScript
<1>1. ConsoleInit => EndOfScript
  <2> SUFFICES ASSUME ConsoleInit PROVE EndOfScript
    OBVIOUS
  <2>1. stdin \in Scripts /\ stdin \in Seq(STRING) /\ Len(stdin) \in Nat
    BY ScriptsAssumption DEF ConsoleInit
  <2>2. /\ 0 \in 0 .. Len(stdin) /\ Len(stdin) = Len(stdin) - 0
        /\ \A i \in 1 .. Len(stdin) : stdin[i] = stdin[0+i]
    BY <2>1
  <2> QED
    BY <2>1, <2>2 DEF EndOfScript
<1>2. EndOfScript /\ [ConsoleNext]_<<vars, consoleVars>> => EndOfScript'
  BY TurnIsTyped DEF ConsoleNext, consoleVars, EndOfScript
<1> QED
  BY <1>1, <1>2, PTL DEF ConsoleSpec

(* The loop of user_interaction implements the user of SOchain: whatever   *)
(* is typed, with arguments missing, in excess or not numbers, it carries  *)
(* out only transfers and receipts that were typed as such (main.c:153,    *)
(* 225, 246, 301).  Every theorem about SOchain holds of it.               *)
THEOREM ConsoleCarriesOutTyped == ConsoleSpec => OnlyTyped
<1>1. ConsoleInit => Init
  BY DEF ConsoleInit
<1>2. EndOfScript /\ [ConsoleNext]_<<vars, consoleVars>> => [Next]_vars
  BY TurnIsTyped DEF ConsoleNext, Next
<1> QED
  BY <1>1, <1>2, ScriptInvariant, PTL DEF ConsoleSpec, Spec, OnlyTyped

-----------------------------------------------------------------------------
(* The end of the input. *)

(* What the processes do on their own leaves main at its prompt.           *)
LEMMA PromptWaits ==
  ASSUME TypeOK, pc[Main] = "prompt",
         \/ MainStep
         \/ \E p \in WalletProcs : WalletStep(p)
         \/ \E p \in ServerProcs : ServerStep(p)
         \/ Done
  PROVE  pc'[Main] = "prompt"
<1>1. ~MainStep
  BY DEF MainStep, Launch, LaunchFails, MainWrite, MW!Write, MW!WriteSkip,
     MW!WriteFound, MW!WriteMark, MW!WriteCopy, CountTransaction, MainRead,
     SM!Read, SM!ReadSkip, SM!ReadMismatch, SM!ReadFound, SM!ReadMatch,
     SM!ReadCopy, SM!ReadFree, ShowReceipt, Reap, ReapNone, Destroy
<1>2. ASSUME NEW p \in WalletProcs, WalletStep(p) PROVE pc'[Main] = pc[Main]
  BY <1>2, WalletIsLocal, ProcKinds
<1>3. ASSUME NEW p \in ServerProcs, ServerStep(p) PROVE pc'[Main] = pc[Main]
  BY <1>3, ServerIsLocal, ProcKinds
<1> QED
  BY <1>1, <1>2, <1>3 DEF Done

(* At the end of the input, which the loop does not look for, it turns on  *)
(* with the word it has, and neither creates a transaction nor asks for a  *)
(* receipt: every scan of numbers returns -1, which both functions refuse  *)
(* (main.c:152-190, 225, 246, 301).                                        *)
THEOREM LoopQuietAtEOF == ConsoleSpec => QuietAtEOF
<1>1. TypeOK /\ EndOfScript /\ [ConsoleNext]_<<vars, consoleVars>> =>
        [AtEOF /\ input # "end" /\ pc[Main] = "prompt" => pc'[Main] = "prompt"]_vars
  <2> SUFFICES ASSUME TypeOK, EndOfScript, ConsoleNext, AtEOF, input # "end",
                      pc[Main] = "prompt"
               PROVE  pc'[Main] = "prompt" \/ UNCHANGED vars
    OBVIOUS
  <2>1. Word = input /\ Args = <<>> /\ Scanned(3) = -1 /\ Scanned(1) = -1
    BY WordAndArgs, ScannedAreNumerals
  <2>2. CASE Turn
    BY <2>1, <2>2 DEF Turn, Trx, Rcp, Refuse, Show, End
  <2> QED
    BY <2>2, PromptWaits DEF ConsoleNext
<1>2. Spec => []TypeOK
  BY SOchainTyped
<1> QED
  BY <1>1, <1>2, ScriptInvariant, ConsoleCarriesOutTyped, PTL
     DEF ConsoleSpec, QuietAtEOF, OnlyTyped

-----------------------------------------------------------------------------
(* A signal ends a child.                                                  *)

(* It touches no other process and nothing that is shared.                 *)
LEMMA KillIsLocal ==
  ASSUME TypeOK, NEW c \in Children, Kill(c)
  PROVE  /\ c \in Procs /\ c # Main /\ Main \in Procs /\ pc[c] \notin Gone
         /\ pc' = [pc EXCEPT ![c] = "exited"] /\ pc'[c] = "exited" /\ wrd'[c] = 1
         /\ idx' = [idx EXCEPT ![c] = 0] /\ tx' = [tx EXCEPT ![c] = IndeterminateTx]
         /\ wrd' \in [Procs -> 1 .. Words]
         /\ \A q \in Procs \ {c} : /\ pc'[q] = pc[q] /\ tx'[q] = tx[q]
                                   /\ wrd'[q] = wrd[q] /\ idx'[q] = idx[q]
         /\ UNCHANGED <<flags, balances, stats, mw, ws, sm, ledger, mainVar>>
         /\ reg' \in [Servers -> Int]
  BY ProcKinds DEF Kill, Goto, TypeOK, DataOK, LabelsOK, IndexesOK, Gone, Words

(* What is left is well typed.                                             *)
LEMMA KillKeepsTypeOK ==
  ASSUME TypeOK, NEW c \in Children, Kill(c)
  PROVE  TypeOK'
<1> USE DEF flags, money, stats, mw, ws, sm, ledger, local, mainVar
<1>0. DataOK /\ LabelsOK /\ IndexesOK /\ CounterOK
  BY DEF TypeOK
<1>1. DataOK'
  BY <1>0, KillIsLocal, ZeroTxInTx DEF DataOK
<1>2. LabelsOK' /\ pc'[Main] = pc[Main]
  <2>1. CASE c \in WalletProcs
    BY <1>0, <2>1, KillIsLocal, WalletMoves DEF WalletLabels, ChildLabels
  <2>2. CASE c \in ServerProcs
    BY <1>0, <2>2, KillIsLocal, ServerMoves DEF ServerLabels, ChildLabels
  <2> QED
    BY <2>1, <2>2 DEF Children
<1>3. IndexesOK'
  BY <1>0, <1>2, KillIsLocal, ZeroSlot, ChildIndex
<1> QED
  BY <1>0, <1>1, <1>2, <1>3, KillIsLocal, CounterKept DEF TypeOK

(* waitpid has one child more to collect.                                  *)
LEMMA KillKeepsCollected ==
  ASSUME TypeOK, Collected, NEW c \in Children, Kill(c)
  PROVE  Collected'
  BY KillIsLocal, ChildKeepsCollected DEF flags, mainVar

(* It holds no transaction any more.                                       *)
LEMMA KillKeepsFresh ==
  ASSUME TypeOK, Fresh, NEW c \in Children, Kill(c)
  PROVE  Fresh'
<1>1. SlotsFresh'
  BY KillIsLocal DEF Fresh, SlotsFresh, mw, ws, sm
<1>2. ChildFresh(c)'
  BY KillIsLocal DEF ChildFresh, Holding, WS!PutLabels, Transferring, SM!WriteLabels
<1>3. pc[c] # "unborn"
  BY KillIsLocal DEF Gone
<1> QED
  BY <1>1, <1>2, <1>3, KillIsLocal, ChildKeepsFresh DEF flags

(* It has no step to take any more.                                        *)
LEMMA KillDescends ==
  ASSUME TypeOK, TypeOK', NEW c \in Children, Kill(c)
  PROVE  Work' < Work
<1>1. c \in Procs /\ \A q \in Procs \ {c} : StepsLeft'[q] = StepsLeft[q]
  BY KillIsLocal DEF StepsLeft
<1>2. StepsFrom(pc'[c], idx'[c], wrd'[c]) = 0
  BY KillIsLocal, StepsFromLabels
<1>3. StepsFrom(pc[c], idx[c], wrd[c]) > 0
  <2>1. /\ pc[c] \in WalletLabels \cup ServerLabels
        /\ pc[c] \notin {"unborn", "exited", "reaped"}
    BY DEF Kill, Children, TypeOK, LabelsOK
  <2>2. /\ BufSize \in Nat \ {0} /\ idx[c] \in 0 .. BufSize - 1
        /\ wrd[c] \in 1 .. 3 /\ Words = 3
    BY RunsInBounds
  <2> QED
    BY <2>1, <2>2, StepsFromLabels
    DEF WalletLabels, ServerLabels, ChildLabels, Transferring, MW!ReadLabels,
        SM!WriteLabels, WS!PutLabels, WS!GetLabels
<1> QED
  BY <1>1, <1>2, <1>3, OneMoves

(* A signal to a wallet leaves the books alone.                            *)
LEMMA KillKeepsBooks ==
  ASSUME TypeOK, NServers = 1, NEW n, BooksOf(n), NEW c \in WalletProcs, Kill(c)
  PROVE  BooksOf(n)' /\ ledger_net' = ledger_net
<1>1. c \in Children /\ c # S0 /\ S0 \in Procs
  BY SizesAssumption, ProcKinds
  DEF WalletProcs, S0, Procs, Children, ServerProcs, Servers
<1>2. reg' = reg
  <2>1. \A s \in Servers : c # <<"server", s>>
    BY DEF WalletProcs
  <2>2. reg \in [Servers -> Int]
    BY DEF TypeOK, DataOK
  <2> QED
    BY <2>1, <2>2 DEF Kill
<1> QED
  BY <1>1, <1>2, KillIsLocal, BooksKept DEF ledger

(* Neither does a signal disturb the ring, however far the wallet had      *)
(* filled its slot or the server copied it.                                *)
LEMMA KillKeepsQueue ==
  ASSUME NWallets = 1, NServers = 1, TypeOK, HandOver, NEW n \in Int,
         FlowOver(n), NEW c \in Children, Kill(c)
  PROVE  HandOver' /\ FlowOver(n)'
<1>1. /\ W0 \in Procs /\ S0 \in Procs /\ W0 # S0 /\ c \in {W0, S0}
  BY OneOfEach DEF Children
<1>2. UNCHANGED <<terminate, ws_in, ws_out, ws_buffer, wallets_stats, ledger_lines>>
  BY KillIsLocal DEF flags, ws, stats, ledger
<1>3. HandOver'
  BY <1>1, <1>2, KillIsLocal, HandOverKept DEF ws
<1>4. ServerHas' <= ServerHas /\ WalletHas' <= WalletHas /\ WS!Held' = WS!Held
  BY <1>1, <1>2, KillIsLocal DEF ServerHas, WalletHas, Transferring, WS!PutLabels, WS!Held
<1>5. FlowOver(n)'
  BY <1>2, <1>4, FlowTypes DEF FlowOver, ServerHas, WalletHas
<1> QED
  BY <1>3, <1>5

(* A signal gives no wallet more to sign.                                  *)
LEMMA KillKeepsSigned ==
  ASSUME TypeOK, TypeOK', NEW p \in WalletProcs, NEW n \in Int,
         SignedOver(p, n), NEW c \in Children, Kill(c)
  PROVE  SignedOver(p, n)'
<1>1. /\ UNCHANGED <<mw_ptrs, wallets_stats, terminate, tx_counter>>
      /\ pc'[Main] = pc[Main] /\ p \in Procs
      /\ pc'[p] = "exited" \/ (/\ pc'[p] = pc[p] /\ idx'[p] = idx[p]
                               /\ tx'[p] = tx[p])
  BY KillIsLocal, ProcKinds DEF flags, stats, mw, mainVar
<1>2. Due(p)' \subseteq Due(p) /\ InHand(p)' <= InHand(p) /\ Created' = Created
  BY <1>1 DEF Due, InHand, Created
<1>3. SignedNumbers(p) /\ InHand(p)' \in {0, 1}
  BY SignedTypes DEF AllNumbers, InHand
<1> QED
  BY <1>1, <1>2, <1>3, DueShrinks DEF SignedNumbers

-----------------------------------------------------------------------------
(* The program is started again.                                           *)

(* Before main launches anyone.                                            *)
LEMMA NewRunStarts ==
  ASSUME NewRun
  PROVE  /\ pc'[Main] = "create" /\ idx'[Main] = 0
         /\ \A c \in Children : pc'[c] = "unborn" /\ wrd'[c] = 1
  BY ProcKinds DEF NewRun

(* What it finds in the segments is well typed, whatever was left of them. *)
LEMMA RestartKeepsTypeOK ==
  ASSUME TypeOK, Restart
  PROVE  TypeOK'
<1>1. NewRun
  BY DEF Restart
<1>2. DataOK'
  <2>1. /\ balances' \in [Wallets -> Int] /\ wallets_stats' \in [Wallets -> Nat]
        /\ servers_stats' \in [Servers -> Nat]
        /\ mw_ptrs' \in [Slots -> {0, 1}] /\ sm_ptrs' \in [Slots -> {0, 1}]
        /\ ws_in' \in Slots /\ ws_out' \in Slots
    BY ZeroSlot DEF Restart, RingOpened, Opened, TypeOK, DataOK
  <2>2. /\ mw_buffer' \in [Slots -> Tx] /\ ws_buffer' \in [Slots -> Tx]
        /\ sm_buffer' \in [Slots -> Tx]
    BY ZeroTxInTx DEF Restart, Opened, TypeOK, DataOK
  <2> QED
    BY <1>1, <2>1, <2>2, ZeroTxInTx DEF NewRun, DataOK
<1>3. LabelsOK' /\ IndexesOK' /\ CounterOK'
  BY <1>1, NewRunStarts, ZeroSlot, ProcKinds, SizesAssumption, ArgsAssumption
  DEF NewRun, LabelsOK, IndexesOK, CounterOK, MainLabels, WalletLabels, ServerLabels,
      ChildLabels, NChildren, Words, MainWriting, MainReading, MW!WriteLabels,
      SM!ReadLabels
<1> QED
  BY <1>2, <1>3 DEF TypeOK

(* No child runs yet.                                                      *)
LEMMA RestartCollects ==
  ASSUME Restart
  PROVE  Collected'
  BY NewRunStarts DEF Restart, NewRun, Collected

(* The slots it finds hold what somebody wrote, or zeros.                  *)
LEMMA RestartKeepsFresh ==
  ASSUME Fresh, Restart
  PROVE  Fresh'
<1>1. NewRun
  BY DEF Restart
<1>2. SlotsFresh'
  BY DEF Restart, Opened, Fresh, SlotsFresh, ZeroTx, Indeterminate
<1>3. MainFresh'
  BY <1>1, NewRunStarts, ChildAtIsChild DEF MainFresh, MainWriting, MW!WriteLabels
<1>4. \A c \in Children : ChildFresh(c)'
  BY <1>1, NewRunStarts
  DEF ChildFresh, Holding, WS!PutLabels, Transferring, SM!WriteLabels
<1> QED
  BY <1>2, <1>3, <1>4 DEF Fresh

(* The ledger is empty, and the balances will be set again.                *)
LEMMA RestartOpensBooks ==
  ASSUME NServers = 1, Restart, NEW n, n = [w \in Wallets |-> 0]
  PROVE  BooksOf(n)' /\ ledger_net' = n
<1>1. NewRun /\ S0 \in Children
  BY ProcKinds DEF Restart, S0, ServerProcs, Servers
<1> QED
  BY <1>1, NewRunStarts, SizesAssumption DEF NewRun, BooksOf, Launched, Wallets

(* Nobody is in the middle of a copy.                                      *)
LEMMA RestartHandsOver ==
  ASSUME NWallets = 1, NServers = 1, Restart
  PROVE  HandOver'
<1>1. pc'[W0] = "unborn" /\ pc'[S0] = "unborn"
  BY NewRunStarts, OneOfEach DEF Restart
<1> QED
  BY <1>1 DEF HandOver, WalletSide, ServerSide

(* The entries of the ring are lost, or they are kept with the count of    *)
(* what was signed: wallets_stats is unlinked after the ring.              *)
LEMMA RestartKeepsQueue ==
  ASSUME NWallets = 1, NServers = 1, TypeOK, Flow, Restart
  PROVE  HandOver' /\ Flow'
<1>1. NewRun /\ pc'[W0] = "unborn" /\ pc'[S0] = "unborn"
  BY NewRunStarts, OneOfEach DEF Restart
<1>2. HandOver'
  BY RestartHandsOver
<1>3. ledger_lines'[0] = 0 /\ ServerHas' = 0 /\ WalletHas' = 0
  BY <1>1, OneOfEach DEF NewRun, ServerHas, WalletHas, Transferring, WS!PutLabels
<1>4. WS!Held' <= wallets_stats'[0]
  <2>1. WS!Held <= wallets_stats[0] /\ wallets_stats[0] \in Nat
    BY FlowTypes DEF Flow, FlowOver, ServerHas, WalletHas
  <2>2. PICK n \in 0 .. 10 :
          /\ ws_in' = Opened(4, n, ws_in, 0) /\ ws_out' = Opened(4, n, ws_out, 0)
          /\ wallets_stats' = Opened(9, n, wallets_stats, [w \in Wallets |-> 0])
    BY DEF Restart, RingOpened, Unlinked
  <2>3. CASE n < 4
    BY <2>1, <2>2, <2>3 DEF Opened, WS!Held
  <2>4. CASE n >= 4
    <3>1. WS!Held' = 0
      BY <2>2, <2>4 DEF Opened, WS!Held
    <3>2. wallets_stats'[0] \in Nat
      BY <2>1, <2>2, OneOfEach DEF Opened
    <3> QED
      BY <3>1, <3>2
  <2> QED
    BY <2>2, <2>3, <2>4
<1>5. Flow'
  <2>1. WS!Held' \in Int /\ wallets_stats'[0] \in Int
    <3>1. TypeOK'
      BY RestartKeepsTypeOK
    <3>2. (NWallets = 1 /\ NServers = 1 /\ TypeOK)'
             => (WS!Held \in Nat /\ wallets_stats \in [{0} -> Nat])'
      BY FlowTypes, PTL
    <3> QED
      BY <3>1, <3>2
  <2> QED
    BY <1>3, <1>4, <2>1 DEF Flow, FlowOver
<1> QED
  BY <1>2, <1>5

-----------------------------------------------------------------------------
(* Signals and restarts, as often as they come. *)

(* A step of any kind keeps the types.                                     *)
LEMMA FaultsKeepTypeOK == TypeOK /\ [FaultsNext]_<<vars, faultVars>> => TypeOK'
<1> SUFFICES ASSUME TypeOK, [FaultsNext]_<<vars, faultVars>> PROVE TypeOK'
  OBVIOUS
<1>1. CASE [Next]_vars
  BY <1>1, NextTypeOK
<1> QED
  BY <1>1, KillKeepsTypeOK, RestartKeepsTypeOK DEF FaultsNext

(* Neither a signal, wherever it finds a process, nor what it leaves in    *)
(* the segments takes an index out of its array, gives a transaction a     *)
(* wallet that does not exist or lets main create more than max_txs        *)
(* (memory.c:25-54, main.c:131-163).                                       *)
THEOREM FaultsTyped == FaultsSpec => []TypeOK
  BY InitTypeOK, FaultsKeepTypeOK, PTL DEF FaultsSpec, FaultsInit

(* main destroys the segments under no child, even if some were ended by a *)
(* signal, for waitpid collects those too (process.c:46-61); and a new run *)
(* starts without children.                                                *)
THEOREM FaultsSegmentsOutliveChildren == FaultsSpec => []NoChildOutlivesMemory
<1>1. Init => Collected
  BY ProcKinds DEF Init, Collected
<1>2. TypeOK /\ Collected /\ [FaultsNext]_<<vars, faultVars>> => Collected'
  <2> SUFFICES ASSUME TypeOK, Collected, [FaultsNext]_<<vars, faultVars>> PROVE Collected'
    OBVIOUS
  <2>1. CASE [Next]_vars
    BY <2>1, StepKeepsCollected
  <2> QED
    BY <2>1, KillKeepsCollected, RestartCollects DEF FaultsNext
<1>3. Collected => NoChildOutlivesMemory
  BY DEF Collected, NoChildOutlivesMemory, Gone
<1> QED
  BY <1>1, <1>2, <1>3, FaultsTyped, PTL DEF FaultsSpec, FaultsInit

(* The way to the end is no longer for a child that a signal ends: within  *)
(* a run no step after end, nor any signal, leaves more to do (main.c:198- *)
(* 208, process.c:46-61).                                                  *)
THEOREM FaultsEndDescends == FaultsSpec => EndApproaches
<1>1. FaultsInit => Ending
  BY DEF FaultsInit, Init, Ending
<1>2. TypeOK /\ Ending /\ [FaultsNext]_<<vars, faultVars>> => Ending'
  <2> SUFFICES ASSUME TypeOK, Ending, [FaultsNext]_<<vars, faultVars>> PROVE Ending'
    OBVIOUS
  <2>1. CASE [Next]_vars
    BY <2>1, NextEnding
  <2>2. ASSUME NEW c \in Children, Kill(c) PROVE Ending'
    BY <2>2, KillIsLocal DEF Ending, flags
  <2>3. CASE Restart
    BY <2>3 DEF Restart, NewRun, Ending
  <2> QED
    BY <2>1, <2>2, <2>3 DEF FaultsNext
<1>3. TypeOK /\ TypeOK' /\ Ending /\ [FaultsNext]_<<vars, faultVars>>
        => [terminate = 1 /\ terminate' = 1 => Work' < Work]_vars
  <2> SUFFICES ASSUME TypeOK, TypeOK', Ending, [FaultsNext]_<<vars, faultVars>>,
                      vars' # vars, terminate = 1, terminate' = 1
               PROVE  Work' < Work
    OBVIOUS
  <2>1. CASE [Next]_vars
    BY <2>1, NextDescends
  <2>2. ~Restart
    BY DEF Restart, NewRun
  <2> QED
    BY <2>1, <2>2, KillDescends DEF FaultsNext
<1> QED
  BY <1>1, <1>2, <1>3, FaultsTyped, PTL DEF FaultsSpec, EndApproaches

(* What a signal leaves half copied in a slot is never taken for what was  *)
(* not read, in that run or in the next (memory.c:25-54, wallet.c:11-29,   *)
(* server.c:16-37).                                                        *)
THEOREM FaultsOnlyReadTransactionsUsed == FaultsSpec => []FreshReads
<1>1. TypeOK /\ Fresh /\ [FaultsNext]_<<vars, faultVars>> => Fresh'
  <2> SUFFICES ASSUME TypeOK, Fresh, [FaultsNext]_<<vars, faultVars>> PROVE Fresh'
    OBVIOUS
  <2>1. CASE [Next]_vars
    BY <2>1, NextFresh
  <2> QED
    BY <2>1, KillKeepsFresh, RestartKeepsFresh DEF FaultsNext
<1> QED
  BY <1>1, InitFresh, FreshUsed, FaultsTyped, PTL DEF FaultsSpec, FaultsInit

(* Money half moved by a run that was interrupted is forgotten by the next *)
(* one: with one server, and as long as no signal ends it, the balances    *)
(* and the ledger agree, because create_processes sets each balance again  *)
(* before the server runs, and main_args empties the ledger (main.c:53,    *)
(* 131-143).                                                               *)
THEOREM BooksSurviveFaults ==
  ASSUME NServers = 1, ~LedgerMayFail
  PROVE  FaultsSpec => []BooksSurvive
<1> DEFINE Inv == killed \cap ServerProcs = {} => Books
<1>1. FaultsInit => Inv
  BY InitBooks DEF FaultsInit
<1>2. TypeOK /\ Inv /\ [FaultsNext]_<<vars, faultVars>> => Inv'
  <2> SUFFICES ASSUME TypeOK, Inv, [FaultsNext]_<<vars, faultVars>>,
                      killed' \cap ServerProcs = {}
               PROVE  Books'
    OBVIOUS
  <2>1. CASE [Next]_vars /\ UNCHANGED killed
    BY <2>1, StepKeepsBooks
  <2>2. ASSUME NEW c \in Children, Kill(c) PROVE Books'
    <3>1. c \in WalletProcs /\ killed \cap ServerProcs = {}
      BY <2>2 DEF Kill, Children
    <3>2. PICK n : n = ledger_net
      OBVIOUS
    <3>3. BooksOf(n)
      BY <3>1, <3>2 DEF Books
    <3>4. BooksOf(n)' /\ ledger_net' = n
      BY <2>2, <3>1, <3>2, <3>3, KillKeepsBooks
    <3> QED
      BY <3>4 DEF Books, BooksOf
  <2>3. CASE Restart
    <3>1. PICK n : n = [w \in Wallets |-> 0]
      OBVIOUS
    <3>2. BooksOf(n)' /\ ledger_net' = n
      BY <2>3, <3>1, RestartOpensBooks
    <3> QED
      BY <3>2 DEF Books, BooksOf
  <2> QED
    BY <2>1, <2>2, <2>3 DEF FaultsNext, faultVars
<1>3. TypeOK /\ Inv => BooksSurvive
  BY BooksUsed DEF BooksSurvive
<1> QED
  BY <1>1, <1>2, <1>3, FaultsTyped, PTL DEF FaultsSpec, FaultsInit

(* Nor does a run make or lose money that another one left half moved, or  *)
(* that a wallet was signing when a signal ended it: with one server, that *)
(* no signal ends, the balances of a run add up to what this run gave the  *)
(* wallets, whether or not its ledger opens (main.c:131-143;               *)
(* server.c:55-78, 95).                                                    *)
THEOREM MoneyConservedAfterFaults ==
  ASSUME NServers = 1
  PROVE  FaultsSpec => [](killed \cap ServerProcs = {} => MoneyConserved)
<1> DEFINE Inv == killed \cap ServerProcs = {} => Money
<1>1. FaultsInit => Inv
  BY InitMoney DEF FaultsInit
<1>2. TypeOK /\ Inv /\ [FaultsNext]_<<vars, faultVars>> => Inv'
  <2> SUFFICES ASSUME TypeOK, Inv, [FaultsNext]_<<vars, faultVars>>,
                      killed' \cap ServerProcs = {}
               PROVE  Money'
    OBVIOUS
  <2>1. CASE [Next]_vars /\ UNCHANGED killed
    BY <2>1, StepKeepsMoney
  <2>2. ASSUME NEW c \in Children, Kill(c) PROVE Money'
    <3>1. c \in WalletProcs /\ killed \cap ServerProcs = {}
      BY <2>2 DEF Kill, Children
    <3>2. PICK n \in [Wallets -> Int] : BooksOf(n) /\ SumOf(n, Wallets) = 0
      BY <3>1 DEF Money
    <3> QED
      BY <2>2, <3>1, <3>2, KillKeepsBooks DEF Money
  <2>3. CASE Restart
    <3>1. PICK n \in [Wallets -> Int] : n = [w \in Wallets |-> 0]
      BY [w \in Wallets |-> 0] \in [Wallets -> Int], Zenon
    <3>2. SumOf(n, Wallets) = 0
      BY <3>1, WalletsAreFinite, SumOfZeros
    <3> QED
      BY <2>3, <3>1, <3>2, RestartOpensBooks DEF Money
  <2> QED
    BY <2>1, <2>2, <2>3 DEF FaultsNext, faultVars
<1>3. TypeOK /\ Inv => (killed \cap ServerProcs = {} => MoneyConserved)
  BY MoneyUsed
<1> QED
  BY <1>1, <1>2, <1>3, FaultsTyped, PTL DEF FaultsSpec, FaultsInit

(* A signal in the middle of a copy, and a new run on the slots that it    *)
(* left, make no order of their own: a receipt still is of an amount that  *)
(* was typed, to the wallet it was typed for, in that run or in a former   *)
(* one, or of zeros (memory.c:25-54, 76-158; main.c:308-317).              *)
THEOREM ReceiptsOfTypedOrdersAfterFaults == FaultsSpec => []ReceiptsTyped
<1>1. FaultsInit => Ordered /\ ReceiptsTyped
  BY InitOrdered DEF FaultsInit, Init, ReceiptsTyped
<1>2. TypeOK /\ Ordered /\ ReceiptsTyped /\ [FaultsNext]_<<vars, faultVars>>
        => (Ordered /\ ReceiptsTyped)'
  <2> SUFFICES ASSUME TypeOK, Ordered, ReceiptsTyped, [FaultsNext]_<<vars, faultVars>>
               PROVE  Ordered' /\ ReceiptsTyped'
    OBVIOUS
  <2>1. CASE [Next]_vars
    BY <2>1, NextOrdered, StepKeepsReceipts
  <2>2. ASSUME NEW c \in Children, Kill(c) PROVE Ordered' /\ ReceiptsTyped'
    <3>1. Ordered'
      BY <2>2, KillIsLocal, OrderOfOthers, HolderKeepsOrdered DEF mw, ws, sm
    <3>2. receipts' = receipts
      BY <2>2, KillIsLocal DEF mainVar
    <3> QED
      BY <3>1, <3>2 DEF ReceiptsTyped
  <2>3. CASE Restart
    <3>1. NewRun
      BY <2>3 DEF Restart
    <3>2. \A i \in Slots : /\ mw_buffer'[i] \in {mw_buffer[i], ZeroTx}
                          /\ ws_buffer'[i] \in {ws_buffer[i], ZeroTx}
                          /\ sm_buffer'[i] \in {sm_buffer[i], ZeroTx}
      BY <2>3 DEF Restart, Opened
    <3>3. \A p \in Procs : tx'[p] = IndeterminateTx
      BY <3>1 DEF NewRun
    <3>4. Ordered'
      BY <3>2, <3>3, OrderOfOthers DEF Ordered
    <3> QED
      BY <3>1, <3>4 DEF NewRun, ReceiptsTyped
  <2> QED
    BY <2>1, <2>2, <2>3 DEF FaultsNext
<1> QED
  BY <1>1, <1>2, FaultsTyped, PTL DEF FaultsSpec

(* With one wallet and one server, no line of the ledger is one too many,  *)
(* although a new run empties the ledger, and finds in the ring what the   *)
(* former one left there: what it finds was signed, and counted, and that  *)
(* count is destroyed after the ring (main.c:53, 86-101, 115-128).         *)
THEOREM NoneProcessedTwiceAfterFaults == FaultsSpec => []ProcessedWithinSigned
<1>1. CASE NWallets = 1 /\ NServers = 1
  <2> DEFINE Inv == HandOver /\ Flow
  <2>1. FaultsInit => Inv /\ Fresh
    BY <1>1, InitHandOver, InitFlow, InitFresh DEF FaultsInit
  <2>2. TypeOK /\ Fresh /\ Inv /\ [FaultsNext]_<<vars, faultVars>> => Inv' /\ Fresh'
    <3> SUFFICES ASSUME TypeOK, Fresh, Inv, [FaultsNext]_<<vars, faultVars>>
                 PROVE  Inv' /\ Fresh'
      OBVIOUS
    <3>1. CASE [Next]_vars
      BY <1>1, <3>1, NextHandOver, NextFlow, NextFresh DEF Flow
    <3> QED
      BY <1>1, <3>1, KillKeepsQueue, KillKeepsFresh, RestartKeepsQueue,
         RestartKeepsFresh DEF FaultsNext, Flow
  <2>3. TypeOK /\ Inv => ProcessedWithinSigned
    BY <1>1, FlowTypes DEF Flow, FlowOver, ServerHas, WalletHas,
       ProcessedWithinSigned
  <2> QED
    BY <2>1, <2>2, <2>3, FaultsTyped, PTL DEF FaultsSpec
<1>2. CASE ~(NWallets = 1 /\ NServers = 1)
  <2>1. ProcessedWithinSigned
    BY <1>2 DEF ProcessedWithinSigned
  <2> QED
    BY <2>1, PTL
<1> QED
  BY <1>1, <1>2

-----------------------------------------------------------------------------
(* One wallet and one server, from one run to the next. *)

(* What the flags, the ring and the counts hold of former runs is paid for *)
(* by transactions that those created and ledger.txt does not show.        *)
PaidFor ==
  /\ kept \in Int /\ earlier \in Int
  /\ \E f, g \in Int :
       FlowOver(f) /\ SignedOver(W0, g) /\ kept + f + g <= earlier

(* The numbers that PaidFor adds.                                          *)
LEMMA PaidTypes ==
  ASSUME NWallets = 1, NServers = 1, TypeOK
  PROVE  /\ Lines = ledger_lines[0] /\ ledger_lines[0] \in Nat
         /\ wallets_stats[0] \in Nat /\ WS!Held \in Nat
         /\ ServerHas \in {0, 1} /\ WalletHas \in {0, 1}
         /\ Cardinality(Due(W0)) \in Nat /\ InHand(W0) \in {0, 1}
         /\ Created \in Nat
<1>1. Servers = {0} /\ ledger_lines \in [{0} -> Nat]
  BY OneOfEach, FlowTypes
<1>2. SumOf(ledger_lines, {0}) = ledger_lines[0]
  <2>1. Some({0}) = 0 /\ {0} \ {0} = {}
    BY DEF Some
  <2>2. IsFiniteSet({0})
    BY FS_Singleton
  <2> QED
    BY <1>1, <2>1, <2>2, SumOfSome, SumOfNone
<1>3. Lines = ledger_lines[0]
  BY <1>1, <1>2 DEF Lines, SumOf
<1>4. SignedNumbers(W0)
  BY OneOfEach, SignedTypes DEF AllNumbers
<1> QED
  BY <1>1, <1>3, <1>4, FlowTypes, OneOfEach
  DEF ServerHas, WalletHas, SignedNumbers

(* What main_args takes over of a former run, empties or keeps, goes into  *)
(* the account; what the segments lose of it is lost.                      *)
LEMMA RestartKeepsPaid ==
  ASSUME NWallets = 1, NServers = 1, TypeOK, TypeOK', PaidFor, Restart
  PROVE  PaidFor'
<1>1. PICK f \in Int, g \in Int :
        FlowOver(f) /\ SignedOver(W0, g) /\ kept + f + g <= earlier
  BY DEF PaidFor
<1> DEFINE due == Cardinality(Due(W0))
<1>2. kept + Lines + WS!Held + due <= earlier + Created
  <2>1. Id(W0) = 0
    BY OneOfEach
  <2> QED
    BY <1>1, <2>1, PaidTypes DEF PaidFor, FlowOver, SignedOver
<1>3. NewRun /\ pc'[W0] = "unborn" /\ pc'[S0] = "unborn" /\ pc'[Main] = "create"
  BY NewRunStarts, OneOfEach DEF Restart
<1>4. /\ ledger_lines'[0] = 0 /\ ServerHas' = 0 /\ WalletHas' = 0
      /\ InHand(W0)' = 0 /\ Created' = 0
  BY <1>3, OneOfEach
  DEF NewRun, ServerHas, WalletHas, Transferring, WS!PutLabels, InHand, Created
<1>5. WS!Held' <= WS!Held /\ WS!Held' \in Nat
  <2>1. PICK n \in 0 .. 10 :
          ws_in' = Opened(4, n, ws_in, 0) /\ ws_out' = Opened(4, n, ws_out, 0)
    BY DEF Restart, RingOpened, Unlinked
  <2>2. CASE n < 4
    BY <2>1, <2>2, PaidTypes DEF Opened, WS!Held
  <2>3. CASE ~(n < 4)
    BY <2>1, <2>3, PaidTypes DEF Opened, WS!Held
  <2> QED
    BY <2>2, <2>3
<1>6. due' <= due /\ due' \in Nat
  <2>1. \A i \in Slots : mw_ptrs'[i] \in {mw_ptrs[i], 0}
    BY DEF Restart, Opened
  <2>2. Due(W0)' \subseteq Due(W0) /\ Due(W0) \subseteq Slots
    BY <1>3, <2>1 DEF Due
  <2> QED
    BY <2>2, SlotsFinite, FS_Subset
<1>7. wallets_stats'[0] \in Nat /\ Id(W0) = 0
  <2>1. Wallets = {0} /\ Id(W0) = 0
    BY OneOfEach
  <2> QED
    BY <2>1 DEF TypeOK, DataOK
<1>8. PICK f1 \in Int, g1 \in Int :
        f1 = WS!Held' - wallets_stats'[0] /\ g1 = wallets_stats'[0] + due'
  BY <1>5, <1>6, <1>7
<1>9. FlowOver(f1)' /\ SignedOver(W0, g1)'
  BY <1>4, <1>5, <1>6, <1>7, <1>8 DEF FlowOver, SignedOver
<1>10. /\ kept' \in Int /\ earlier' \in Int
       /\ kept' + WS!Held' + due' <= earlier'
  <2>1. /\ kept \in Int /\ earlier \in Int /\ Lines \in Nat /\ Created \in Nat
        /\ WS!Held \in Nat /\ due \in Nat
    BY PaidTypes DEF PaidFor
  <2>2. PICK k \in Int, e \in Int, l \in Nat, c \in Nat, b \in Nat, d \in Nat :
          k = kept /\ e = earlier /\ l = Lines /\ c = Created
          /\ b = WS!Held /\ d = due
    BY <2>1, Zenon
  <2>3. PICK b1 \in Nat, d1 \in Nat : b1 = WS!Held' /\ d1 = due'
    BY <1>5, <1>6, Zenon
  <2>4. k + l + b + d <= e + c /\ b1 <= b /\ d1 <= d
    BY <1>2, <1>5, <1>6, <2>2, <2>3, Zenon
  <2>5. CASE ArgsAccepted
    <3>1. kept' = 0 /\ earlier' = e + c - (k + l)
      BY <2>2, <2>5, Zenon DEF ArgsAccepted
    <3>2. b1 + d1 <= e + c - (k + l)
      BY <2>4
    <3> QED
      BY <2>3, <3>1, <3>2
  <2>6. CASE ArgsRefused
    <3>1. kept' = k + l /\ earlier' = e + c
      BY <2>2, <2>6, Zenon DEF ArgsRefused
    <3>2. k + l + b1 + d1 <= e + c
      BY <2>4
    <3> QED
      BY <2>3, <3>1, <3>2
  <2> QED
    BY <2>5, <2>6 DEF Restart
<1>11. kept' + f1 + g1 <= earlier'
  BY <1>5, <1>6, <1>7, <1>8, <1>10
<1> QED
  BY <1>9, <1>10, <1>11 DEF PaidFor

(* With one wallet and one server, ledger.txt holds no more lines than     *)
(* transactions were created, from one run to the next: nothing a signal   *)
(* left in a buffer is done twice, and a run with a mistaken max_txs,      *)
(* which keeps the lines of the last one, adds none that was not created   *)
(* and left undone before (main.c:49-54, memory.c:25-54).                  *)
THEOREM NoneDoneTwiceOverRuns == FaultsSpec => []DoneOnceOverRuns
<1>1. CASE NWallets = 1 /\ NServers = 1
  <2> DEFINE Inv == HandOver /\ PaidFor /\ Fresh
  <2>1. FaultsInit => Inv
    <3> SUFFICES ASSUME FaultsInit PROVE Inv
      OBVIOUS
    <3>1. FlowOver(0) /\ SignedOver(W0, 0)
      BY <1>1, InitFlow, InitSigned, OneOfEach DEF FaultsInit, Flow, SignedInv
    <3> QED
      BY <1>1, <3>1, InitHandOver, InitFresh DEF FaultsInit, PaidFor
  <2>2. TypeOK /\ TypeOK' /\ Inv /\ [FaultsNext]_<<vars, faultVars>> => Inv'
    <3> SUFFICES ASSUME TypeOK, TypeOK', Inv, [FaultsNext]_<<vars, faultVars>>
                 PROVE  Inv'
      OBVIOUS
    <3>1. PICK f \in Int, g \in Int :
            FlowOver(f) /\ SignedOver(W0, g) /\ kept + f + g <= earlier
      BY DEF PaidFor
    <3>2. W0 \in WalletProcs
      BY <1>1, OneOfEach
    <3>3. CASE [Next]_vars /\ UNCHANGED <<kept, earlier>>
      <4>1. HandOver' /\ Fresh'
        BY <1>1, <3>3, NextHandOver, NextFresh
      <4>2. FlowOver(f)' /\ SignedOver(W0, g)'
        BY <1>1, <3>1, <3>2, <3>3, NextFlow, NextSigned
      <4> QED
        BY <3>1, <3>3, <4>1, <4>2 DEF PaidFor
    <3>4. ASSUME NEW c \in Children, Kill(c) PROVE Inv'
      <4>1. HandOver' /\ Fresh' /\ FlowOver(f)'
        BY <1>1, <3>1, <3>4, KillKeepsQueue, KillKeepsFresh
      <4>2. SignedOver(W0, g)'
        BY <3>1, <3>2, <3>4, KillKeepsSigned
      <4>3. UNCHANGED <<kept, earlier>>
        BY <3>4 DEF Kill, runVars
      <4> QED
        BY <3>1, <4>1, <4>2, <4>3 DEF PaidFor
    <3>5. CASE Restart
      <4>1. HandOver'
        BY <1>1, <3>5, RestartHandsOver
      <4> QED
        BY <1>1, <3>5, <4>1, RestartKeepsPaid, RestartKeepsFresh
    <3> QED
      BY <3>3, <3>4, <3>5 DEF FaultsNext, faultVars, runVars
  <2>3. TypeOK /\ Inv => DoneOnceOverRuns
    <3> SUFFICES ASSUME TypeOK, PaidFor PROVE kept + Lines <= earlier + Created
      BY DEF DoneOnceOverRuns
    <3>1. PICK f \in Int, g \in Int :
            FlowOver(f) /\ SignedOver(W0, g) /\ kept + f + g <= earlier
      BY DEF PaidFor
    <3>2. Id(W0) = 0
      BY <1>1, OneOfEach
    <3> QED
      BY <1>1, <3>1, <3>2, PaidTypes DEF PaidFor, FlowOver, SignedOver
  <2> QED
    BY <2>1, <2>2, <2>3, FaultsTyped, PTL DEF FaultsSpec
<1>2. CASE ~(NWallets = 1 /\ NServers = 1)
  <2>1. DoneOnceOverRuns
    BY <1>2 DEF DoneOnceOverRuns
  <2> QED
    BY <2>1, PTL
<1> QED
  BY <1>1, <1>2
==============================================================================
