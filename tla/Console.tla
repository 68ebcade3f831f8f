------------------------------ MODULE Console -------------------------------
(***************************************************************************)
(* SOchain with what the user typed: user_interaction (main.c) reads       *)
(* commands and their arguments, word by word, from a standard input that  *)
(* comes to its end.  SOchain lets the user give any command of Transfers  *)
(* and RcpIds at any time; here each one is scanned.                       *)
(***************************************************************************)
EXTENDS SOchain

CONSTANTS
  Scripts,  \* the inputs: sequences of words, none longer than input[10]
  Value     \* numeral -> the number that scanf makes of it

ASSUME ScriptsAssumption == \A s \in Scripts : s \in Seq(STRING)

(* The commands of Transfers and RcpIds are the ones that are typed. *)
ASSUME TypedAssumption ==
  \A s \in Scripts : \A i \in 1 .. Len(s) :
    LET numerals(n) == i + n <= Len(s) /\ \A k \in 1 .. n : s[i+k] \in DOMAIN Value
    IN /\ s[i] = "trx" /\ numerals(3) =>
            <<Value[s[i+1]], Value[s[i+2]], Value[s[i+3]]>> \in Transfers
       /\ s[i] = "rcp" /\ numerals(1) => Value[s[i+1]] \in RcpIds

VARIABLES
  stdin,  \* the words not scanned yet
  input   \* input: the word scanned last

consoleVars == <<stdin, input>>

(* No command is found in an array that nothing was read into. *)
ConsoleInit == Init /\ stdin \in Scripts /\ input = "unassigned"

-----------------------------------------------------------------------------
(* scanf("%s", input): at the end of the input the array keeps its word. *)
AtEOF == stdin = <<>>
Word  == IF AtEOF THEN input ELSE Head(stdin)
Args  == IF AtEOF THEN <<>> ELSE Tail(stdin)

(* What a scanf of n numbers returns: how many of the next words it could  *)
(* convert, stopping at the first that is not a number; -1 at the end.     *)
Scanned(n) ==
  LET numerals(k) == k <= Len(Args) /\ \A i \in 1 .. k : Args[i] \in DOMAIN Value
  IN IF Args = <<>> THEN -1
     ELSE CHOOSE k \in 0 .. n : numerals(k) /\ ~ (k < n /\ numerals(k + 1))

Arg(i) == Value[Args[i]]

(* A faulty variant of Consume: the word that stopped a scan is lost. *)
ConsumeMismatch(valid, n) ==
  /\ input' = Word
  /\ stdin' = SubSeq(Args, IF valid < n THEN valid + 2 ELSE valid + 1, Len(Args))

(* The command is read, and of its n arguments the valid first ones: the   *)
(* word that stopped a scan stays, to be read as the next command.         *)
Consume(valid, n) ==
  /\ input' = Word
  /\ stdin' = IF valid = -1 THEN <<>> ELSE SubSeq(Args, valid + 1, Len(Args))

-----------------------------------------------------------------------------
(* One turn of the loop of user_interaction, by the word it found. *)

(* create_transaction.  Its faulty variant takes the end of the input,     *)
(* for which scanf returns -1, for success, and repeats the last transfer. *)
TrxAtEOF ==
  LET n == Scanned(3)
  IN /\ Word = "trx"
     /\ Consume(n, 3)
     /\ \/ n = 3 /\ CreateTransaction(Arg(1), Arg(2), Arg(3))
        \/ n = -1 /\ CreateTransaction(0, 0, 1)

Trx ==
  LET n == Scanned(3)
  IN /\ Word = "trx"
     /\ Consume(n, 3)
     /\ n = 3
     /\ CreateTransaction(Arg(1), Arg(2), Arg(3))

(* receive_receipt.  Its faulty variant takes an id that was not read,     *)
(* whatever the stack held.                                                *)
RcpUnread ==
  LET n == Scanned(1)
  IN /\ Word = "rcp"
     /\ Consume(n, 1)
     /\ AskReceipt(IF n = 1 THEN Arg(1) ELSE 7)

Rcp ==
  LET n == Scanned(1)
  IN /\ Word = "rcp"
     /\ Consume(n, 1)
     /\ n = 1
     /\ AskReceipt(Arg(1))

(* Both refuse what could not be scanned, and create_transaction what it   *)
(* does not accept.  print_balance prints, or refuses, with one number.    *)
Refuse ==
  /\ pc[Main] = "prompt"
  /\ \/ /\ Word = "trx"
        /\ LET n == Scanned(3)
           IN /\ n = 3 => ~ Accepted(Arg(1), Arg(2), Arg(3))
              /\ Consume(n, 3)
     \/ Word = "rcp" /\ Scanned(1) # 1 /\ Consume(Scanned(1), 1)
     \/ Word = "bal" /\ Consume(Scanned(1), 1)
  /\ UNCHANGED vars

(* stat, help, and what is no command: nothing else is scanned. *)
Show ==
  /\ pc[Main] = "prompt"
  /\ Word \notin {"trx", "rcp", "bal", "end"}
  /\ Consume(0, 0)
  /\ UNCHANGED vars

End ==
  /\ Word = "end"
  /\ Consume(0, 0)
  /\ EndExecution

Turn == Trx \/ Rcp \/ Refuse \/ Show \/ End

ConsoleNext ==
  \/ Turn
  \/ MainStep /\ UNCHANGED consoleVars
  \/ \E p \in WalletProcs : WalletStep(p) /\ UNCHANGED consoleVars
  \/ \E p \in ServerProcs : ServerStep(p) /\ UNCHANGED consoleVars
  \/ Done /\ UNCHANGED consoleVars

ConsoleSpec == ConsoleInit /\ [][ConsoleNext]_<<vars, consoleVars>>

(* The input is a file or a pipe, so that scanf does not wait. *)
FairConsoleSpec == ConsoleSpec /\ Fairness /\ WF_<<vars, consoleVars>>(Turn)
-----------------------------------------------------------------------------
(* Whatever is typed, the commands that main carries out are transfers and *)
(* receipts somebody typed after trx and rcp (Transfers and RcpIds are     *)
(* these): the number a refused command left on the input is no part of    *)
(* another one (main.c:153, 246, 301).                                     *)
OnlyTyped == Spec

(* An end that was typed ends the run, whatever surrounds it: no scan of   *)
(* numbers swallows it (main.c:225, 246, 301).                             *)
EndObeyed == (\E i \in 1 .. Len(stdin) : stdin[i] = "end") ~> pc[Main] = "done"

(* Without it the loop never ends: at the end of the input it turns on     *)
(* with its last word, and that creates nothing (main.c:152-190).          *)
QuietAtEOF ==
  [][AtEOF /\ input # "end" /\ pc[Main] = "prompt" => pc'[Main] = "prompt"]_vars
=============================================================================
