------------------------------ MODULE Monitor -------------------------------
(***************************************************************************)
(* The monitor thread (csignal.c) and main, which registers when each      *)
(* transaction starts and ends.  Both share the arrays of txi, unlocked.   *)
(* Nothing in the built program calls these functions: main is modelled    *)
(* as inc/csignal.h means them to be used, and counts at the end as        *)
(* register_stats does (cstats.c).                                         *)
(***************************************************************************)
EXTENDS Integers, FiniteSets

CONSTANTS
  MaxTxs,  \* info->max_txs
  Period   \* the time given to start_print_transactions_info, in seconds

(* With 0 there is no thread; below 0 it frees the arrays and ends at once.*)
ASSUME MonitorAssumption == MaxTxs \in Nat \ {0} /\ Period \in Nat \ {0}

Ids == 0 .. MaxTxs - 1

VARIABLES
  terminate,   \* *info->terminate
  finished,    \* txi.finished: -1 not started, 0 running, 1 ended
  start, end,  \* the entries of txi.start and txi.end assigned so far
  allocated,   \* whether the arrays of txi are allocated
  tpc, i, j,   \* thread: where it is, its loop indexes
  seen,        \* thread: the state of transaction i it found
  slept,       \* thread: seconds slept since the last printing began
  shown, due,  \* this printing: what was shown, what ran when it began
  mpc, next,   \* main: where it is, transactions created
  id,          \* main: the transaction it is registering
  spc, m,      \* main: where it is in register_stats, its loop index
  txs, ended,  \* main: what how_many_tx and how_many_finished count
  stale        \* history: which of the two counted freed memory

arrays == <<finished, start, end>>
thread == <<tpc, i, j, seen, slept, shown, due>>
counts == <<spc, m, txs, ended, stale>>
main   == <<mpc, next, id, counts>>
vars   == <<terminate, allocated, arrays, thread, main>>

(* Before start_print_transactions_info. *)
Init ==
  /\ terminate = 0
  /\ allocated = FALSE
  /\ finished = [k \in Ids |-> -1] /\ start = {} /\ end = {}
  /\ tpc = "unborn" /\ i = 0 /\ j = 0 /\ seen = -1 /\ slept = Period
  /\ shown = {} /\ due = {}
  /\ mpc = "begin" /\ next = 0 /\ id = 0
  /\ spc = "idle" /\ m = 0 /\ txs = 0 /\ ended = 0 /\ stale = {}

-----------------------------------------------------------------------------
(* The callers *)

(* start_print_transactions_info: the arrays, then the thread. *)
StartPrint ==
  /\ mpc = "begin"
  /\ allocated' = TRUE
  /\ finished' = [k \in Ids |-> -1]
  /\ tpc' = "while"
  /\ mpc' = "idle"
  /\ UNCHANGED <<terminate, start, end, i, j, seen, slept, shown, due,
                 next, id, counts>>

(* A faulty variant of StampStart: the flag is set before the time. *)
StampStartFlags ==
  /\ mpc = "idle"
  /\ next < MaxTxs
  /\ finished' = [finished EXCEPT ![next] = 0]
  /\ id' = next
  /\ next' = next + 1
  /\ mpc' = "flag_start"
  /\ UNCHANGED <<terminate, allocated, start, end, thread, counts>>

(* register_start_transaction_time for the next transaction. *)
StampStart ==
  /\ mpc = "idle"
  /\ next < MaxTxs
  /\ start' = start \cup {next}
  /\ id' = next
  /\ next' = next + 1
  /\ mpc' = "flag_start"
  /\ UNCHANGED <<terminate, allocated, finished, end, thread, counts>>

FlagStart ==
  /\ mpc = "flag_start"
  /\ finished' = [finished EXCEPT ![id] = 0]
  /\ mpc' = "idle" /\ id' = 0
  /\ UNCHANGED <<terminate, allocated, start, end, thread, next, counts>>

(* tx_isrunning *)
TxIsRunning(k) == k < MaxTxs /\ finished[k] = 0

(* register_end_transaction_time for a transaction that runs. *)
StampEnd(k) ==
  /\ mpc = "idle"
  /\ TxIsRunning(k)
  /\ end' = end \cup {k}
  /\ id' = k
  /\ mpc' = "flag_end"
  /\ UNCHANGED <<terminate, allocated, finished, start, thread, next, counts>>

(* A faulty variant of FlagEnd: the flag of the next one is set. *)
FlagEndNext ==
  /\ mpc = "flag_end"
  /\ finished' = [finished EXCEPT ![(id + 1) % MaxTxs] = 1]
  /\ mpc' = "idle" /\ id' = 0
  /\ UNCHANGED <<terminate, allocated, start, end, thread, next, counts>>

(* The rest of register_end_transaction_time. *)
FlagEnd ==
  /\ mpc = "flag_end"
  /\ finished' = [finished EXCEPT ![id] = 1]
  /\ mpc' = "idle" /\ id' = 0
  /\ UNCHANGED <<terminate, allocated, start, end, thread, next, counts>>

(* The end of the run (end_execution), the wait for the thread             *)
(* (end_print_transaction_time) and, before or after it, register_stats.   *)
EndExecution ==
  /\ mpc = "idle"
  /\ terminate' = 1
  /\ mpc' = "closing"
  /\ UNCHANGED <<allocated, arrays, thread, next, id, counts>>

EndPrint ==
  /\ mpc = "closing"
  /\ spc \in {"idle", "done"}
  /\ tpc = "exited"
  /\ mpc' = "closed"
  /\ UNCHANGED <<terminate, allocated, arrays, thread, next, id, counts>>

RegisterStats ==
  /\ mpc \in {"closing", "closed"}
  /\ spc = "idle"
  /\ spc' = "count_tx"
  /\ UNCHANGED <<terminate, allocated, arrays, thread, mpc, next, id, m, txs,
                 ended, stale>>

(* What a loop of a count finds in entry k: freed memory holds anything.   *)
Entry(k) == IF allocated THEN {finished[k]} ELSE {-1, 0, 1}

(* The next turn of the loop of a count, or what comes after the last one. *)
NextEntry(count, after) ==
  /\ stale' = IF allocated THEN stale ELSE stale \cup {count}
  /\ m' = (m + 1) % MaxTxs
  /\ spc' = IF m + 1 = MaxTxs THEN after ELSE count
  /\ UNCHANGED <<terminate, allocated, arrays, thread, mpc, next, id>>

(* how_many_tx, then how_many_finished, an entry at a time, unlocked. *)
CountTx ==
  /\ spc = "count_tx"
  /\ \E s \in Entry(m) : txs' = txs + (IF s # -1 THEN 1 ELSE 0)
  /\ NextEntry("count_tx", "count_finished")
  /\ UNCHANGED ended

CountFinished ==
  /\ spc = "count_finished"
  /\ \E s \in Entry(m) : ended' = ended + (IF s = 1 THEN 1 ELSE 0)
  /\ NextEntry("count_finished", "done")
  /\ UNCHANGED txs

-----------------------------------------------------------------------------
(* print_transactions_info_thread *)

(* A faulty variant of BeginPrinting: terminate is not looked at. *)
BeginPrintingAgain ==
  /\ tpc = "while"
  /\ tpc' = "look"
  /\ i' = 0
  /\ slept' = 0
  /\ shown' = {}
  /\ due' = {k \in Ids : finished[k] # -1}
  /\ UNCHANGED <<terminate, allocated, arrays, j, seen, main>>

(* terminate is not set: a printing begins. *)
BeginPrinting ==
  /\ tpc = "while"
  /\ terminate # 1
  /\ tpc' = "look"
  /\ i' = 0
  /\ slept' = 0
  /\ shown' = {}
  /\ due' = {k \in Ids : finished[k] # -1}
  /\ UNCHANGED <<terminate, allocated, arrays, j, seen, main>>

(* The state of transaction i.  The code reads it twice, here as one:      *)
(* a transaction that started never reads as not started again.            *)
Look ==
  /\ tpc = "look"
  /\ i < MaxTxs
  /\ finished[i] # -1
  /\ seen' = finished[i]
  /\ tpc' = "print"
  /\ UNCHANGED <<terminate, allocated, arrays, i, j, slept, shown, due, main>>

(* print_time_from_transaction: from the start to the end, or to now. *)
PrintTime ==
  /\ tpc = "print"
  /\ shown' = shown \cup {i}
  /\ i' = i + 1
  /\ seen' = -1
  /\ tpc' = "look"
  /\ UNCHANGED <<terminate, allocated, arrays, j, slept, due, main>>

(* A faulty variant of EndPrinting: the first that is not running ends it. *)
EndPrintingEarly ==
  /\ tpc = "look"
  /\ i < MaxTxs => finished[i] # 0
  /\ i' = 0
  /\ tpc' = "nap"
  /\ UNCHANGED <<terminate, allocated, arrays, j, seen, slept, shown, due, main>>

(* The first transaction that did not start ends the printing. *)
EndPrinting ==
  /\ tpc = "look"
  /\ i < MaxTxs => finished[i] = -1
  /\ i' = 0
  /\ tpc' = "nap"
  /\ UNCHANGED <<terminate, allocated, arrays, j, seen, slept, shown, due, main>>

Naps == 10

(* A turn of the loop of sleeps, and what comes after the last one. *)
Sleep(last, after) ==
  /\ tpc = "nap"
  /\ slept' = slept + Period \div Naps
  /\ IF terminate = 1 \/ last
     THEN tpc' = after /\ j' = 0 /\ shown' = {} /\ due' = {}
     ELSE tpc' = tpc /\ j' = j + 1 /\ UNCHANGED <<shown, due>>
  /\ UNCHANGED <<terminate, allocated, arrays, i, seen, main>>

(* Faulty variants of Nap: one sleep too many, no return to the while. *)
NapOnceMore == Sleep(j = Naps, "while")
NapThenFree == Sleep(j + 1 = Naps, "free")

(* Ten sleeps of time/10 seconds, terminate looked at after each. *)
Nap == Sleep(j + 1 = Naps, "while")

LeaveWhile ==
  /\ tpc = "while"
  /\ terminate = 1
  /\ tpc' = "free"
  /\ UNCHANGED <<terminate, allocated, arrays, i, j, seen, slept, shown, due,
                 main>>

(* break_transaction_info, then pthread_exit. *)
BreakTransactionInfo ==
  /\ tpc = "free"
  /\ allocated' = FALSE
  /\ tpc' = "exited"
  /\ UNCHANGED <<terminate, arrays, i, j, seen, slept, shown, due, main>>

-----------------------------------------------------------------------------
ThreadStep == BeginPrinting \/ Look \/ PrintTime \/ EndPrinting \/ Nap
              \/ LeaveWhile \/ BreakTransactionInfo

(* What main finishes on its own, and what it may be asked to do. *)
MainStep == StartPrint \/ FlagStart \/ FlagEnd \/ EndPrint \/ CountTx
            \/ CountFinished

UserStep == StampStart \/ (\E k \in Ids : StampEnd(k)) \/ EndExecution
            \/ RegisterStats

Done == mpc = "closed" /\ spc = "done" /\ UNCHANGED vars

Next == ThreadStep \/ MainStep \/ UserStep \/ Done

Spec == Init /\ [][Next]_vars

(* The kernel schedules both threads, and a sleep ends. *)
FairSpec == Spec /\ WF_vars(ThreadStep) /\ WF_vars(MainStep)
-----------------------------------------------------------------------------
(* Type invariant: each index is inside the array it indexes. *)
TypeOK ==
  /\ terminate \in {0, 1} /\ allocated \in BOOLEAN
  /\ finished \in [Ids -> {-1, 0, 1}] /\ start \subseteq Ids /\ end \subseteq Ids
  /\ tpc \in {"unborn", "while", "look", "print", "nap", "free", "exited"}
  /\ i \in 0 .. MaxTxs /\ (tpc = "print" => i < MaxTxs)
  /\ j \in 0 .. Naps /\ (tpc = "nap" => j < Naps)
  /\ seen \in {-1, 0, 1} /\ slept \in Nat
  /\ shown \subseteq Ids /\ due \subseteq Ids
  /\ mpc \in {"begin", "idle", "flag_start", "flag_end", "closing", "closed"}
  /\ next \in 0 .. MaxTxs /\ id \in Ids
  /\ spc \in {"idle", "count_tx", "count_finished", "done"}
  /\ m \in Ids /\ txs \in 0 .. MaxTxs /\ ended \in 0 .. MaxTxs
  /\ stale \subseteq {"count_tx", "count_finished"}

(* The thread computes no time from an entry that was not assigned: main   *)
(* stores the time before the flag (csignal.c:125-126, 134-135), and the   *)
(* thread reads the flag before the time (csignal.c:94-106).               *)
TimesAssigned ==
  tpc = "print" => /\ seen # -1
                   /\ i \in start
                   /\ seen = 1 => i \in end

(* A printing leaves out no transaction that had started when it began,    *)
(* although it stops at the first that has not (csignal.c:150-152).        *)
PrintingComplete == tpc = "nap" => due \subseteq shown

(* The arrays are there as long as main may register transactions: the     *)
(* thread, which frees them, does not leave before the end of the run      *)
(* (csignal.c:148, 163).                                                   *)
AllocatedWhileRunning == mpc \in {"idle", "flag_start", "flag_end"} => allocated

(* The count of the transactions that started is right unless the thread   *)
(* freed the arrays before or during it, and if the later count of those   *)
(* that ended met the arrays then both are: no registration is ever left   *)
(* half done (cstats.c:131, 135, csignal.c:163, 195-218).                  *)
CountsWhileAllocated ==
  spc = "done" =>
    /\ "count_tx" \notin stale => txs = next
    /\ "count_finished" \notin stale =>
         txs = next /\ ended = Cardinality(end)

(* Once the run ends the thread ends, wherever it was, and main's join     *)
(* returns (csignal.c:157-159, 187).                                       *)
MonitorStops == terminate = 1 ~> mpc = "closed"

(* time is the interval between printings in seconds (csignal.c:170): the  *)
(* thread begins a printing when it has slept that long since it began the *)
(* last one.                                                               *)
PeriodKept == [][tpc = "while" /\ tpc' = "look" => slept = Period]_vars
=============================================================================
