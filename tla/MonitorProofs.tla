--------------------------- MODULE MonitorProofs ----------------------------
(***************************************************************************)
(* What the monitor thread and main may rely on although nothing locks the *)
(* arrays of txi, for every number of transactions and every period.       *)
(***************************************************************************)
EXTENDS Monitor, FiniteSetTheorems, TLAPS

(* Main registers the transactions in the order of their ids: those below  *)
(* next started, all but the one whose flag is about to be set.            *)
InOrder ==
  /\ \A k \in Ids : finished[k] # -1 <=>
       IF mpc = "flag_start" THEN k < id ELSE k < next
  /\ mpc = "flag_start" => next = id + 1
  /\ mpc = "begin" => next = 0

(* A flag is never ahead of the time it stands for. *)
Stamped ==
  /\ \A k \in Ids : /\ finished[k] # -1 => k \in start
                    /\ finished[k] = 1  => k \in end
  /\ mpc \in {"flag_start", "flag_end"} => id \in start
  /\ mpc = "flag_end" => id \in end /\ finished[id] = 0
  /\ \A k \in end : finished[k] = 1 \/ (mpc = "flag_end" /\ k = id)

(* How far a printing is: what it owes below i was shown. *)
Printed ==
  /\ TimesAssigned
  /\ tpc = "print" => finished[i] # -1
  /\ tpc \in {"look", "print"} =>
       \A k \in due : finished[k] # -1 /\ (k < i => k \in shown)
  /\ PrintingComplete
  /\ tpc # "nap" => j = 0

(* How far register_stats is.  Nothing is registered once it has begun, and *)
(* arrays that one of its counts found freed stay so: when the later count *)
(* met them throughout, the earlier one did.                               *)
CountedTx ==
  /\ txs <= IF spc = "count_tx" THEN m ELSE MaxTxs
  /\ "count_tx" \notin stale =>
       txs = CASE spc = "idle"     -> 0
               [] spc = "count_tx" -> IF m < next THEN m ELSE next
               [] OTHER            -> next

CountedFinished ==
  /\ ended <= IF spc = "count_finished" THEN m ELSE MaxTxs
  /\ spc \in {"idle", "count_tx"} => ended = 0
  /\ spc = "count_finished" /\ "count_finished" \notin stale =>
       ended = Cardinality(end \cap 0 .. m - 1)
  /\ spc = "done" /\ "count_finished" \notin stale => ended = Cardinality(end)

Counting ==
  /\ spc # "idle" => mpc \in {"closing", "closed"}
  /\ spc \in {"idle", "done"} => m = 0
  /\ stale # {} => ~allocated
  /\ spc = "idle" => stale = {}
  /\ spc = "count_tx" => "count_finished" \notin stale
  /\ spc = "done" \/ (spc = "count_finished" /\ m > 0) =>
       ("count_tx" \in stale => "count_finished" \in stale)

Counted == Counting /\ CountedTx /\ CountedFinished

(* The thread is past its loop only when the run has ended. *)
Alive ==
  /\ mpc = "begin" <=> tpc = "unborn"
  /\ tpc \in {"free", "exited"} => terminate = 1
  /\ terminate = 1 <=> mpc \in {"closing", "closed"}
  /\ tpc \notin {"unborn", "exited"} => allocated

MonitorInv == TypeOK /\ InOrder /\ Stamped /\ Printed /\ Counted /\ Alive

-----------------------------------------------------------------------------
(* The steps of the thread. *)
LEMMA ThreadKeeps ==
  ASSUME MonitorInv, ThreadStep
  PROVE  MonitorInv'
<1> USE MonitorAssumption
    DEF MonitorInv, TypeOK, InOrder, Stamped, Printed, TimesAssigned,
        PrintingComplete, Alive, Ids, Naps, arrays, main, counts
<1>1. Counted'
  BY DEF Counted, Counting, CountedTx, CountedFinished, ThreadStep,
         BeginPrinting, Look, PrintTime, EndPrinting, Nap, Sleep, LeaveWhile,
         BreakTransactionInfo
<1>2. CASE BeginPrinting
  BY <1>1, <1>2 DEF BeginPrinting
<1>3. CASE Look
  BY <1>1, <1>3 DEF Look
<1>4. CASE PrintTime
  BY <1>1, <1>4 DEF PrintTime
<1>5. CASE EndPrinting
  (* Every transaction that is due started, hence has an id below i. *)
  <2>1. \A k \in due : k < i
    BY <1>5 DEF EndPrinting
  <2> QED
    BY <1>1, <1>5, <2>1 DEF EndPrinting
<1>6. CASE Nap
  <2>1. Period \div 10 \in Nat
    BY SMT
  <2>2. tpc = "nap" /\ UNCHANGED <<terminate, allocated, arrays, i, seen, main>>
    BY <1>6 DEF Nap, Sleep
  <2>3. slept' \in Nat
    BY <1>6, <2>1 DEF Nap, Sleep
  <2>4. CASE tpc' = "while"
    <3>1. j' = 0 /\ shown' = {} /\ due' = {}
      BY <1>6, <2>4 DEF Nap, Sleep
    <3> QED
      BY <1>1, <2>2, <2>3, <2>4, <3>1
  <2>5. CASE tpc' = "nap"
    <3>1. j' = j + 1 /\ j + 1 # 10 /\ UNCHANGED <<shown, due>>
      BY <1>6, <2>5 DEF Nap, Sleep
    <3> QED
      BY <1>1, <2>2, <2>3, <2>5, <3>1
  <2>6. tpc' = "while" \/ tpc' = "nap"
    BY <1>6 DEF Nap, Sleep
  <2> QED
    BY <2>4, <2>5, <2>6
<1>7. CASE LeaveWhile
  BY <1>1, <1>7 DEF LeaveWhile
<1>8. CASE BreakTransactionInfo
  BY <1>1, <1>8 DEF BreakTransactionInfo
<1> QED
  BY <1>2, <1>3, <1>4, <1>5, <1>6, <1>7, <1>8 DEF ThreadStep

-----------------------------------------------------------------------------
(* The loops of the two counts go through the entries once each. *)
LEMMA LoopIndex ==
  ASSUME TypeOK
  PROVE  (m + 1) % MaxTxs = IF m + 1 = MaxTxs THEN 0 ELSE m + 1
BY MonitorAssumption, SMT DEF TypeOK, Ids

(* The ended transactions among the first entries are so many, *)
LEMMA EndedFinite ==
  ASSUME TypeOK, NEW n \in Int
  PROVE  IsFiniteSet(end \cap 0 .. n) /\ Cardinality(end \cap 0 .. n) \in Nat
<1>1. IsFiniteSet(0 .. n)
  BY FS_Interval
<1> QED
  BY <1>1, FS_Subset, FS_CardinalityType, end \cap 0 .. n \subseteq 0 .. n

(* and with one entry that ended one more. *)
LEMMA EndedSoFar ==
  ASSUME TypeOK, m \in end
  PROVE  Cardinality(end \cap 0 .. m) = Cardinality(end \cap 0 .. m - 1) + 1
<1>1. m \in Int /\ m - 1 \in Int
  BY MonitorAssumption DEF TypeOK, Ids
<1>2. IsFiniteSet(end \cap 0 .. m - 1)
  BY <1>1, EndedFinite
<1>3. end \cap 0 .. m = (end \cap 0 .. m - 1) \cup {m}
  BY MonitorAssumption DEF TypeOK, Ids
<1>4. m \notin end \cap 0 .. m - 1
  BY <1>1
<1> QED
  BY <1>2, <1>3, <1>4, FS_AddElement

(* Nothing that register_stats reads is written while it counts: what it   *)
(* found before the thread freed the arrays stays right.                   *)
LEMMA CountsKeep ==
  ASSUME MonitorInv, CountTx \/ CountFinished
  PROVE  MonitorInv'
<1> USE MonitorAssumption DEF MonitorInv, Ids
<1> DEFINE last == m + 1 = MaxTxs
<1>1. /\ m' = IF last THEN 0 ELSE m + 1
      /\ m \in 0 .. MaxTxs - 1 /\ m' \in 0 .. MaxTxs - 1
      /\ next \in 0 .. MaxTxs
  BY LoopIndex DEF CountTx, CountFinished, NextEntry, TypeOK
<1>2. mpc \in {"closing", "closed"}
  BY DEF Counted, Counting, CountTx, CountFinished
<1>3. UNCHANGED <<terminate, allocated, arrays, thread, mpc, next, id>>
  BY DEF CountTx, CountFinished, NextEntry
<1>4. InOrder' /\ Stamped' /\ Printed' /\ Alive'
  BY <1>3 DEF InOrder, Stamped, Printed, TimesAssigned, PrintingComplete, Alive,
              arrays, thread
<1>5. /\ finished[m] # -1 <=> m < next
      /\ finished[m] = 1 <=> m \in end
  BY <1>1, <1>2 DEF InOrder, Stamped
<1>6. CASE CountTx
  <2>1. /\ txs' = txs \/ txs' = txs + 1
        /\ allocated => txs' = txs + (IF m < next THEN 1 ELSE 0)
    BY <1>5, <1>6 DEF CountTx, Entry, TypeOK
  <2>2. /\ stale' = IF allocated THEN stale ELSE stale \cup {"count_tx"}
        /\ spc = "count_tx" /\ ended' = ended
        /\ spc' = IF last THEN "count_finished" ELSE "count_tx"
    BY <1>6 DEF CountTx, NextEntry
  <2>3. CountedTx'
    BY <1>1, <1>3, <2>1, <2>2 DEF TypeOK, Counted, Counting, CountedTx
  <2>4. Counting'
    BY <1>1, <1>2, <1>3, <2>2 DEF TypeOK, Counted, Counting
  <2>5. CountedFinished'
    <3>1. last => Cardinality(end' \cap 0 .. m' - 1) = 0
      BY <1>1, FS_EmptySet, last => end' \cap 0 .. m' - 1 = {}
    <3>2. ended' = 0 /\ (~last => spc' = "count_tx")
      BY <2>2 DEF Counted, CountedFinished
    <3> QED
      BY <1>1, <2>2, <3>1, <3>2 DEF CountedFinished
  <2>6. TypeOK'
    BY <1>1, <1>3, <2>1, <2>2, <2>3
    DEF TypeOK, Counted, CountedTx, arrays, thread, Naps
  <2> QED
    BY <1>4, <2>3, <2>4, <2>5, <2>6 DEF Counted
<1>7. CASE CountFinished
  <2>1. /\ ended' = ended \/ ended' = ended + 1
        /\ allocated => ended' = ended + (IF m \in end THEN 1 ELSE 0)
    BY <1>5, <1>7 DEF CountFinished, Entry, TypeOK
  <2>2. /\ stale' = IF allocated THEN stale ELSE stale \cup {"count_finished"}
        /\ spc = "count_finished" /\ txs' = txs
        /\ spc' = IF last THEN "done" ELSE "count_finished"
    BY <1>7 DEF CountFinished, NextEntry
  <2>3. CountedTx'
    BY <1>1, <1>3, <2>2 DEF TypeOK, Counted, Counting, CountedTx
  <2>4. Counting'
    BY <1>1, <1>2, <1>3, <2>2 DEF TypeOK, Counted, Counting
  <2>5. CountedFinished'
    <3> DEFINE upTo(n) == Cardinality(end \cap 0 .. n)
    <3>1. upTo(m) = upTo(m - 1) + (IF m \in end THEN 1 ELSE 0)
      <4>1. CASE m \in end
        BY <4>1, EndedSoFar
      <4>2. CASE m \notin end
        <5>1. end \cap 0 .. m = end \cap 0 .. m - 1
          BY <1>1, <4>2
        <5>2. upTo(m) \in Nat
          <6>1. TypeOK /\ m \in Int
            BY <1>1
          <6> QED
            BY <6>1, EndedFinite
        <5> QED
          BY <4>2, <5>1, <5>2
      <4> QED
        BY <4>1, <4>2
    <3>2. last => end \cap 0 .. m = end
      <4>1. last => \A e \in end : e \in 0 .. m
        BY <1>1 DEF TypeOK
      <4> QED
        BY <4>1
    <3>3. end' = end /\ (~last => m' - 1 = m)
      BY <1>1, <1>3 DEF arrays
    <3>4. /\ ended \in 0 .. MaxTxs /\ ended <= m
          /\ "count_finished" \notin stale => ended = upTo(m - 1)
      BY <2>2 DEF TypeOK, Counted, CountedFinished
    <3>5. "count_finished" \notin stale' => ended' = upTo(m)
      BY <2>1, <2>2, <3>1, <3>4
    <3>6. /\ last => upTo(m) = Cardinality(end')
          /\ ~last => Cardinality(end' \cap 0 .. m' - 1) = upTo(m)
      BY <3>2, <3>3
    <3> HIDE DEF upTo
    <3>7. ended' <= IF last THEN MaxTxs ELSE m'
      BY <1>1, <2>1, <3>4
    <3> QED
      BY <2>2, <3>5, <3>6, <3>7 DEF CountedFinished
  <2>6. TypeOK'
    BY <1>1, <1>3, <2>1, <2>2, <2>5
    DEF TypeOK, Counted, CountedFinished, arrays, thread, Naps
  <2> QED
    BY <1>4, <2>3, <2>4, <2>5, <2>6 DEF Counted
<1> QED
  BY <1>6, <1>7

(* The steps of main, asked for or not. *)
LEMMA MainKeeps ==
  ASSUME MonitorInv, MainStep \/ UserStep
  PROVE  MonitorInv'
<1> USE MonitorAssumption
    DEF MonitorInv, TypeOK, InOrder, Stamped, Printed, TimesAssigned,
        PrintingComplete, Alive, Ids, Naps, arrays, thread, counts
<1>1. CASE CountTx \/ CountFinished
  BY <1>1, CountsKeep
<1>2. CASE RegisterStats
  <2>1. Counted'
    BY <1>2 DEF RegisterStats, Counted, Counting, CountedTx, CountedFinished
  <2> QED
    BY <1>2, <2>1 DEF RegisterStats
<1>3. Counted' \/ CountTx \/ CountFinished \/ RegisterStats
  BY DEF MainStep, UserStep, StartPrint, StampStart, FlagStart, StampEnd, FlagEnd,
         EndExecution, EndPrint, Counted, Counting, CountedTx, CountedFinished
<1>4. CASE StartPrint
  BY <1>1, <1>2, <1>3, <1>4 DEF StartPrint
<1>5. CASE StampStart
  BY <1>1, <1>2, <1>3, <1>5 DEF StampStart
<1>6. CASE FlagStart
  BY <1>1, <1>2, <1>3, <1>6 DEF FlagStart
<1>7. ASSUME NEW k \in Ids, StampEnd(k) PROVE MonitorInv'
  BY <1>1, <1>2, <1>3, <1>7 DEF StampEnd, TxIsRunning
<1>8. CASE FlagEnd
  BY <1>1, <1>2, <1>3, <1>8 DEF FlagEnd
<1>9. CASE EndExecution
  BY <1>1, <1>2, <1>3, <1>9 DEF EndExecution
<1>10. CASE EndPrint
  BY <1>1, <1>2, <1>3, <1>10 DEF EndPrint
<1> QED
  BY <1>1, <1>2, <1>4, <1>5, <1>6, <1>7, <1>8, <1>9, <1>10 DEF MainStep, UserStep

LEMMA MonitorInvariant == Spec => []MonitorInv
<1>1. Init => MonitorInv
  <2> SUFFICES ASSUME Init PROVE MonitorInv
    OBVIOUS
  <2>1. TypeOK
    <3>1. finished \in [Ids -> {-1, 0, 1}]
      BY DEF Init
    <3>2. allocated \in BOOLEAN
      BY DEF Init
    <3> QED
      BY <3>1, <3>2, MonitorAssumption DEF Init, TypeOK, Ids, Naps
  <2>2. InOrder /\ Stamped
    BY MonitorAssumption DEF Init, InOrder, Stamped, Ids
  <2>3. Printed /\ Counted /\ Alive
    BY MonitorAssumption
    DEF Init, Printed, TimesAssigned, PrintingComplete, Counted, Counting,
        CountedTx, CountedFinished, Alive
  <2> QED
    BY <2>1, <2>2, <2>3 DEF MonitorInv
<1>2. MonitorInv /\ [Next]_vars => MonitorInv'
  <2> SUFFICES ASSUME MonitorInv, [Next]_vars PROVE MonitorInv'
    OBVIOUS
  <2>1. CASE UNCHANGED vars
    BY <2>1 DEF vars, arrays, thread, main, counts, MonitorInv, TypeOK, Ids,
                InOrder, Stamped, Printed, TimesAssigned, PrintingComplete,
                Counted, Counting, CountedTx, CountedFinished, Alive
  <2>2. CASE Next
    BY <2>1, <2>2, ThreadKeeps, MainKeeps DEF Next, Done
  <2> QED
    BY <2>1, <2>2
<1> QED
  BY <1>1, <1>2, PTL DEF Spec

-----------------------------------------------------------------------------
(* Type correctness: neither thread indexes the arrays of txi outside      *)
(* their max_txs entries.                                                  *)
THEOREM MonitorTyped == Spec => []TypeOK
<1>1. MonitorInv => TypeOK
  BY DEF MonitorInv
<1> QED
  BY <1>1, MonitorInvariant, PTL

(* The thread computes elapsed times from assigned time stamps only        *)
(* (csignal.c:92-109, 124-136).                                            *)
THEOREM OnlyAssignedTimesPrinted == Spec => []TimesAssigned
<1>1. MonitorInv => TimesAssigned
  BY DEF MonitorInv, Printed
<1> QED
  BY <1>1, MonitorInvariant, PTL

(* Each printing shows every transaction that had started when it began    *)
(* (csignal.c:149-154).                                                    *)
THEOREM EveryPrintingComplete == Spec => []PrintingComplete
<1>1. MonitorInv => PrintingComplete
  BY DEF MonitorInv, Printed
<1> QED
  BY <1>1, MonitorInvariant, PTL

(* The arrays are not freed under main while it registers transactions     *)
(* (csignal.c:148, 163).                                                   *)
THEOREM ArraysOutliveRegistrations == Spec => []AllocatedWhileRunning
<1>1. MonitorInv => AllocatedWhileRunning
  BY DEF MonitorInv, Alive, AllocatedWhileRunning
<1> QED
  BY <1>1, MonitorInvariant, PTL

(* The final statistics are right as far as register_stats met the arrays *)
(* that the thread frees: in the first of its two loops, which read them   *)
(* unlocked, or in both (cstats.c:131, 135, csignal.c:163, 195-218).       *)
THEOREM FinalCountsRight == Spec => []CountsWhileAllocated
<1>1. MonitorInv => CountsWhileAllocated
  BY DEF MonitorInv, Counted, Counting, CountedTx, CountedFinished,
         CountsWhileAllocated
<1> QED
  BY <1>1, MonitorInvariant, PTL

-----------------------------------------------------------------------------
(* The seconds slept between the beginnings of two printings are not the   *)
(* ones given, but fewer by less than ten: each of ten sleeps is of a      *)
(* tenth of them, rounded down (csignal.c:155-160).                        *)
PeriodRounded ==
  [][tpc = "while" /\ tpc' = "look" => Period - slept \in 0 .. Naps - 1]_vars

(* Where the thread is tells how long it has slept since the last printing *)
(* began: nothing, j parts, or the ten of them.                            *)
Paced ==
  /\ tpc = "unborn" => slept = Period
  /\ tpc \in {"look", "print"} => slept = 0
  /\ tpc = "nap" => slept = j * (Period \div Naps)
  /\ tpc = "while" /\ terminate # 1 => Period - slept \in 0 .. Naps - 1

(* Ten parts of a tenth, each rounded down, lose less than ten seconds.    *)
LEMMA TenParts ==
  ASSUME NEW part, part = Period \div Naps
  PROVE  part \in Nat /\ Period - Naps * part \in 0 .. Naps - 1
BY MonitorAssumption, SMT DEF Naps

(* A sleep adds one part, and main, which may set terminate, adds none.    *)
LEMMA PacedKept ==
  ASSUME MonitorInv, Paced, [Next]_vars
  PROVE  Paced'
<1> DEFINE part == Period \div Naps
<1>1. TypeOK /\ Alive /\ (tpc # "nap" => j = 0)
  BY DEF MonitorInv, Printed
<1>2. part \in Nat /\ Period - Naps * part \in 0 .. Naps - 1
  BY TenParts
<1> USE <1>1 DEF Paced, TypeOK, Alive, arrays, thread, main, counts
<1>3. CASE Nap
  <2> HIDE DEF part
  <2>1. Paced' <=>
          /\ tpc' = "nap" => slept' = j' * part
          /\ tpc' = "while" /\ terminate' # 1 =>
               Period - slept' \in 0 .. Naps - 1
    BY <1>3 DEF Nap, Sleep, part
  <2>2. slept = j * part /\ slept' = slept + part
    BY <1>3 DEF Nap, Sleep, part
  <2>3. tpc' = "nap" => slept' = j' * part
    <3> SUFFICES ASSUME tpc' = "nap" PROVE slept' = j' * part
      OBVIOUS
    <3>1. j' = j + 1
      BY <1>3 DEF Nap, Sleep
    <3> QED
      BY <1>2, <2>2, <3>1, SMT
  <2>4. tpc' = "while" /\ terminate' # 1 => slept' = Naps * part
    <3> SUFFICES ASSUME tpc' = "while", terminate' # 1 PROVE slept' = Naps * part
      OBVIOUS
    <3>1. j + 1 = Naps
      BY <1>3 DEF Nap, Sleep
    <3> QED
      BY <1>2, <2>2, <3>1, SMT DEF Naps
  <2> QED
    BY <1>2, <2>1, <2>3, <2>4
<1>4. CASE EndPrinting
  <2>1. 0 * part = 0
    BY <1>2, SMT
  <2> QED
    BY <1>4, <2>1 DEF EndPrinting
<1>5. CASE BeginPrinting \/ Look \/ PrintTime \/ LeaveWhile
           \/ BreakTransactionInfo
  BY <1>5 DEF BeginPrinting, Look, PrintTime, LeaveWhile, BreakTransactionInfo
<1>6. CASE StartPrint
  <2>1. slept = Period
    BY <1>6 DEF StartPrint
  <2> QED
    BY <1>6, <2>1, MonitorAssumption DEF StartPrint, Naps
<1>7. CASE UserStep \/ FlagStart \/ FlagEnd \/ EndPrint \/ CountTx
           \/ CountFinished \/ UNCHANGED vars
  BY <1>7 DEF UserStep, StampStart, StampEnd, EndExecution, RegisterStats,
              FlagStart, FlagEnd, EndPrint, CountTx, CountFinished, NextEntry,
              vars
<1> QED
  BY <1>3, <1>4, <1>5, <1>6, <1>7 DEF Next, ThreadStep, MainStep, Done

(* However the threads interleave, and wherever the end of the run finds   *)
(* the thread, a printing begins no earlier than nine seconds before the   *)
(* time given and no later than it, in time slept (csignal.c:147-161).     *)
THEOREM PeriodsRoundedDown == Spec => PeriodRounded
<1>1. Init => Paced
  BY MonitorAssumption DEF Init, Paced, Naps
<1>2. MonitorInv /\ MonitorInv' /\ Paced /\ [Next]_vars => Paced'
  BY PacedKept
<1>3. MonitorInv /\ Paced /\ [Next]_vars =>
        [tpc = "while" /\ tpc' = "look" =>
           Period - slept \in 0 .. Naps - 1]_vars
  <2> SUFFICES ASSUME MonitorInv, Paced, Next, tpc = "while", tpc' = "look"
               PROVE  terminate # 1
    BY DEF Paced, vars, thread
  <2> QED
    BY DEF Next, ThreadStep, MainStep, UserStep, Done, BeginPrinting, Look,
           PrintTime, EndPrinting, Nap, Sleep, LeaveWhile, BreakTransactionInfo,
           StartPrint, StampStart, FlagStart, StampEnd, FlagEnd, EndExecution,
           EndPrint, RegisterStats, CountTx, CountFinished, NextEntry, vars,
           thread, MonitorInv, Alive
<1> QED
  BY <1>1, <1>2, <1>3, MonitorInvariant, PTL DEF Spec, PeriodRounded
=============================================================================
