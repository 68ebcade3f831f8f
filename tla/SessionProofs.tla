---------------------------- MODULE SessionProofs ---------------------------
(***************************************************************************)
(* Proofs about what outlives a run, whatever former runs left: for any    *)
(* processes that register operations and any number of operations.  Then  *)
(* that Session, which composes it with the monitor, keeps to both.        *)
(***************************************************************************)
EXTENDS Session, MonitorProofs

(* Where main is, and which of the names its loops have passed. *)
SemInv ==
  /\ place \in {"create", "run", "append_stat", "destroy", "gone"}
  /\ k \in Sems /\ named \subseteq Sems
  /\ place \in {"run", "append_stat", "gone"} => k = 0
  /\ place = "destroy" => \A n \in named : n >= k
  /\ EndHeals

LogTypes ==
  /\ flag_log \in [Loggers -> {0, 1}]
  /\ has_name \in [Loggers -> BOOLEAN]
  /\ calling \in [Loggers -> {"no", "header", "append"}]
  /\ headed \in BOOLEAN
  /\ ops \in Nat
  /\ opener \in Loggers \cup {"nobody"}
  /\ \A l \in written : l \in Loggers \X Nat /\ l[2] < ops

(* A process writes lines only when it has emptied the log and written its *)
(* header: as long as the last one to empty it has not, it wrote no line,  *)
(* and until a header is written every line that one may fall on is of     *)
(* others.                                                                 *)
LogInv ==
  /\ LogTypes
  /\ \A p \in Loggers :
       /\ flag_log[p] = 0 \/ calling[p] = "header" => ~has_name[p]
       /\ calling[p] # "no" => flag_log[p] = 1
       /\ has_name[p] \/ calling[p] = "header" => opener # "nobody"
  /\ \A l \in written : has_name[l[1]]
  /\ ~headed => opener \in Loggers /\ calling[opener] = "header"
  /\ LogOfThisRun

-----------------------------------------------------------------------------
(* create_all_semaphores and destroy_semaphores. *)
LEMMA SemInvariant == LeftSpec => []SemInv
<1> USE DEF SemInv, EndHeals, Sems, NSems
<1>1. LeftInit => SemInv
  BY LeftoversAssumption DEF LeftInit
<1>2. SemInv /\ [LeftNext]_leftVars => SemInv'
  <2> SUFFICES ASSUME SemInv, [LeftNext]_leftVars PROVE SemInv'
    OBVIOUS
  <2>1. CASE CreateSemaphore
    BY <2>1 DEF CreateSemaphore
  <2>2. CASE DestroySemaphore
    BY <2>2 DEF DestroySemaphore
  <2>3. CASE \E p \in Loggers : Register(p)
    BY <2>3 DEF Register, LogOpens, LogDoesNotOpen, WriteHeader, AppendLine,
                LoseLine, FirstCall, SecondOpen, semVars
  <2>4. CASE StatOpens \/ StatDoesNotOpen \/ AppendStat
    <3>1. /\ UNCHANGED <<named, k>> /\ k = 0
          /\ place' \in {"append_stat", "destroy"}
      BY <2>4 DEF StatOpens, StatDoesNotOpen, AppendStat, semVars
    <3>2. \A n \in named : n >= 0
      OBVIOUS
    <3> QED
      BY <3>1, <3>2
  <2>5. CASE UNCHANGED leftVars
    BY <2>5 DEF leftVars, semVars
  <2> QED
    BY <2>1, <2>2, <2>3, <2>4, <2>5 DEF LeftNext
<1> QED
  BY <1>1, <1>2, PTL DEF LeftSpec

-----------------------------------------------------------------------------
(* register_operation: one lemma for each call that touches the log. *)
LEMMA OpenKeepsLog ==
  ASSUME LogInv, NEW p \in Loggers, LogOpens(p) \/ LogDoesNotOpen(p)
  PROVE  LogInv'
<1> USE DEF LogInv, LogTypes, FirstCall
<1>1. p # "nobody"
  BY LeftoversAssumption
<1>2. \A l \in written : l[1] # p
  BY DEF LogOpens, LogDoesNotOpen
<1>3. CASE LogOpens(p)
  BY <1>1, <1>2, <1>3 DEF LogOpens, LogOfThisRun
<1>4. CASE LogDoesNotOpen(p)
  BY <1>4 DEF LogDoesNotOpen, LogOfThisRun
<1> QED
  BY <1>3, <1>4

(* The header falls on the oldest lines, and on none of the last opener.   *)
LEMMA HeaderKeepsLog ==
  ASSUME LogInv, NEW p \in Loggers, WriteHeader(p)
  PROVE  LogInv'
<1> USE DEF LogInv, LogTypes
<1>1. calling[p] = "header" /\ opener # "nobody"
  BY DEF WriteHeader
<1>2. PICK hit \in SUBSET log :
        /\ hit = {} <=> headed \/ log = {}
        /\ \A l1 \in hit, l2 \in log \ hit : l1[2] < l2[2]
        /\ log' = log \ hit
  BY DEF WriteHeader
<1>3. UNCHANGED <<flag_log, ops, written, opener>>
  BY DEF WriteHeader
<1>4. LogOfThisRun'
  <2>1. /\ log \subseteq written
        /\ \A l \in written : l[1] = opener => l \in log
        /\ \A l1 \in log, l2 \in written : l1[2] < l2[2] => l2 \in log
    BY <1>1 DEF LogOfThisRun
  <2>2. \A l \in hit : l[1] # opener
    BY <1>2, <2>1
  <2>3. \A l \in written : l[2] \in Nat
    OBVIOUS
  <2>4. ASSUME NEW l1 \in log', NEW l2 \in written, l1[2] < l2[2]
        PROVE  l2 \in log'
    BY <1>2, <2>1, <2>3, <2>4
  <2> QED
    BY <1>1, <1>2, <1>3, <2>1, <2>2, <2>4 DEF LogOfThisRun
<1> QED
  BY <1>1, <1>3, <1>4 DEF WriteHeader

(* The newest line comes after all others, or is lost. *)
LEMMA LineKeepsLog ==
  ASSUME LogInv, NEW p \in Loggers, AppendLine(p) \/ LoseLine(p)
  PROVE  LogInv'
<1> USE DEF LogInv, LogTypes, SecondOpen
<1>1. CASE AppendLine(p)
  <2>1. opener # "nobody"
    BY <1>1 DEF AppendLine
  <2>2. log' = log \cup {<<p, ops>>} /\ written' = written \cup {<<p, ops>>}
    BY <1>1 DEF AppendLine
  <2>3. \A l \in written : l[2] < ops /\ l[2] \in Nat
    OBVIOUS
  <2>4. LogOfThisRun'
    <3>1. opener' = opener
      BY <1>1 DEF AppendLine
    <3> QED
      BY <2>1, <2>2, <2>3, <3>1 DEF LogOfThisRun
  <2> QED
    BY <1>1, <2>1, <2>2, <2>4 DEF AppendLine
<1>2. CASE LoseLine(p)
  BY <1>2 DEF LoseLine, LogOfThisRun
<1> QED
  BY <1>1, <1>2

LEMMA LogInvariant == LeftSpec => []LogInv
<1>1. LeftInit => LogInv
  BY DEF LeftInit, LogInv, LogTypes, LogOfThisRun
<1>2. LogInv /\ [LeftNext]_leftVars => LogInv'
  <2> SUFFICES ASSUME LogInv, [LeftNext]_leftVars PROVE LogInv'
    OBVIOUS
  <2>1. CASE UNCHANGED logVars
    BY <2>1 DEF logVars, LogInv, LogTypes, LogOfThisRun
  <2>2. ASSUME NEW p \in Loggers, Register(p) PROVE LogInv'
    BY <2>2, OpenKeepsLog, HeaderKeepsLog, LineKeepsLog DEF Register
  <2> QED
    BY <2>1, <2>2 DEF LeftNext, CreateSemaphore, DestroySemaphore, StatOpens,
                      StatDoesNotOpen, AppendStat, leftVars
<1> QED
  BY <1>1, <1>2, PTL DEF LeftSpec

-----------------------------------------------------------------------------
(* Whichever fopen fail and however any number of processes interleave:    *)
(* the log holds lines of this run only once a process has emptied it, and *)
(* lacks none that is newer than one it holds (clog.c:18-39).              *)
THEOREM LogIsOfThisRun == LeftSpec => []LogOfThisRun
<1>1. LogInv => LogOfThisRun
  BY DEF LogInv
<1> QED
  BY <1>1, LogInvariant, PTL

(* A run that ends leaves no semaphore, whatever former runs left          *)
(* (synchronization.c:7, 89-97).                                           *)
THEOREM EndsHeal == LeftSpec => []EndHeals
<1>1. SemInv => EndHeals
  BY DEF SemInv
<1> QED
  BY <1>1, SemInvariant, PTL

(* Session lets the monitor and what outlives the run do nothing they      *)
(* could not do alone.                                                     *)
LEMMA SessionIsBoth == SessionSpec => Spec /\ LeftSpec
<1>1. SessionInit => Init /\ LeftInit
  BY DEF SessionInit
<1>2. [SessionNext]_<<vars, leftVars>> => [Next]_vars
  BY DEF SessionNext, SetUp, MonitorCall, MonitorThread, RegisterOperation,
         WriteStat, TearDown, Over, Next
<1>3. [SessionNext]_<<vars, leftVars>> => [LeftNext]_leftVars
  BY DEF SessionNext, SetUp, MonitorCall, MonitorThread, RegisterOperation,
         WriteStat, TearDown, Over, LeftNext
<1> QED
  BY <1>1, <1>2, <1>3, PTL DEF SessionSpec, Spec, LeftSpec

(* Hence a run that does both, in the order the headers mean, keeps the    *)
(* promises of both (csignal.c, cstats.c, clog.c, synchronization.c).      *)
THEOREM SessionKeepsBoth ==
  SessionSpec => [](/\ TimesAssigned /\ PrintingComplete
                    /\ AllocatedWhileRunning /\ CountsWhileAllocated
                    /\ LogOfThisRun /\ EndHeals)
BY SessionIsBoth, OnlyAssignedTimesPrinted, EveryPrintingComplete,
   ArraysOutliveRegistrations, FinalCountsRight, LogIsOfThisRun, EndsHeal, PTL
=============================================================================
