------------------------------ MODULE Leftovers -----------------------------
(***************************************************************************)
(* What outlives a run under a name beside its segments: the semaphores,   *)
(* the log and the statistics file, from what former runs left of them,    *)
(* which a signal may have ended anywhere.  Nothing in the built program   *)
(* calls synchronization.c, clog.c, csettings.c or cstats.c: the processes *)
(* are modelled as their headers mean these to be used.                    *)
(***************************************************************************)
EXTENDS Integers, FiniteSets

CONSTANTS
  Loggers,  \* the processes that call register_operation, main among them
  MaxOps,   \* after so many operations no other call of it begins
  Left      \* the semaphores former runs may have left, by number

(* The nine semaphores, in the order in which create_all_semaphores and    *)
(* destroy_semaphores go: three buffers, for each freespace, unread, mutex.*)
NSems == 9
Sems  == 0 .. NSems - 1

ASSUME LeftoversAssumption ==
  /\ "main" \in Loggers /\ "nobody" \notin Loggers
  /\ MaxOps \in Nat /\ Left \subseteq SUBSET Sems

VARIABLES
  named,     \* the semaphores that have a name in the system
  opened,    \* main: those it has a pointer to that is not NULL
  place, k,  \* main: which of the calls below is next, its loop counter
  log,       \* the log's lines: their process and number, -1 of former runs
  flag_log,  \* each process has a flag_log of its own,
  has_name,  \* a fileName_log, here whether it is not NULL,
  calling,   \* and a place in write_ledger, "no" outside it
  headed,    \* whether the log begins with its header
  ops,       \* history: the operations registered so far
  written,   \* history: those of them for which write_ledger returned 0
  opener,    \* history: the process that emptied the log last
  stat       \* the statistics file: of a former run, emptied, of this run

semVars  == <<named, opened, k>>
logVars  == <<log, flag_log, has_name, calling, headed, ops, written, opener>>
leftVars == <<semVars, place, logVars, stat>>

FormerLines == {<<p, -1>> : p \in Loggers}

(* Main forks its children before any operation is registered, so that no  *)
(* process inherits a flag_log that is set.                                *)
LeftInit ==
  /\ named \in Left /\ opened = {}
  /\ place = "create" /\ k = 0
  /\ log = FormerLines
  /\ flag_log = [p \in Loggers |-> 0]
  /\ has_name = [p \in Loggers |-> FALSE]
  /\ calling = [p \in Loggers |-> "no"]
  /\ headed = TRUE
  /\ ops = 0 /\ written = {} /\ opener = "nobody"
  /\ stat = "former"

-----------------------------------------------------------------------------
(* create_all_semaphores: with O_EXCL a name that exists gives a NULL.     *)
CreateSemaphore ==
  /\ place = "create"
  /\ opened' = IF k \in named THEN opened ELSE opened \cup {k}
  /\ named' = named \cup {k}
  /\ k' = (k + 1) % NSems
  /\ place' = IF k = NSems - 1 THEN "run" ELSE place
  /\ UNCHANGED <<logVars, stat>>

(* A faulty variant of DestroySemaphore: only what was opened is unlinked. *)
DestroyOpened ==
  /\ place = "destroy"
  /\ named' = IF k \in opened THEN named \ {k} ELSE named
  /\ k' = (k + 1) % NSems
  /\ place' = IF k = NSems - 1 THEN "gone" ELSE place
  /\ UNCHANGED <<opened, logVars, stat>>

(* destroy_semaphores unlinks each name, whatever the pointer. *)
DestroySemaphore ==
  /\ place = "destroy"
  /\ named' = named \ {k}
  /\ k' = (k + 1) % NSems
  /\ place' = IF k = NSems - 1 THEN "gone" ELSE place
  /\ UNCHANGED <<opened, logVars, stat>>

-----------------------------------------------------------------------------
(* register_operation, that is write_ledger (clog.c).  In the first call   *)
(* of a process get_log_file_name empties the log and writes a header at   *)
(* its beginning, or fails to open it and gives a NULL: flag_log is set    *)
(* either way.                                                             *)
FirstCall(p) ==
  /\ place = "run"
  /\ calling[p] = "no" /\ flag_log[p] = 0 /\ ops < MaxOps
  /\ flag_log' = [flag_log EXCEPT ![p] = 1]
  /\ UNCHANGED <<semVars, place, has_name, ops, written, stat>>

LogOpens(p) ==
  /\ FirstCall(p)
  /\ log' = {} /\ headed' = FALSE
  /\ calling' = [calling EXCEPT ![p] = "header"]
  /\ opener' = p

LogDoesNotOpen(p) ==
  /\ FirstCall(p)
  /\ calling' = [calling EXCEPT ![p] = "append"]
  /\ UNCHANGED <<log, headed, opener>>

(* The header falls on the lines that other processes have written at the  *)
(* beginning meanwhile: the first, or as many as it is long.               *)
WriteHeader(p) ==
  /\ calling[p] = "header"
  /\ \E hit \in SUBSET log :
       /\ hit = {} <=> headed \/ log = {}
       /\ \A l1 \in hit, l2 \in log \ hit : l1[2] < l2[2]
       /\ log' = log \ hit
  /\ headed' = TRUE
  /\ has_name' = [has_name EXCEPT ![p] = TRUE]
  /\ calling' = [calling EXCEPT ![p] = "append"]
  /\ UNCHANGED <<semVars, place, flag_log, ops, written, opener, stat>>

(* The rest of the first call, or a later one: fopen with "a".             *)
SecondOpen(p) ==
  /\ place = "run"
  /\ \/ calling[p] = "append"
     \/ calling[p] = "no" /\ flag_log[p] = 1 /\ ops < MaxOps
  /\ calling' = [calling EXCEPT ![p] = "no"]
  /\ ops' = ops + 1
  /\ UNCHANGED <<semVars, place, has_name, headed, opener, stat>>

(* A faulty variant of AppendLine: flag_log is forgotten. *)
AppendLineForgets(p) ==
  /\ SecondOpen(p)
  /\ has_name[p]
  /\ log' = log \cup {<<p, ops>>}
  /\ written' = written \cup {<<p, ops>>}
  /\ flag_log' = [flag_log EXCEPT ![p] = 0]

AppendLine(p) ==
  /\ SecondOpen(p)
  /\ has_name[p]
  /\ log' = log \cup {<<p, ops>>}
  /\ written' = written \cup {<<p, ops>>}
  /\ UNCHANGED flag_log

(* The name is NULL, or the log does not open: write_ledger returns 1,     *)
(* which register_operation does not look at, and the line is lost.        *)
LoseLine(p) ==
  /\ SecondOpen(p)
  /\ UNCHANGED <<log, written, flag_log>>

-----------------------------------------------------------------------------
(* write_stat, when every child was waited for: get_stats_file_name        *)
(* empties the file or does not open it, then what was counted is          *)
(* appended, unless that does not open.  No one looks at the result.       *)
StatOpens ==
  /\ place = "run" /\ \A p \in Loggers : calling[p] = "no"
  /\ stat' = "emptied"
  /\ place' = "append_stat"
  /\ UNCHANGED <<semVars, logVars>>

StatDoesNotOpen ==
  /\ place = "run" /\ \A p \in Loggers : calling[p] = "no"
  /\ place' = "destroy"
  /\ UNCHANGED <<semVars, logVars, stat>>

AppendStat ==
  /\ place = "append_stat"
  /\ stat' \in {stat, "counted"}
  /\ place' = "destroy"
  /\ UNCHANGED <<semVars, logVars>>

-----------------------------------------------------------------------------
Register(p) == LogOpens(p) \/ LogDoesNotOpen(p) \/ WriteHeader(p)
               \/ AppendLine(p) \/ LoseLine(p)

LeftNext ==
  \/ CreateSemaphore \/ DestroySemaphore
  \/ \E p \in Loggers : Register(p)
  \/ StatOpens \/ StatDoesNotOpen \/ AppendStat

LeftSpec == LeftInit /\ [][LeftNext]_leftVars
-----------------------------------------------------------------------------
(* The log is that of this run as soon as one process has emptied it, and  *)
(* that of former runs, untouched, until then, whichever fopen fail and    *)
(* however the processes, each with a flag_log of its own, interleave.     *)
(* What is missing of it is older than all that is there, and no line of   *)
(* the last process to empty it (clog.c:18-39, csettings.c:50-60).         *)
LogOfThisRun ==
  IF opener = "nobody"
  THEN log = FormerLines
  ELSE /\ log \subseteq written
       /\ \A l \in written : l[1] = opener => l \in log
       /\ \A l1 \in log, l2 \in written : l1[2] < l2[2] => l2 \in log

(* A run that ends leaves no semaphore, not even those that a killed run   *)
(* left and that it could not open itself (synchronization.c:7, 89-97).    *)
EndHeals == place = "gone" => named = {}
=============================================================================
