------------------------------- MODULE Session ------------------------------
(***************************************************************************)
(* A run as the headers of the sources that are not linked mean it to be:  *)
(* main creates the semaphores and starts the monitor thread, its children *)
(* and itself register operations, and at the end it counts, writes the    *)
(* statistics, joins the thread and destroys the semaphores.               *)
(***************************************************************************)
EXTENDS Monitor, Leftovers

SessionInit == Init /\ LeftInit

SetUp == CreateSemaphore /\ UNCHANGED vars

(* Main has waited for its children when it counts. *)
MonitorCall ==
  /\ place \in {"run", "destroy"} /\ calling["main"] = "no"
  /\ MainStep \/ UserStep
  /\ spc' = "count_tx" => \A p \in Loggers : calling[p] = "no"
  /\ UNCHANGED leftVars

MonitorThread == ThreadStep /\ UNCHANGED leftVars

(* Main registers between its other calls, a child until main waits for it.*)
RegisterOperation(p) ==
  /\ spc = "idle"
  /\ p = "main" => mpc \notin {"flag_start", "flag_end"}
  /\ Register(p)
  /\ UNCHANGED vars

WriteStat ==
  /\ spc = "done"
  /\ StatOpens \/ StatDoesNotOpen \/ AppendStat
  /\ UNCHANGED vars

TearDown == DestroySemaphore /\ mpc = "closed" /\ UNCHANGED vars

(* What main finishes on its own, and a call that a process has begun. *)
MainGoesOn == SetUp \/ (MainStep /\ MonitorCall) \/ WriteStat \/ TearDown

GoesOn(p) == calling[p] # "no" /\ RegisterOperation(p)

Over == place = "gone" /\ UNCHANGED <<vars, leftVars>>

SessionNext ==
  \/ SetUp \/ MonitorCall \/ MonitorThread
  \/ \E p \in Loggers : RegisterOperation(p)
  \/ WriteStat \/ TearDown \/ Over

SessionSpec ==
  SessionInit /\ [][SessionNext]_<<vars, leftVars>>

(* The kernel schedules the processes and the thread, and a sleep ends;    *)
(* nobody makes the user end the run or main count.                        *)
FairSession ==
  /\ SessionSpec
  /\ WF_<<vars, leftVars>>(MonitorThread)
  /\ WF_<<vars, leftVars>>(MainGoesOn)
  /\ \A p \in Loggers : WF_<<vars, leftVars>>(GoesOn(p))
=============================================================================
