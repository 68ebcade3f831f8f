# SOchain in TLA+

SOchain (`src/`) is a C program in which a main process, some wallet processes
and some server processes move money between wallets. They share nothing but
memory segments and one file. This directory holds TLA+ modules that model the
program, TLC configurations that check them on small instances, and proofs
that TLAPS checks for every instance.

Everything is translated from the sources; a comment or a header is quoted only
where the code and its documentation disagree (see *Findings*).

## 1. The system

`makefile` links `main.o memory.o process.o server.o wallet.o`. The other
sources (`csignal.c`, `synchronization.c`, `csettings.c`, `clog.c`, `ctime.c`,
`cstats.c`) are not part of the program as it is built, and three of them do not
compile. In particular **no semaphore is used**: the buffers have no lock.

| Component | Code | State it keeps | Operations |
|---|---|---|---|
| transactions and sizes | `inc/memory.h`, `inc/main.h` | `struct transaction`; `n_wallets`, `n_servers`, `buffers_size`, `max_txs`, `init_balance` | structure assignment |
| random access buffers: main → wallets, servers → main | `memory.c:76-128, 102-159` | `ptrs[]` (taken flags), `buffer[]` | write: first free slot; read: first taken slot with the key, then free it |
| circular buffer: wallets → servers | `memory.c:87-100, 130-145` | `in`, `out`, `buffer[]` | write unless full; read unless empty |
| shared memory | `memory.c`, `main.c:67-128` | the segments: `balances`, `wallets_stats`, `servers_stats`, `terminate`, the three buffers | create, destroy |
| wallet process | `wallet.c` | its `tx` on the stack | receive, sign, send |
| server process | `server.c` | its `tx`, the balance in a register; `ledger.txt` | receive, check the signature, transfer, sign, write the ledger, send |
| main process | `main.c` | `tx_counter`, the pids, its `tx`, `input` | read the arguments, launch, scan a command: `trx`, `rcp`, `bal`, `stat`, `help`, `end`; wait, destroy |
| processes | `process.c` | pids, exit status | fork, waitpid |
| monitor thread | `csignal.c` (not linked) | `txi`: the state of each transaction, its start and end times | start the thread, register a start or an end, print periodically, free, join, count |
| semaphores | `synchronization.c` (not linked) | three triplets of named semaphores | create, wait, post, destroy |
| log and statistics files | `clog.c`, `cstats.c`, `csettings.c` (not linked) | two text files, `flag_log` | empty, append |
| settings, time stamps | `csettings.c`, `ctime.c` (not linked) | names and the period; the time fields | read a file, format |

**How they interact.** The user types `trx src dest amount`. Main checks it
against `balances`, writes the transaction into the buffer for the wallets and
counts it. Each wallet polls that buffer for a slot whose `src_id` is its id, copies it,
frees the slot, signs, counts, and writes it into the ring. Each server polls
the ring, checks that the signature is that of the source wallet, moves the
money with `+=` and `-=` on shared floats, signs, counts, appends a line to
`ledger.txt` and writes the transaction into the buffer for main. `rcp id` looks
there for the id and shows what it finds. `end` sets `terminate`, waits for
every child, writes the final statistics and destroys the segments.

**What is hard.** Every process interleaves with every other at the level of
one load or store, with no lock; a structure is copied in several moves; a
flag is set before the data it announces; a value that was checked is used
later; the run can be ended at any point of any loop; a fork may fail and leave
the pid -1; some fields are compared although nobody assigned them; the ledger
may not open after the money has moved. A signal can end a child in the middle
of a copy or of a transfer, or the whole program, whose segments and semaphores
the next run opens as they are, some of them already unlinked. Of a command
that fails the rest stays on the input. `PROJECT.json` lists each hazard at its
line, with the properties that cover it, or the reason why none does.

**What makes each part correct.**

- *Ring*: with one writer and one reader it is a first-in first-out queue; its
  indexes stay inside the array for any number of users.
- *Random access buffers*: a transaction left there is taken; what is read is
  what was written, once, by the process it is meant for.
- *Wallet and server loops*: nothing is signed, transferred or recorded that
  was not read; a transaction is signed and processed once at most.
- *Money*: the balances agree with the ledger; money is only moved, by whole
  transfers, of amounts that were typed, to the wallet they were typed for; no
  balance is negative.
- *Launch and end*: the run ends once asked to; the segments outlive every child.
- *Console*: main carries out only what was typed, and an `end` is not lost.
- *Faults*: the next run is right whatever the last one left; no process waits
  for what a dead one was about to store.
- *Files and names*: the log is that of one run, and what is missing of it is
  older than what is there; a run that ends leaves no semaphore behind; a run
  with a wrong `max_txs` adds nothing to the ledger that was done before.
- *Monitor*: what it prints is complete and computed from times that were
  stored; the arrays live as long as anyone uses them; the thread ends with the run.

## 2. The modules

| Module | Models | Correspondence |
|---|---|---|
| `Transactions` | sizes, process names, `struct transaction` | `CopyWord` is one of the three eight-byte moves of a structure assignment |
| `RABuffer` | the two random access buffers | one action per load or store: `WriteSkip/Found/Mark/Copy`, `ReadSkip/Found/Mismatch/Match/Copy/Free`; `KeyField` is the field a read compares |
| `CircBuffer` | the ring | `PutLoadIn/Full/Room/Copy/Set`, `GetLoadIn/Empty/Some/Copy/Set` |
| `SharedMemory` | the state of a running program | instantiates `RABuffer` as `MW` and `SM` and `CircBuffer` as `WS` on the segments; `Init` is `create_shared_memory_structs` on new segments |
| `Wallet` | `execute_wallet` and its functions | `WalletReceive/Read/Exit/Idle/Process/Send` |
| `Server` | `execute_server` and its functions | `ServerReceive/Read/Exit/Idle/Reject/Accept`, `LoadDest/StoreDest/LoadSrc/StoreSrc`, `ServerSign`, `WriteLedger` or `LedgerFails`, `ServerSend` |
| `Main` | `main.c`, `process.c` | `Launch(Fails)`, `CreateTransaction` (with its checks, `Accepted`), `MainWrite`, `CountTransaction`, `AskReceipt`, `MainRead`, `ShowReceipt`, `EndExecution`, `Reap(None)`, `Destroy` |
| `SOchain` | the whole program | composes the three kinds of process; fairness; the properties; `Work`, what is left to do after `end` |
| `Bank` | what the program promises about money | abstract specification: `Open`, `Transfer`; `SOchain!IsBank` is the refinement mapping: a balance without what the transaction in progress has moved |
| `Console` | the loop of `user_interaction` | composes `SOchain` with a standard input: each turn scans a word and its numbers, leaves what it could not convert, and does `Trx`, `Rcp`, `Refuse`, `Show` or `End` |
| `Faults` | signals and restarts | composes `SOchain` with `Kill` (a child) and `Restart` (the whole program, on what it left), with the same arguments (`ArgsAccepted`) or a wrong `max_txs` (`ArgsRefused`) |
| `Leftovers` | `clog.c`, `write_stat`, the semaphores' names: what else outlives a run | one action per `sem_open`, `fopen` that succeeds or fails, header, append and `sem_unlink`; each process of `Loggers` has a `flag_log` of its own |
| `Session` | a run of the sources that are not linked | composes `Monitor` and `Leftovers` in the order their headers mean: semaphores, registrations and operations, counts and statistics, join, semaphores |
| `MCSOchain`, `MCConsole`, `MCFaults`, `MCSession` | - | what the user may type in the runs; the processes and the semaphores found |
| `FIFO` | the promise of the ring's two functions | abstract specification: `Store`, `Lose`, `Deliver` |
| `RingChannel` | the ring on its own, with any writers and readers | refinement mapping to `FIFO`: `Content` is what lies from `out` to `in` |
| `MCRing` | - | the messages of its runs |
| `Monitor` | `csignal.c`, with the counts of `cstats.c` | main: `StartPrint`, `StampStart/FlagStart`, `StampEnd/FlagEnd`, `EndExecution`, `EndPrint`, `RegisterStats` and its two loops, `CountTx` and `CountFinished`, an entry a step; thread: `BeginPrinting`, `Look`, `PrintTime`, `EndPrinting`, `Nap`, `LeaveWhile`, `BreakTransactionInfo` |
| `DataLemmas` | - | lemmas about transactions, their copies and what a ring holds, for the ring on its own and in the program; sums over finite sets |
| `RingProofs` | - | theorems about `RingChannel` |
| `SOchainProofs` | - | theorems about `SOchain`: types, and the end of the run |
| `BufferProofs`, `BooksProofs` | - | on these: what the processes do to one another through the buffers; the money |
| `EnvironmentProofs` | - | on these: theorems about `Console` and `Faults` |
| `MonitorProofs` | - | theorems about `Monitor` |
| `SessionProofs` | - | theorems about `Leftovers`, and about `Session` from these and those about `Monitor` |

A definition whose comment calls it *a faulty variant* is part of no
specification. Each is what a plausible slip in the code would make of the
definition that follows, and shows that a property depends on that definition.

### Conventions

- A **step** is one load or store of shared memory, with the private work up to
  the next. `pc[p]` says where process `p` is, `tx[p]` is the
  `struct transaction` on its stack, `idx[p]` the loop index, and `wrd[p]` the
  move of a structure assignment that is next.
- The makefile compiles without optimisation, so a structure of 24 bytes is
  copied by three moves, in order: {id, src_id}, {dest_id, amount}, {the
  signatures}. Memory is **sequentially consistent** in the model. On
  x86 a store may be delayed past a later load of the same process; that is
  not modelled.
- An unassigned `struct transaction` has the id `Indeterminate`, a marker of
  its own, so that a use of it can be told. The signature fields that main does not
  assign take any value of the constant `Residue`.
- Amounts are whole numbers; the code's floats hold these exactly up to 2^24.
- `ledger.txt` is abstracted to the amounts its lines move (`ledger_net`) and
  the number of lines of each server (`ledger_lines`). When `LedgerMayFail`
  its `fopen` may return null: no line, and the rest goes on.
- In `SOchain` the user gives any command of `Transfers` and `RcpIds` at any
  time, and `bal`, `stat`, `help` and what `trx` refuses are stuttering steps.
  `Console` scans all of them from `stdin`. It works on words that fit
  `input[10]`; the `input` that nothing was read into yet is no command.
- In `Faults` a signal to the terminal's process group ends main and the
  children at once. The next run has the same arguments, or a `max_txs` that
  `main_args` refuses after it has taken the sizes: then `max_txs` is 0, main
  creates nothing, and the ledger keeps its lines. `ledger_lines` are those of
  this run; `kept` counts the others, and the history `earlier` what former
  runs created, less the lines emptied since. Orphans, when main alone is
  killed, and a next run with other sizes are left out.
- `Leftovers` keeps the lines of the log as pairs of a process and a number. An
  `fopen` may fail at any time, and one of a null name fails. The header of
  the log goes to its beginning: over a header, or over any number of the lines
  that other processes have put there meanwhile, one at least. The children are
  forked before the first operation is registered.
- `Monitor` stands apart: nothing in the linked program calls `csignal.c`. Main
  calls it there as `inc/csignal.h` and `README.md:37-39` mean it to: a start per
  transaction in the order of `tx_counter`, an end per transaction that runs,
  the join at the end and the final statistics before or after it. An entry
  counted after the free may be anything (`Entry`), and the history `stale`
  says which of the two counts met one. Time passes
  only in `sleep` (`slept`); `shown` and `due` are there for a property.
- Commands are atomic up to their first access of a buffer: main alone writes
  what `create_transaction` reads, except `balances`, of which it reads one entry.

## 3. What TLC checks

| Run | Instance | Properties | Shows |
|---|---|---|---|
| `ring_spsc` | ring of 3, one writer, one reader | `TypeOK`, `SlotExclusive`, `IsFIFO`, `HeadIsRead` | without a lock the ring is a queue of 2 places; its head is read |
| `two_wallets` | 2 wallets, 1 server, 2 slots, 1 transaction | `TypeOK`, `BooksBalance`, `SignedWithinCreated`, `IsBank` | two wallets that race on both buffers may lose and mix transactions, but the server still is a bank that moves typed amounts to the wallets they were typed for, the books balance, and no wallet signs more than was created |
| `one_of_each` | 1 wallet, 1 server, 2 transactions, eight sessions typed to the end of the input | `FreshReads`, `ProcessedWithinSigned`, `RingIsQueue`, `OnlyTyped`, `QuietAtEOF`, `EndObeyed` | main carries out only what was typed and obeys `end`; the ring is a queue; nothing unread is used, nothing is processed twice |
| `ending` | 2 wallets, 1 server, forks and the ledger may fail, `rcp`, fair | `NoChildOutlivesMemory`, `MoneyConserved`, `ReceiptsTyped`, `EndTerminates`, `SlotsDrain`, `HeadIsRead`, `EndApproaches` | money adds up even without the ledger's lines; a receipt, however torn, shows no order that was not typed; what is left in a buffer is taken unless the run ends; once `end` is typed no loop is gone through again and main returns, and the segments outlive every child |
| `restart` | 1 wallet, 1 server, one signal or restart at any point, with the same or a wrong `max_txs`, fair | `NoChildOutlivesMemory`, `BooksSurvive`, `ProcessedWithinSigned`, `DoneOnceOverRuns`, `EndsUnlessKilled`, `EndApproaches` | no child's death makes the run hang; the books of the next run are right, whatever was half done and whichever segments were unlinked; what the last run left is not done a second time, even by a run that keeps its ledger |
| `session` | 2 transactions, a period of 5 seconds, 2 processes that register 2 operations, six semaphores left, files that may not open, fair | `TypeOK`, `TimesAssigned`, `PrintingComplete`, `AllocatedWhileRunning`, `CountsWhileAllocated`, `LogOfThisRun`, `EndHeals`, `MonitorStops` | the thread and main need no lock while the run lasts; the counts are right as far as they meet the arrays; the log is untouched or of this run, and what it misses is old; no semaphore is left; the thread ends with the run |
| `overdraft`, `lost_update`, `false_receipt`, `unsigned_sent`, `stale_restart`, `period` | | see *Findings* | each finds a behaviour that a comment of the program excludes |

**Bounds.** In `SOchain` the only counter that grows is `tx_counter`, which the
code itself bounds by `max_txs`; every other number follows from it, so no bound
is added to the code's own. Buffers have two slots: enough for an empty, a full, a
wrapped ring, for a search that passes a slot, and for two processes in
different slots; the ring on its own has three, so that it holds more than
one entry. One transaction is enough for races between wallets, because they
meet on what a slot held before (zeros name wallet 0) and not only on
transactions; `one_of_each` has two, so that slots and the ring's places are
used again, and its inputs reach the limit of `max_txs`. Whatever needs more
processes, slots or transactions is covered by the theorems. `Refused` and
`Typed` hold an input for each check of `create_transaction`; `Typed` also has
missing arguments, an `end` in the place of an argument, and inputs without
an `end`.

Two bounds are added. `MaxFaults` = 1 is the number of signals and
restarts: a restart finds the segments at any point of a run that was not
itself restarted, and a kill meets a run whose other processes are alive.
(With 2 the same properties hold, on more than a million states.)
`MaxOps` = 2 lets each of two processes empty the log after the other has
appended to it, and one append twice. `Left` has the semaphores of a run that
was killed while it destroyed its own, after one that was killed while it
created them: names at both ends and none in the middle.

**Fairness.** `Fairness` is weak fairness of the steps of main and of each
child: the kernel schedules every process, and each of these loops is always
able to take its next step. The user's commands are not under it: nobody makes
the user type, not even `end`. Hence "unless the run ends" in `SlotsDrain` and
`HeadIsRead`, and `EndTerminates` starts from the command. Only `Console`,
whose input is a file or a pipe, is fair to the turns of the loop, for its
`scanf` does not wait. No fault ever has to happen, and a process that was
killed has no step to be fair to. In `RingChannel` a writer must finish a
write and need not begin one.

Deadlock is checked in every run. The only state in which nothing is left to do
is main's end, and `Done` stutters there (`Over` in `Session`). In `Session`
the thread, each process that has begun a call, and main in what it does unasked are
scheduled, and a sleep ends; that transactions start and end, that the run ends
and that it is counted is under no fairness.

## 4. What is proved

All of these hold for every value of the constants that the `ASSUME`s allow:
`SizesAssumption` (at least one wallet, one server, one slot), `ArgsAssumption`,
`InputsAssumption` (the inputs are numbers), `LedgerAssumption`, those of
`Console` (scripts are sequences of words, and `Transfers` and `RcpIds` hold the
commands typed in them), of `Faults`, of `Leftovers` (main is one of
the processes that register) and of `Monitor` (a positive period). TLC evaluates each of them in the runs of its module. A theorem that needs
more, one server or one wallet, says so in its statement, and a run or a finding
shows what goes wrong without it.

| Theorem | Statement | Argument |
|---|---|---|
| `RingTyped` | `Spec => []TypeOK`, any writers and readers | `TypeOK` is inductive: an index is always loaded from `in` or `out`, or is the successor of one, and `%` keeps that inside |
| `SPSCSlotExclusive` | one writer, one reader: `[]SlotExclusive` | `HandOver` is inductive: while the writer fills, its index is `in`, and `Succ(in) # out`; while the reader copies, its index is `out`, and `in # out` |
| `SPSCRingIsFIFO` | one writer, one reader: `Spec => IsFIFO` | `HandOver` also says how much of a copy is done, so a stored entry is the offered transaction and a delivered one is the head; each step maps to a step of `FIFO` or a stutter |
| `SOchainTyped` | `Spec => []TypeOK` for the whole program | inductive as it stands; one lemma per kind of process, one step per action |
| `SegmentsOutliveChildren` | `[]NoChildOutlivesMemory` | `Collected`: a child without a pid never ran, and main passes an entry only when its child is gone. It is needed because a waitpid on the pid -1 of a failed fork collects any child, so a later wait may find its child collected already |
| `OneServerBooksBalance` | `NServers = 1` and a ledger that opens: `[]BooksBalance` | `Books`: a balance is ahead of the ledger by what the transaction in progress has moved; the balance in the register is the one in memory. The second part is what a second server breaks (`lost_update`) |
| `SOchainIsBank` | `NServers = 1` and a ledger that opens: `Spec => IsBank` | `Books`, and `Ordered`: beside every amount, in a slot or on a stack, is the destination it was typed for, or both are zero, because the two travel in one word of a copy. Launching a wallet is `Open`, writing the ledger is `Transfer`, every other step a stutter |
| `OneServerConservesMoney` | `NServers = 1`, whether or not the ledger opens: `[]MoneyConserved` | `Money`: there is a ledger that misses no line (`BooksOf(n)` for some `n`), and what its lines move adds up to nothing; each transfer adds to one wallet what it takes from another. Sums over a set of wallets are the subject of a section of `DataLemmas` |
| `ReceiptsOfTypedOrders` | `[]ReceiptsTyped`, any number of servers | `Ordered` again: it does not need that one server, or one wallet, does anything alone |
| `EndDescends` | `Spec => [](Work \in Nat) /\ EndApproaches` | a variant: `StepsFrom` bounds, label by label, the steps a process still takes, whatever the buffers hold; a step moves one process to a label with a smaller bound and leaves the others alone, so the sum falls. `Ending` is needed besides: main waits only once `terminate` is set, and is at no other label that has a loop |
| `OnlyReadTransactionsUsed` | `[]FreshReads` | `Fresh`: no slot holds an unassigned transaction, and a process that is past its read holds an id, unless `terminate` is set, which stays so; the id travels with the first word of a copy |
| `NoWalletSignsMore` | `[]SignedWithinCreated` | `SignedInv`: for each wallet, what it signed, the slots it may still take and what it has in hand are no more than main created. A slot counts as long as its flag is set *or* the wallet has found it so: another wallet may free it in between, and then the same writing is read by both |
| `RingIsQueueOfTransactions` | one wallet, one server: `Spec => RingIsQueue` | `HandOver`, in the whole program: the index at which a process copies is the `in` or `out` of now although it was loaded before, and how much of the copy is done; only the `in` that the server compares may be old, and then there are more entries than it knows of |
| `NoneProcessedTwice` | `[]ProcessedWithinSigned` | `Flow`: the lines of the ledger, what the server has in hand, the entries of the ring and what the wallet has in hand are together no more than the wallet signed |
| `ConsoleCarriesOutTyped` | `ConsoleSpec => OnlyTyped`, any input | `EndOfScript`: what is not scanned yet is the end of a script, so a word and the numbers that follow it are a command typed there; a scan that stops leaves the rest where it was. Hence every theorem about `SOchain` holds of what is typed |
| `LoopQuietAtEOF` | `ConsoleSpec => QuietAtEOF` | at the end of the input every scan of numbers gives -1, and nothing a child does moves main from its prompt |
| `FaultsTyped`, `FaultsSegmentsOutliveChildren`, `FaultsOnlyReadTransactionsUsed` | the same three properties for `FaultsSpec`, any number of faults | the same invariants: `Kill` leaves the slots as they are and the child with nothing, `Restart` is an `Init` on old slots |
| `FaultsEndDescends` | `FaultsSpec => EndApproaches` | a signal takes from the work that is left all that the killed child had, a restart clears `terminate` |
| `ReceiptsOfTypedOrdersAfterFaults` | `[]ReceiptsTyped` for `FaultsSpec` | `Ordered`: what a signal leaves half copied mixes words and not orders, and what a restart opens is as it was left, or zeros |
| `BooksSurviveFaults` | `NServers = 1` and a ledger that opens: `[]BooksSurvive` for `FaultsSpec` | `Books` as long as no signal ended the server: the next run sets every balance before the server runs, and empties the ledger |
| `MoneyConservedAfterFaults` | `NServers = 1`: `[]MoneyConserved` for `FaultsSpec` as long as no signal ended the server of this run | `Money`, which each restart begins again with an empty ledger |
| `NoneProcessedTwiceAfterFaults` | `[]ProcessedWithinSigned` for `FaultsSpec` | `HandOver` and `Flow`: a restart finds the counts of the last run beside its ring, for the count is destroyed after the ring, and the ledger empty |
| `NoneDoneTwiceOverRuns` | `[]DoneOnceOverRuns` for `FaultsSpec` | `PaidFor`: what the ring, the counts and the flags hold of former runs was created by these and is not in the ledger. It generalises `Flow` and `SignedInv` by a debt each, `FlowOver(f)` and `SignedOver(w, g)`, so that the lemmas about a step hold for any debt, and a restart may choose both anew: it empties the ledger or keeps it, and only loses of the rest |
| `LogIsOfThisRun` | `LeftSpec => []LogOfThisRun` | `LogInv`: a process has written lines only when it has the log's name, hence is past its header and never opens with `w` again; while the log has no header, the last process to empty it is about to write one and has no line in it yet; and a header hits the oldest lines |
| `EndsHeal` | `LeftSpec => []EndHeals` | `SemInv`: the names `destroy_semaphores` has passed are gone, whoever made them |
| `SessionKeepsBoth` | the invariants of `Monitor` and of `Leftovers` hold of `SessionSpec` | a step of `Session` is one of `Monitor`, of `Leftovers` or neither: `SessionSpec => Spec /\ LeftSpec` |
| `MonitorTyped`, `OnlyAssignedTimesPrinted`, `EveryPrintingComplete`, `ArraysOutliveRegistrations`, `FinalCountsRight` | `[]TypeOK`, `[]TimesAssigned`, `[]PrintingComplete`, `[]AllocatedWhileRunning`, `[]CountsWhileAllocated` for `Monitor` | `MonitorInv`: the transactions that started are those below `next`, so the first that has not ends a printing that is complete; a flag is never ahead of its time; the thread is past its loop only when `terminate` is set. `Counting`: below `m` each loop has counted what it should, unless it has met freed memory (`stale`); what is counted does not move, for main is inside `register_stats`, and the arrays that are freed stay so |
| `PeriodsRoundedDown` | `Spec => PeriodRounded`, which says by how much `PeriodKept` is missed | `Paced`: during the naps `j` tenths were slept, each rounded down to a second; a nap that is cut short is followed by no printing, for `terminate` stays set |

Each inductive invariant was checked by TLC on instances like those above before
it was proved. `EndOfScript` and `TypeOK` are what the two console theorems
share; everything about `Faults` rests on the lemmas that prove the same of
`SOchain`, with a lemma for `Kill` and one for `Restart`.

**Sums.** `MoneyConserved` and `EndApproaches` add up something over all wallets
or all processes. `MapThenSumSet` is a fold, defined by recursion over subsets,
and the library's induction theorems take an operator, which no installed
prover instantiates. `DataLemmas` therefore goes by a smallest counterexample:
`SetInduction` says, of a set of sets, that it has a finite set in it if it has
the empty one, and each subset as soon as it has that subset without one of its
elements; its proof takes a minimal subset that is missing, by the
well-foundedness of strict inclusion. From it follow that a sum is the value at
one element plus the sum over the rest (`SumOfSome`), that it shifts with what
each term shifts by (`SumShift`), that a transfer leaves it alone (`SumMoves`),
and that it falls when one term does and the others stay (`SumDescends`).

**What `EndApproaches` adds.** `EndTerminates` is checked on a small instance,
under fairness. That after `end` only boundedly many steps can follow, at most
`Work`, is proved for every number of wallets, servers and slots and without
fairness: a run that ends neither polls nor waits for another process in a loop.
What it leaves to TLC is that there always is a next step until main is done.

Only model-checked: every liveness property (`SlotsDrain`, `HeadIsRead`,
`EndTerminates`, `EndsUnlessKilled`, `EndObeyed`, `MonitorStops`), for the prover
treats neither fairness nor `ENABLED`. Every invariant and every action property
that a passing run checks is stated by a theorem, and so are the two refinements.

## 5. Findings

Each is a run that TLC finds violated; `PROJECT.json` quotes the lines.

1. `overdraft`: the server checks no funds (`server.c:60`), although
   `server.h:24-25` says so; main's check reserves nothing, so two transfers
   that pass it one after the other leave a negative balance.
2. `lost_update`: two servers update one balance, and one update is lost (`server.c:65-66`).
3. `false_receipt`: a slot is marked taken before it is filled (`memory.c:108`);
   main shows a receipt of zeros for a transaction that is still being written.
4. `unsigned_sent`: a refused transaction is written for main when the
   `server_signature` that nobody assigned happens to be the server's id (`server.c:31`).
5. `stale_restart`: the segments are not filled with zeros, as `memory.h:58-60`
   says: after a crash the next run processes a transaction of the last one
   (`memory.c:29`). `BooksSurvive` says what is safe nevertheless, and why: main sets the
   balances and begins a new account before any server runs. A run with a wrong
   `max_txs` does the same to the ledger of the last run, which it keeps
   (`main.c:49-54`); `DoneOnceOverRuns` says that this is at least no second time.
6. `period`: of a period of 15 seconds 10 are slept, and below 10 none
   (`csignal.c:156`), although `csignal.c:170` gives the interval in seconds.

What the models show besides, without a line of the documentation that says
otherwise or a run of its own:

- The slots for the wallets are marked before they are filled too
  (`memory.c:80`): a wallet takes the transaction of another, does not sign it,
  and it is lost. `IsBank` holds because an amount and its destination are
  copied in one move.
- A wallet stalled between its load and its store of `in` puts it back
  (`memory.c:98`), and slots already read are read again. It takes two wallets,
  three slots and as many transactions; `ProcessedWithinSigned` is therefore
  stated for one wallet.
- The ring holds `BufSize - 1` transactions (`IsFIFO`): with a `buff_size` of 1,
  which `main_args` accepts, every transaction is lost.
- The final counts of the monitor are right only while the arrays are there
  (`CountsWhileAllocated`), and the thread frees them as soon as it sees
  `terminate` (`csignal.c:163`): before, between or inside the two loops that count.
- Each process empties the log when it first registers an operation
  (`clog.c:19`), and its header falls on what another one has appended
  meanwhile (`csettings.c:57`). When the log does not open at that point the
  lines of that process are lost, and a former log stays unless another
  process opens it.
- Each `write_stat` empties the statistics file (`cstats.c:20`).
- All three semaphores of a triplet start at `v` (`synchronization.c:63`),
  although `synchronization.h:43` gives `v` to the free slots only.
- `clog.c` and `server.c` both define `write_ledger`: they cannot be linked
  into one program as they stand.

## 6. Not modelled

- `load_settings`, which fills names and the period from a file, and the time
  stamps (`ctime.c`, which does not compile): no control that a property of the
  running program could be about. The text of what is printed, logged or written.
- The values of the semaphores: no code waits on one, so they reach no state.
  `print_semaphores` only prints.
- Failures of `shm_open`, `ftruncate`, `mmap` and `calloc`: the code exits, or
  uses the null pointer, which has no defined outcome to check.
- A restart with other sizes; orphans of a killed main. A mistake in an argument
  before `max_txs`: `buffers_size` is then 0 and the slots are null pointers,
  which nothing reads but a server that finds the ring of a killed run not empty.
- NaN and the rounding of floats: amounts are whole numbers.
- The handler of SIGINT in `csignal.c`, which sets a flag nothing reads, and a
  period of 0, with which a thread that was never created is joined.
- The exit status, of which `wait` keeps eight bits: main ignores it.

## 7. The plan

The core came first, then the bank, the console, faults and successive runs,
then the invariants and the refinements above, and last the sums. Every safety
property that a run checks is now proved. What is left, in this order:

1. `SPSCSlotExclusive` in the whole program, and under faults: that a signal
   leaves at most one slot of the ring half filled, and that no process is ever
   given it.
2. What several wallets keep of the ring: nothing is put in it that no wallet
   signed.
3. `SOchainIsBank` from one restart to the next, with the bank opened again.
