-------------------------------- MODULE FIFO --------------------------------
(***************************************************************************)
(* What write_wallets_servers_buffer and read_wallets_servers_buffer       *)
(* promise their callers, with no shared memory in sight: a bounded queue  *)
(* that hands transactions on in order, once each, and loses a write only  *)
(* when it is full.                                                        *)
(***************************************************************************)
EXTENDS Integers, Sequences

CONSTANTS
  Capacity,  \* how many transactions fit
  Msgs,      \* the transactions that may be written
  None       \* before the first delivery

VARIABLES
  queue,  \* the transactions written and not yet read
  taken,  \* the transaction read last
  fate    \* what became of the transaction written last

vars == <<queue, taken, fate>>

Init ==
  /\ queue = <<>>
  /\ taken = None
  /\ fate = "none"

Store(m) ==
  /\ Len(queue) < Capacity
  /\ queue' = Append(queue, m)
  /\ fate' = "stored"
  /\ UNCHANGED taken

Lose ==
  /\ Len(queue) = Capacity
  /\ fate' = "lost"
  /\ UNCHANGED <<queue, taken>>

Deliver ==
  /\ queue # <<>>
  /\ taken' = Head(queue)
  /\ queue' = Tail(queue)
  /\ UNCHANGED fate

Next == (\E m \in Msgs : Store(m)) \/ Lose \/ Deliver

Spec == Init /\ [][Next]_vars
=============================================================================
