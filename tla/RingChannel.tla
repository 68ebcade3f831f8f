---------------------------- MODULE RingChannel -----------------------------
(***************************************************************************)
(* The ring of CircBuffer on its own: Writers that write transactions of   *)
(* Msgs whenever they like, and Readers that read whenever they like.      *)
(***************************************************************************)
EXTENDS CircBuffer, Sequences

CONSTANTS Writers, Readers, Msgs

ASSUME RingAssumption ==
  /\ Writers \cap Readers = {}
  /\ Msgs \subseteq Tx
  /\ PutDone = "idle"
  /\ GetDone = "idle"

VARIABLES
  taken,  \* history: the transaction read last
  fate    \* history: what became of the transaction written last

history == <<taken, fate>>
vars    == <<shared, local, history>>
Callers == Writers \cup Readers

Init ==
  /\ in = 0
  /\ out = 0
  /\ buffer = [i \in Slots |-> ZeroTx]
  /\ pc = [p \in Callers |-> "idle"]
  /\ tx = [p \in Callers |-> IndeterminateTx]
  /\ idx = [p \in Callers |-> 0]
  /\ wrd = [p \in Callers |-> 1]
  /\ taken = IndeterminateTx
  /\ fate = "none"

Offer(p, m) ==
  /\ pc[p] = "idle"
  /\ tx' = [tx EXCEPT ![p] = m]
  /\ Goto(p, "put_in")
  /\ UNCHANGED <<shared, idx, wrd, history>>

Ask(p) ==
  /\ pc[p] = "idle"
  /\ tx' = [tx EXCEPT ![p] = IndeterminateTx]
  /\ Goto(p, "get_in")
  /\ UNCHANGED <<shared, idx, wrd, history>>

Writing(p) ==
  \/ (PutLoadIn(p) \/ PutRoom(p) \/ PutCopy(p)) /\ UNCHANGED history
  \/ PutFull(p) /\ fate' = "lost"   /\ UNCHANGED taken
  \/ PutSet(p)  /\ fate' = "stored" /\ UNCHANGED taken

Reading(p) ==
  \/ (GetLoadIn(p) \/ GetEmpty(p) \/ GetSome(p) \/ GetCopy(p))
     /\ UNCHANGED history
  \/ GetSet(p) /\ taken' = tx[p] /\ UNCHANGED fate

WriterStep(w) == Writing(w) \/ \E m \in Msgs : Offer(w, m)
ReaderStep(r) == Reading(r) \/ Ask(r)

Next == (\E w \in Writers : WriterStep(w)) \/ (\E r \in Readers : ReaderStep(r))

Spec == Init /\ [][Next]_vars

(* A server polls for ever; a wallet finishes a write, but need not begin. *)
FairSpec ==
  /\ Spec
  /\ \A w \in Writers : WF_vars(Writing(w))
  /\ \A r \in Readers : WF_vars(ReaderStep(r))
-----------------------------------------------------------------------------
TypeOK ==
  /\ in \in Slots
  /\ out \in Slots
  /\ buffer \in [Slots -> Tx]
  /\ pc \in [Callers -> {"idle"} \cup PutLabels \cup GetLabels]
  /\ \A p \in Writers : pc[p] \in {"idle"} \cup PutLabels
  /\ \A p \in Readers : pc[p] \in {"idle"} \cup GetLabels
  /\ tx \in [Callers -> Tx]
  /\ idx \in [Callers -> Slots]
  /\ wrd \in [Callers -> 1 .. Words]
  /\ taken \in Tx
  /\ fate \in {"none", "stored", "lost"}

Queue == INSTANCE FIFO WITH
           Capacity <- BufSize - 1, None <- IndeterminateTx, queue <- Content

(* With one writer and one reader the ring is a first-in first-out queue   *)
(* of BufSize - 1 places: no transaction lost once written, none delivered *)
(* twice, torn or out of order, although nothing locks it (memory.c).      *)
IsFIFO == Queue!Spec

(* A slot is never filled while another process copies out of it or into   *)
(* it (memory.c: the slot is filled before in moves, and freed by out only *)
(* after it was copied).                                                   *)
SlotExclusive ==
  \A p, q \in Callers :
    (p # q /\ pc[p] = "put_copy" /\ pc[q] \in {"put_copy", "get_copy"})
      => idx[p] # idx[q]

(* A transaction at the head of the ring is read: the servers poll for     *)
(* ever (server.c:16).                                                     *)
HeadIsRead == \A i \in Slots : (out = i /\ in # i) ~> out # i
=============================================================================
