----------------------------- MODULE CircBuffer -----------------------------
(***************************************************************************)
(* struct circ_buffer and the functions of memory.c on it: the ring in     *)
(* which wallets leave signed transactions for the servers.  It is full    *)
(* one slot early, so that in = out always reads as empty.                 *)
(*                                                                         *)
(* No lock protects the ring.  Each load or store of shared memory is a    *)
(* step.  A caller starts at "put_in" or "get_in"; the operation ends at   *)
(* PutDone or GetDone.                                                     *)
(***************************************************************************)
EXTENDS Transactions

CONSTANTS
  PutDone,  \* the caller's label after a write
  GetDone   \* the caller's label after a read

VARIABLES
  in,      \* buffer->ptrs->in
  out,     \* buffer->ptrs->out
  buffer,  \* buffer->buffer: slot -> transaction
  pc,      \* process -> where it is
  tx,      \* process -> the struct transaction it passes by pointer
  idx,     \* process -> the index it works on: i, then for a read j
  wrd      \* process -> the word of the structure it copies next

shared == <<in, out, buffer>>
local  == <<pc, tx, idx, wrd>>

PutLabels == {"put_in", "put_out", "put_copy", "put_set"}
GetLabels == {"get_in", "get_out", "get_copy", "get_set"}

Goto(p, label) == pc' = [pc EXCEPT ![p] = label]

SuccNoWrap(i) == i + 1  \* a faulty variant of Succ

Succ(i) == (i + 1) % BufSize

(* The slots from out up to in, going round. *)
Held    == IF out <= in THEN in - out ELSE in - out + BufSize
Nth(k)  == IF out + k - 1 < BufSize THEN out + k - 1 ELSE out + k - 1 - BufSize
Content == [k \in 1 .. Held |-> buffer[Nth(k)]]

(* The next move of a structure assignment; after the last one, label. *)
NextWord(p, label) ==
  /\ wrd' = [wrd EXCEPT ![p] = IF @ = Words THEN 1 ELSE @ + 1]
  /\ pc'  = [pc  EXCEPT ![p] = IF wrd[p] = Words THEN label ELSE @]

-----------------------------------------------------------------------------
(* write_wallets_servers_buffer: with the ring full, nothing is written. *)

PutLoadIn(p) ==
  /\ pc[p] = "put_in"
  /\ idx' = [idx EXCEPT ![p] = in]
  /\ Goto(p, "put_out")
  /\ UNCHANGED <<shared, tx, wrd>>

PutFull(p) ==
  /\ pc[p] = "put_out"
  /\ Succ(idx[p]) = out
  /\ Goto(p, PutDone)
  /\ idx' = [idx EXCEPT ![p] = 0]
  /\ UNCHANGED <<shared, tx, wrd>>

(* Faulty variants of PutRoom: it does not look whether the ring is full;  *)
(* it publishes the slot before it is filled.                              *)
PutRoomUnchecked(p) ==
  /\ pc[p] = "put_out"
  /\ Goto(p, "put_copy")
  /\ UNCHANGED <<shared, tx, idx, wrd>>

PutRoomPublishes(p) ==
  /\ pc[p] = "put_out"
  /\ Succ(idx[p]) # out
  /\ in' = Succ(idx[p])
  /\ Goto(p, "put_copy")
  /\ UNCHANGED <<out, buffer, tx, idx, wrd>>

PutRoom(p) ==
  /\ pc[p] = "put_out"
  /\ Succ(idx[p]) # out
  /\ Goto(p, "put_copy")
  /\ UNCHANGED <<shared, tx, idx, wrd>>

PutCopy(p) ==
  /\ pc[p] = "put_copy"
  /\ buffer' = [buffer EXCEPT ![idx[p]] = CopyWord(@, tx[p], wrd[p])]
  /\ NextWord(p, "put_set")
  /\ UNCHANGED <<in, out, tx, idx>>

PutSet(p) ==
  /\ pc[p] = "put_set"
  /\ in' = Succ(idx[p])
  /\ Goto(p, PutDone)
  /\ idx' = [idx EXCEPT ![p] = 0]
  /\ UNCHANGED <<out, buffer, tx, wrd>>

Put(p) == PutLoadIn(p) \/ PutFull(p) \/ PutRoom(p) \/ PutCopy(p) \/ PutSet(p)

-----------------------------------------------------------------------------
(* read_wallets_servers_buffer: with the ring empty, the caller gets -1. *)

GetLoadIn(p) ==
  /\ pc[p] = "get_in"
  /\ idx' = [idx EXCEPT ![p] = in]
  /\ Goto(p, "get_out")
  /\ UNCHANGED <<shared, tx, wrd>>

(* A faulty variant of GetEmpty: the caller's id is left as it was. *)
GetEmptySilent(p) ==
  /\ pc[p] = "get_out"
  /\ idx[p] = out
  /\ Goto(p, GetDone)
  /\ idx' = [idx EXCEPT ![p] = 0]
  /\ UNCHANGED <<shared, tx, wrd>>

GetEmpty(p) ==
  /\ pc[p] = "get_out"
  /\ idx[p] = out
  /\ tx' = [tx EXCEPT ![p].id = NoTx]
  /\ Goto(p, GetDone)
  /\ idx' = [idx EXCEPT ![p] = 0]
  /\ UNCHANGED <<shared, wrd>>

GetSome(p) ==
  /\ pc[p] = "get_out"
  /\ idx[p] # out
  /\ idx' = [idx EXCEPT ![p] = out]
  /\ Goto(p, "get_copy")
  /\ UNCHANGED <<shared, tx, wrd>>

GetCopy(p) ==
  /\ pc[p] = "get_copy"
  /\ tx' = [tx EXCEPT ![p] = CopyWord(@, buffer[idx[p]], wrd[p])]
  /\ NextWord(p, "get_set")
  /\ UNCHANGED <<shared, idx>>

(* A faulty variant of GetSet: out stays where it was. *)
GetSetKept(p) ==
  /\ pc[p] = "get_set"
  /\ Goto(p, GetDone)
  /\ idx' = [idx EXCEPT ![p] = 0]
  /\ UNCHANGED <<shared, tx, wrd>>

GetSet(p) ==
  /\ pc[p] = "get_set"
  /\ out' = Succ(idx[p])
  /\ Goto(p, GetDone)
  /\ idx' = [idx EXCEPT ![p] = 0]
  /\ UNCHANGED <<in, buffer, tx, wrd>>

Get(p) == GetLoadIn(p) \/ GetEmpty(p) \/ GetSome(p) \/ GetCopy(p) \/ GetSet(p)
=============================================================================
