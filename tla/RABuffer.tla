------------------------------ MODULE RABuffer ------------------------------
(***************************************************************************)
(* struct ra_buffer and the functions of memory.c on it.  Two buffers of   *)
(* the program are of this kind: main -> wallets, searched by src_id, and  *)
(* servers -> main, searched by id.  write_main_wallets_buffer and         *)
(* write_servers_main_buffer are the same code, and so are the two reads   *)
(* but for the field they compare, the constant KeyField.                  *)
(*                                                                         *)
(* No lock protects the buffer.  Each load or store of shared memory is a  *)
(* step of its own, so the operations of two processes interleave anywhere *)
(* between them.  A caller starts an operation by setting its pc to        *)
(* "w_flag" or "r_flag"; the operation ends at WriteDone or ReadDone.      *)
(***************************************************************************)
EXTENDS Transactions

CONSTANTS
  KeyField,   \* the field a read compares with its key
  WriteDone,  \* the caller's label after a write
  ReadDone    \* the caller's label after a read

VARIABLES
  ptrs,    \* buffer->ptrs: slot -> 0 (free) or 1 (taken)
  buffer,  \* buffer->buffer: slot -> transaction
  pc,      \* process -> where it is
  tx,      \* process -> the struct transaction it passes by pointer
  idx,     \* process -> the loop index i
  wrd,     \* process -> the word of the structure it copies next
  key      \* reader -> the wallet_id or tx_id it looks for

shared == <<ptrs, buffer>>
local  == <<pc, tx, idx, wrd>>

WriteLabels == {"w_flag", "w_mark", "w_copy"}
ReadLabels  == {"r_flag", "r_key", "r_copy", "r_free"}

Goto(p, label) == pc' = [pc EXCEPT ![p] = label]

LastSlotPast(p) == idx[p] = BufSize  \* a faulty variant of LastSlot

LastSlot(p) == idx[p] + 1 = BufSize

(* The next turn of the for loop, or its end. *)
NextSlot(p, test, done) ==
  /\ Goto(p, IF LastSlot(p) THEN done ELSE test)
  /\ idx' = [idx EXCEPT ![p] = IF LastSlot(p) THEN 0 ELSE @ + 1]

(* The next move of a structure assignment; after the last one, label. *)
NextWord(p, label) ==
  /\ wrd' = [wrd EXCEPT ![p] = IF @ = Words THEN 1 ELSE @ + 1]
  /\ pc'  = [pc  EXCEPT ![p] = IF wrd[p] = Words THEN label ELSE @]

-----------------------------------------------------------------------------
(* Write: take the first free slot, then fill it. *)

WriteSkip(p) ==
  /\ pc[p] = "w_flag"
  /\ ptrs[idx[p]] # 0
  /\ NextSlot(p, "w_flag", WriteDone)
  /\ UNCHANGED <<shared, tx, wrd>>

WriteFound(p) ==
  /\ pc[p] = "w_flag"
  /\ ptrs[idx[p]] = 0
  /\ Goto(p, "w_mark")
  /\ UNCHANGED <<shared, tx, idx, wrd>>

WriteMark(p) ==
  /\ pc[p] = "w_mark"
  /\ ptrs' = [ptrs EXCEPT ![idx[p]] = 1]
  /\ Goto(p, "w_copy")
  /\ UNCHANGED <<buffer, tx, idx, wrd>>

WriteCopy(p) ==
  /\ pc[p] = "w_copy"
  /\ buffer' = [buffer EXCEPT ![idx[p]] = CopyWord(@, tx[p], wrd[p])]
  /\ NextWord(p, WriteDone)
  /\ idx' = [idx EXCEPT ![p] = IF wrd[p] = Words THEN 0 ELSE @]
  /\ UNCHANGED <<ptrs, tx>>

Write(p) == WriteSkip(p) \/ WriteFound(p) \/ WriteMark(p) \/ WriteCopy(p)

-----------------------------------------------------------------------------
(* Read: the first taken slot that holds the key is copied, then freed.    *)
(* Past the last slot the caller gets id -1.                               *)

(* A faulty variant of PassSlot: after the last slot, the first one again. *)
PassSlotWaits(p) ==
  /\ NextSlot(p, "r_flag", "r_flag")
  /\ UNCHANGED <<shared, tx, wrd>>

PassSlot(p) ==
  /\ NextSlot(p, "r_flag", ReadDone)
  /\ tx' = [tx EXCEPT ![p].id = IF LastSlot(p) THEN NoTx ELSE @]
  /\ UNCHANGED <<shared, wrd>>

ReadSkip(p) ==
  /\ pc[p] = "r_flag"
  /\ ptrs[idx[p]] # 1
  /\ PassSlot(p)

ReadFound(p) ==
  /\ pc[p] = "r_flag"
  /\ ptrs[idx[p]] = 1
  /\ Goto(p, "r_key")
  /\ UNCHANGED <<shared, tx, idx, wrd>>

ReadMismatch(p) ==
  /\ pc[p] = "r_key"
  /\ buffer[idx[p]][KeyField] # key[p]
  /\ PassSlot(p)

ReadMatch(p) ==
  /\ pc[p] = "r_key"
  /\ buffer[idx[p]][KeyField] = key[p]
  /\ Goto(p, "r_copy")
  /\ UNCHANGED <<shared, tx, idx, wrd>>

ReadCopy(p) ==
  /\ pc[p] = "r_copy"
  /\ tx' = [tx EXCEPT ![p] = CopyWord(@, buffer[idx[p]], wrd[p])]
  /\ NextWord(p, "r_free")
  /\ UNCHANGED <<shared, idx>>

(* A faulty variant of ReadFree: the slot stays taken. *)
ReadFreeKept(p) ==
  /\ pc[p] = "r_free"
  /\ Goto(p, ReadDone)
  /\ idx' = [idx EXCEPT ![p] = 0]
  /\ UNCHANGED <<shared, tx, wrd>>

ReadFree(p) ==
  /\ pc[p] = "r_free"
  /\ ptrs' = [ptrs EXCEPT ![idx[p]] = 0]
  /\ Goto(p, ReadDone)
  /\ idx' = [idx EXCEPT ![p] = 0]
  /\ UNCHANGED <<buffer, tx, wrd>>

Read(p) ==
  \/ ReadSkip(p) \/ ReadFound(p) \/ ReadMismatch(p) \/ ReadMatch(p)
  \/ ReadCopy(p) \/ ReadFree(p)
=============================================================================
