---------------------------- MODULE Transactions ----------------------------
(***************************************************************************)
(* The data every process of SOchain shares: the sizes fixed on the        *)
(* command line, struct transaction (inc/memory.h) and how the compiled    *)
(* program copies one from or to shared memory.                            *)
(***************************************************************************)
EXTENDS Integers

CONSTANTS
  NWallets,  \* info->n_wallets
  NServers,  \* info->n_servers
  BufSize    \* info->buffers_size, the same for the three buffers

ASSUME SizesAssumption ==
  /\ NWallets \in Nat \ {0}
  /\ NServers \in Nat \ {0}
  /\ BufSize  \in Nat \ {0}

Wallets == 0 .. NWallets - 1
Servers == 0 .. NServers - 1
Slots   == 0 .. BufSize - 1

(* A process is its kind and the id it was launched with. *)
Main        == <<"main", 0>>
WalletProcs == {"wallet"} \X Wallets
ServerProcs == {"server"} \X Servers
Children    == WalletProcs \cup ServerProcs
Procs       == {Main} \cup Children
Id(p)       == p[2]

(* tx->id when a read found nothing. *)
NoTx == -1

(* tx->id of a struct transaction declared on the stack and not yet        *)
(* assigned: a marker of its own, so that a use of it can be told.         *)
Indeterminate == -2

(* The amount is a float in the code.  The model takes whole amounts,      *)
(* which floats hold exactly up to 2^24.                                   *)
Tx == [id : Int, src_id : Wallets, dest_id : Wallets, amount : Int,
       wallet_signature : Int, server_signature : Int]

(* What ftruncate leaves in a new segment: all bytes zero. *)
ZeroTx == [id |-> 0, src_id |-> 0, dest_id |-> 0, amount |-> 0,
           wallet_signature |-> 0, server_signature |-> 0]

IndeterminateTx == [ZeroTx EXCEPT !.id = Indeterminate]

(* A structure assignment is compiled into three eight-byte moves, in      *)
(* this order, so another process can see a slot between two of them.      *)
Words == 3

(* A faulty variant of CopyWord: another layout, amount after dest_id's    *)
(* word.                                                                   *)
CopyWordApart(to, from, w) ==
  LET source(k) == IF w = k THEN from ELSE to
  IN [id               |-> source(1).id,
      src_id           |-> source(1).src_id,
      dest_id          |-> source(2).dest_id,
      amount           |-> source(3).amount,
      wallet_signature |-> source(3).wallet_signature,
      server_signature |-> source(3).server_signature]

CopyWord(to, from, w) ==
  LET source(k) == IF w = k THEN from ELSE to
  IN [id               |-> source(1).id,
      src_id           |-> source(1).src_id,
      dest_id          |-> source(2).dest_id,
      amount           |-> source(2).amount,
      wallet_signature |-> source(3).wallet_signature,
      server_signature |-> source(3).server_signature]
=============================================================================
