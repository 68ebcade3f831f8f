-------------------------------- MODULE Bank --------------------------------
(***************************************************************************)
(* What SOchain promises about money: accounts that are opened with a      *)
(* deposit, and transfers that are made and booked one after the other.    *)
(***************************************************************************)
EXTENDS Integers

CONSTANTS
  Accounts,
  Deposit,  \* what an account is opened with
  Orders    \* the <<account, amount>> that money may be moved to

VARIABLES
  bal,  \* account -> its balance
  net   \* account -> what the booked transfers move to it

vars == <<bal, net>>

Init ==
  /\ bal = [a \in Accounts |-> 0]
  /\ net = [a \in Accounts |-> 0]

Open(a) ==
  /\ bal[a] = 0 /\ net[a] = 0
  /\ bal' = [bal EXCEPT ![a] = Deposit]
  /\ UNCHANGED net

Moved(amounts, from, to, amount) ==
  [a \in Accounts |-> amounts[a] + (IF a = to THEN amount ELSE 0)
                                 - (IF a = from THEN amount ELSE 0)]

Transfer(from, order) ==
  /\ bal' = Moved(bal, from, order[1], order[2])
  /\ net' = Moved(net, from, order[1], order[2])

Next ==
  \/ \E a \in Accounts : Open(a)
  \/ \E from \in Accounts, order \in Orders : Transfer(from, order)

Spec == Init /\ [][Next]_vars
=============================================================================
