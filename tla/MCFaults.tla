------------------------------ MODULE MCFaults ------------------------------
(***************************************************************************)
(* Instances of Faults for TLC: what the user may type.                    *)
(***************************************************************************)
EXTENDS Faults

ToSelf   == {<<0, 0, 1>>}
=============================================================================
