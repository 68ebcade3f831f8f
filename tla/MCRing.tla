------------------------------- MODULE MCRing -------------------------------
EXTENDS RingChannel
Msg(i) == [id |-> i, src_id |-> i - 1, dest_id |-> 2 - i, amount |-> i,
           wallet_signature |-> i - 1, server_signature |-> i]
MCMsgs == {Msg(1), Msg(2)}
=============================================================================
