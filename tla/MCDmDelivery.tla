---------------------------- MODULE MCDmDelivery ----------------------------
(* Small instances of DmDelivery for TLC: messages 1 .. NumMsgs, an attempt   *)
(* told by its message and stage, another request by its number.              *)
EXTENDS DmDelivery

CONSTANT NumMsgs

MCMsgs  == 1 .. NumMsgs
MCArg   == {<<>>} \cup {<<i>> : i \in 1 .. MaxRequests} \cup (MCMsgs \X Stages)
MCEpoch == 0 .. MaxEpoch
=============================================================================
