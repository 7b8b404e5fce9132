------------------------------- MODULE MdFrames -------------------------------
(***************************************************************************)
(* The frames of the market-data port (include/matchbox/protocol.hpp), by  *)
(* what a subscriber makes of them.  Of a Trade or Top frame only its      *)
(* stream seq is kept.                                                     *)
(***************************************************************************)
EXTENDS Integers

Data(seq) == [kind |-> "data", seq |-> seq]
Gap(from, resumedAt) == [kind |-> "gap", from |-> from, resumed_at |-> resumedAt]
Heartbeat(headSeq) == [kind |-> "heartbeat", head_seq |-> headSeq]
==============================================================================
