------------------------------- MODULE MCEngine -------------------------------
(***************************************************************************)
(* The engine, with its owners' view, on small instances.                  *)
(***************************************************************************)
EXTENDS OwnerView, PriceTime

(* One kind of order for each way match_and_rest can end.  A market order  *)
(* with IOC ends as one with GTC does.                                     *)
EveryEnd == {<<"Limit", "GTC">>, <<"Limit", "IOC">>, <<"Market", "GTC">>}

(* Resting limit orders and sweeping market orders only.                   *)
RestOrSweep == {<<"Limit", "GTC">>, <<"Market", "IOC">>}
==============================================================================
