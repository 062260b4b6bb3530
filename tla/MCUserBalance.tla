---------------------------- MODULE MCUserBalance ----------------------------
(***************************************************************************)
(* Instances of UserBalance for TLC.                                       *)
(***************************************************************************)
EXTENDS UserBalance

CONSTANT t1

MCOrders == {}
MCServices == {}
MCCountries == {}
MCTokens == {t1}
MCAmounts == {2}
MCStored == {Nil, 0, 2}
MCHostCalls == {"addBalance", "initUser", "updateFCM", "init"}
MCFaults == {"failedRead", "restart"}
=============================================================================
