---------------------------- MODULE MCActivation -----------------------------
(***************************************************************************)
(* Instances of Activation for TLC.                                        *)
(***************************************************************************)
EXTENDS Activation, TLC

CONSTANTS o1, o2, s1, s2, c1, r1, r2, r3, t1

OneOrder == {o1}
TwoOrders == {o1, o2}
OneService == {s1}
TwoServices == {s1, s2}
OneCountry == {c1}
TwoRequests == {r1, r2}
ThreeRequests == {r1, r2, r3}
OneRequest == {r1}
Open == {"waiting", "received"}
Waiting == {"waiting"}
Received == {"received"}
NoTokens == {}
OneToken == {t1}
NoAmounts == {}
OneAmount == {1}
StoredOne == {1}
NoHostCalls == {}
BalanceCalls == {"addBalance", "initUser", "init"}
NoFaults == {}
InitAndToken == {"init", "updateFCM"}
ReadsAndRestart == {"failedRead", "restart"}
LostReplies == {"lostReply"}
LostAndRestart == {"lostReply", "restart"}

OrderSymmetry == Permutations(TwoOrders) \cup Permutations(ThreeRequests)
=============================================================================
