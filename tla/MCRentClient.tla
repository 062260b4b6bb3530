---------------------------- MODULE MCRentClient ------------------------------
(***************************************************************************)
(* Instances of RentClient for TLC.                                        *)
(***************************************************************************)
EXTENDS RentClient, TLC

CONSTANTS u1, u2, s1, c1, n1, r1, r2, r3

NoServices == <<>>

NoneSupports == [s \in {} |-> Nil]

OneService == <<s1>>

OneSupports == [s \in {s1} |-> {c1}]

\* A service without the field supportedCountry.
NoneSupported == [s \in {s1} |-> Nil]

\* Requests, users and numbers differ only in their contents.
AccountSymmetry == Permutations(Slots) \cup Permutations(Users) \cup Permutations(Rents)

=============================================================================
