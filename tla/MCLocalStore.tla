---------------------------- MODULE MCLocalStore ------------------------------
(***************************************************************************)
(* Instances of LocalStore for TLC.  As in AuthManager, a set gives every  *)
(* field a value and an update changes one field.                          *)
(***************************************************************************)
EXTENDS LocalStore

SetsAndUpdates ==
    {SetMutation([f \in Fields |-> v]) : v \in Values}
        \cup {PatchMutation([g \in Fields |-> v], {f}, TRUE) : f \in Fields, v \in Values}

=============================================================================
