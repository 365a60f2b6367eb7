-------------------------- MODULE MCEventConsumer ---------------------------
(***************************************************************************)
(* Small instances of EventConsumer for TLC.                               *)
(***************************************************************************)
EXTENDS EventConsumer, TLC

Symmetry ==
    Permutations(Replicas) \cup Permutations(Endpoints) \cup Permutations(EventIDs)
=============================================================================
