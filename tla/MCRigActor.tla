----------------------------- MODULE MCRigActor -----------------------------
(***************************************************************************)
(* Instances of RigActor for TLC: clients are interchangeable.             *)
(***************************************************************************)
EXTENDS RigActor, TLC

ClientSymmetry == Permutations(Clients)
=============================================================================
