------------------------------- MODULE MCExt4 -------------------------------
(***************************************************************************)
(* Clients that share one ext4 file; they are interchangeable.             *)
(***************************************************************************)
EXTENDS Ext4Files, TLC

ClientSymmetry == Permutations(Clients)

=============================================================================
