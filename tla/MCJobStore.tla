----------------------------- MODULE MCJobStore -----------------------------
(***************************************************************************)
(* Small instances of JobStore for TLC.                                    *)
(***************************************************************************)
EXTENDS JobStoreProperties, TLC

Symmetry == Permutations(Docs) \cup Permutations(Clients)

=============================================================================
