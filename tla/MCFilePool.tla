----------------------------- MODULE MCFilePool -----------------------------
(***************************************************************************)
(* Small instances of FilePool for TLC.                                    *)
(***************************************************************************)
EXTENDS FilePoolProperties, TLC

Numbers == 0 .. 2 * Cardinality(Docs) - 1

Symmetry == Permutations(Docs)

=============================================================================
