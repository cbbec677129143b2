---------------------------- MODULE SflashFtlMC -----------------------------
(***************************************************************************)
(* SflashFtl for model checking: three sectors.                            *)
(***************************************************************************)
EXTENDS SflashFtl

Anyone == Permutations(Values)
=============================================================================
