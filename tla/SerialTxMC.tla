---------------------------- MODULE SerialTxMC ----------------------------
(***************************************************************************)
(* SerialTx for model checking.  The bounds are plain numbers, given in    *)
(* the .cfg files: a ring of two packets and writes that do not divide it. *)
(***************************************************************************)
EXTENDS SerialTx
=============================================================================
