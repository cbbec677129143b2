--------------------------- MODULE I2cMasterMC ---------------------------
(* Small instances of I2cMaster: an empty write (a scan), a register write     *)
(* that needs a second NBYTES, a read that needs one, and a register read.    *)
EXTENDS I2cMaster

CONSTANTS t1, a1, a2

Transfers == {[tx |-> <<0>>, rx |-> 0], [tx |-> <<3, 1>>, rx |-> 0],
              [tx |-> <<>>, rx |-> 3], [tx |-> <<1>>, rx |-> 1]}
=============================================================================
