----------------------------- MODULE UsbCdcMC -----------------------------
(***************************************************************************)
(* UsbCdc for model checking.  A ring of three packets of two bytes wraps  *)
(* in both ways: behind a full packet, and before one might not fit.       *)
(***************************************************************************)
EXTENDS UsbCdc

Quiet == [lengths |-> {}, reads |-> {}, backlog |-> 0, anytime |-> FALSE,
          bytes |-> 0, sends |-> 0, events |-> 1]

\* Packets of any length, as many as are sure to fit.
ShortPackets == [Quiet EXCEPT !.lengths = {1, 2}, !.reads = {1, 3},
                              !.backlog = Size - Packet, !.bytes = 7]

\* Whole packets, at any time and without end.
WholePackets == [Quiet EXCEPT !.lengths = {2}, !.reads = {1, 3}, !.anytime = TRUE,
                              !.backlog = 8, !.bytes = 8]

\* Transfers, on a bus that comes and goes.
Restless == [Quiet EXCEPT !.lengths = {2}, !.reads = {1}, !.backlog = 2, !.bytes = 4,
                          !.sends = 2, !.events = 5]

AllScenes == {ShortPackets, WholePackets, Restless}
=============================================================================
