----------------------------- MODULE PendSvMC -----------------------------
(***************************************************************************)
(* PendSv for model checking.  A ring of 3 slots (2 usable) wraps and      *)
(* fills with 4 calls; two interrupt levels above PendSV let an enqueue be *)
(* preempted between any two of its steps by an enqueue that is preempted  *)
(* itself.  After the last call only empty interrupts and svc instructions *)
(* remain, so the system never stops: deadlock is checked.                 *)
(***************************************************************************)
EXTENDS PendSv
=============================================================================
