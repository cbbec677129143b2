----------------------------- MODULE TaskQueue -----------------------------
(***************************************************************************)
(* What the PendSV work queue promises to the drivers that defer work to   *)
(* it: a bounded FIFO of calls, served one at a time.  A call is taken at  *)
(* most once, in the order in which calls were accepted, and never while   *)
(* another call is running.                                                *)
(***************************************************************************)
EXTENDS Naturals, Sequences

CONSTANTS Calls,   \* the (routine, context, data) triples ever submitted
          Bound    \* how many accepted calls can wait

VARIABLES queue,     \* accepted and not yet started, oldest first
          running,   \* {} or the one call being executed
          accepted   \* every call accepted so far

tqvars == <<queue, running, accepted>>

TQTypeOK ==
    /\ queue \in Seq(Calls)
    /\ running \in SUBSET Calls
    /\ accepted \in SUBSET Calls

TQInit ==
    /\ queue = <<>>
    /\ running = {}
    /\ accepted = {}

Accept(c) ==
    /\ c \notin accepted
    /\ Len(queue) < Bound
    /\ queue' = Append(queue, c)
    /\ accepted' = accepted \union {c}
    /\ UNCHANGED running

Start ==
    /\ running = {}
    /\ queue # <<>>
    /\ running' = {Head(queue)}
    /\ queue' = Tail(queue)
    /\ UNCHANGED accepted

Finish ==
    /\ running # {}
    /\ running' = {}
    /\ UNCHANGED <<queue, accepted>>

TQNext == (\E c \in Calls : Accept(c)) \/ Start \/ Finish

TQSpec == TQInit /\ [][TQNext]_tqvars
=============================================================================
