----------------------------- MODULE BlockStore -----------------------------
(***************************************************************************)
(* What a block device promises to the file system on it: a write or a     *)
(* discard that returned is what later reads see, and one that a loss of   *)
(* power interrupted took place entirely or not at all, and touched no     *)
(* other block.  SflashFtl implements it.                                  *)
(***************************************************************************)
EXTENDS Integers

CONSTANTS Addresses, Data, Blank

VARIABLES content,   \* what a read of each address returns
          pending,   \* the write or discard that was accepted
          cut        \* the power went while it was pending

storeVars == <<content, pending, cut>>

NoRequest == [at |-> -1, data |-> Blank]

Served == [content EXCEPT ![pending.at] = pending.data]

StoreInit ==
    /\ content = [a \in Addresses |-> Blank]
    /\ pending = NoRequest
    /\ cut = FALSE

Begin(a, d) ==
    /\ pending = NoRequest
    /\ pending' = [at |-> a, data |-> d]
    /\ UNCHANGED <<content, cut>>

Finish ==
    /\ pending # NoRequest /\ ~cut
    /\ content' = Served
    /\ pending' = NoRequest
    /\ UNCHANGED cut

Cut ==
    /\ pending # NoRequest /\ ~cut
    /\ cut' = TRUE
    /\ UNCHANGED <<content, pending>>

\* The store is back and has settled the interrupted request one way or the
\* other.
Settle ==
    /\ cut
    /\ content' \in {content, Served}
    /\ pending' = NoRequest
    /\ cut' = FALSE

StoreNext ==
    \/ \E a \in Addresses, d \in Data : Begin(a, d)
    \/ Finish \/ Cut \/ Settle

Store == StoreInit /\ [][StoreNext]_storeVars
=============================================================================
