---------------------------- MODULE ArmEventMC ----------------------------
(***************************************************************************)
(* ArmEvent for model checking: one urgent event, two of equal urgency and *)
(* a cooperative one.  One program uses them all and leaves them as they   *)
(* are; the other retunes and destroys an event and sets a ceiling.        *)
(***************************************************************************)
EXTENDS ArmEvent

CONSTANTS high, low1, low2, coop

Urgencies == [e \in Event |-> IF e = high THEN 0 ELSE IF e = coop THEN Cooperative ELSE 1]

PlainProgram == [events |-> Event, retuned |-> {}, ceilings |-> {}, ops |-> 5]

TuningProgram == [events |-> {high, low1, low2}, retuned |-> {low1}, ceilings |-> {1}, ops |-> 5]

AllPrograms == {PlainProgram, TuningProgram}
=============================================================================
