---------------------------- MODULE MCEscalation ----------------------------
(* Small instances of Escalation: one occurrence a day.                       *)
EXTENDS Escalation, TLC

OneADay == [o \in Occurrence |-> o]
ProcessSymmetry == Permutations(Process)
=============================================================================
