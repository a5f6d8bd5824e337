--------------------------- MODULE MCOccurrences ---------------------------
(* Small instances of Occurrences.                                            *)
EXTENDS Occurrences, TLC

OneGoal == [h \in Habit |-> CHOOSE g \in Goal : TRUE]

(* Two generations: one of both days, one of tomorrow only.                   *)
CONSTANTS w1, w2
TwoGenerations == w1 :> <<0, 1>> @@ w2 :> <<1>>
=============================================================================
