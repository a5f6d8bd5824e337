--------------------------- MODULE MCDailyActions ---------------------------
(* Small instances of DailyActions.                                           *)
EXTENDS DailyActions, TLC

ActionSymmetry == Permutations(Action)
(* The task belongs to a goal of higher priority than the habit's.            *)
Priorities == [s \in Task \cup Habit |-> IF s \in Task THEN 2 ELSE 1]
Zones == {0, 1}
ThreeTimes == {<<0, 0>>, <<0, 1>>, <<1, 0>>}
=============================================================================
