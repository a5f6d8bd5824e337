----------------------------- MODULE MCReports -----------------------------
EXTENDS Reports

Definition(daily, days, target, first) ==
    [daily |-> daily, days |-> days, target |-> target, first |-> first, last |-> Never, pauses |-> {}]

SomeHabits == {Definition(TRUE, {}, 1, 0), Definition(TRUE, {}, 2, 0), Definition(FALSE, {0}, 1, 1)}

SomeRows ==
    {[higher |-> TRUE, current |-> 1, target |-> 3, baseline |-> 0, weight |-> 1, status |-> "active",
      deleted |-> FALSE, progress |-> 0],
     [higher |-> FALSE, current |-> 2, target |-> 0, baseline |-> 4, weight |-> 2, status |-> "active",
      deleted |-> FALSE, progress |-> 0]}
ActionSymmetry == Permutations(Action)

SomeChanges == {<<"current", 3>>, <<"weight", 5>>, <<"status", "completed">>}
=============================================================================
