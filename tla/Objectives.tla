----------------------------- MODULE Objectives -----------------------------
(* The objectives of a goal and its progress (domain/objectives.py).  A       *)
(* request reads its objective and the goal without locks, writes the columns *)
(* it changes, recomputes the goal from what it can see, and commits.         *)
EXTENDS Progress

CONSTANTS
    Objective,     \* ids
    Request,       \* requests about the goal's objectives
    NewRow,        \* objectives the User creates
    Change         \* <<column, value>> the User sets

VARIABLES
    objective,     \* rows, or NoRow
    goal,          \* progress and whether the goal is archived
    req            \* the requests

objectiveVars == <<objective, goal, req>>

NoRow == [status |-> "none"]
Waiting == [pc |-> "waiting"]
Finished == [pc |-> "finished"]
Exists(rows, i) == rows[i] # NoRow /\ ~ rows[i].deleted

InitObjectives ==
    /\ objective = [i \in Objective |-> NoRow]
    /\ goal = [progress |-> 0, archived |-> FALSE]
    /\ req = [r \in Request |-> Waiting]

(* Fault: archived and completed objectives are counted.                      *)
ActiveOrNot(rows) == {i \in DOMAIN rows : Exists(rows, i)}

(* The objectives recompute_goal() selects.                                   *)
ActiveOf(rows) == {i \in DOMAIN rows : Exists(rows, i) /\ rows[i].status = "active"}

recompute_goal(rows) == goal_progress(rows, ActiveOf(rows))

Running(r) == req[r].pc \in {"read", "flushed"}

(* Whether a request has run with no other beside it so far.                  *)
Others(r) == {o \in Request \ {r} : Running(o)}
Joined(r) == [o \in Request |-> IF Running(o) THEN [req[o] EXCEPT !.alone = FALSE] ELSE req[o]]

Read(r, i, columns, row) ==
    /\ req[r] = Waiting /\ ~ goal.archived
    /\ req' = [Joined(r) EXCEPT ![r] =
                 [pc |-> "read", objective |-> i, columns |-> columns, row |-> row,
                  loaded |-> goal.progress, value |-> 0, alone |-> Others(r) = {}]]
    /\ UNCHANGED <<objective, goal>>

(* _apply_progress() on the row as the request sees it.                       *)
_apply_progress(row) == [row EXCEPT !.progress = objective_progress(row)]

create(r, i, row) ==
    /\ objective[i] = NoRow /\ \A o \in Request : Running(o) => req[o].objective # i
    /\ validate_range(row)
    /\ Read(r, i, DOMAIN row, _apply_progress(row))

update(r, i, change) ==
    LET row == [objective[i] EXCEPT ![change[1]] = change[2]]
    IN  /\ Exists(objective, i) /\ validate_range(row)
        /\ Read(r, i, {change[1], "progress"}, _apply_progress(row))

delete(r, i) ==
    /\ Exists(objective, i)
    /\ Read(r, i, {"deleted"}, [objective[i] EXCEPT !.deleted = TRUE])

(* The row as the UPDATE, or the INSERT, leaves it.                           *)
Written(r) ==
    LET old == objective[req[r].objective]
        new == req[r].row
    IN  IF old = NoRow THEN new
        ELSE [c \in DOMAIN new |-> IF c \in req[r].columns THEN new[c] ELSE old[c]]

(* flush() waits for a request that has written the row, then the goal is     *)
(* recomputed from the committed rows and the request's own.                  *)
Flush(r) ==
    /\ req[r].pc = "read"
    /\ \A o \in Others(r) : req[o].pc = "flushed" => req[o].objective # req[r].objective
    /\ req' = [req EXCEPT ![r].pc = "flushed",
                          ![r].value = recompute_goal([objective EXCEPT ![req[r].objective] = Written(r)])]
    /\ UNCHANGED <<objective, goal>>

(* The goal is only written when its progress differs from what was read.     *)
Commit(r) ==
    /\ req[r].pc = "flushed"
    /\ objective' = [objective EXCEPT ![req[r].objective] = Written(r)]
    /\ goal' = IF req[r].value = req[r].loaded THEN goal ELSE [goal EXCEPT !.progress = req[r].value]
    /\ req' = [req EXCEPT ![r] = Finished]

Fail(r) ==
    /\ Running(r)
    /\ req' = [req EXCEPT ![r] = Finished]
    /\ UNCHANGED <<objective, goal>>

archive ==
    /\ ~ goal.archived
    /\ goal' = [goal EXCEPT !.archived = TRUE]
    /\ UNCHANGED <<objective, req>>

NextObjectives ==
    \/ \E r \in Request :
         \/ \E i \in Objective :
              \/ \E row \in NewRow : create(r, i, row)
              \/ \E change \in Change : update(r, i, change)
              \/ delete(r, i)
         \/ Flush(r) \/ Commit(r) \/ Fail(r)
    \/ archive

(* A request that no other overlapped leaves the goal's progress right, the   *)
(* weighted mean of its active objectives, whatever races came before it.     *)
UpdateRepairs ==
    [][ \A r \in Request : Commit(r) /\ req[r].alone =>
          LET active == {i \in Objective : /\ objective'[i] # NoRow /\ ~ objective'[i].deleted
                                           /\ objective'[i].status = "active"}
          IN  goal'.progress = goal_progress(objective', active) ]_objectiveVars

(* The same of every state with no request running, which overlapping         *)
(* requests break: each recomputes the goal without the other's change.       *)
GoalAgrees ==
    (\A r \in Request : ~ Running(r)) => goal.progress = recompute_goal(objective)
=============================================================================
