--------------------------- MODULE ReportsProofs ---------------------------
(* Machine-checked theorems about the specification of module Reports: the    *)
(* progress of a goal, the pages of a listing, the Completion Rate of a       *)
(* period and the streaks of a habit, for any objectives, requests, rows,     *)
(* page sizes, edits, actions, instants, habits and dates.                    *)
EXTENDS Reports, FiniteSetTheorems, WellFoundedInduction, TLAPS

-----------------------------------------------------------------------------
(* The progress of a goal *)

(* What a running request keeps.                                              *)
RunningRequest(q) ==
    q \in [pc : {"read", "flushed"}, objective : Objective, columns : {q.columns}, row : {q.row},
           loaded : {q.loaded}, value : {q.value}, alone : BOOLEAN]

(* The rows, the goal and the requests have their shapes.                     *)
GoalShape ==
    /\ objective = [i \in Objective |-> objective[i]]
    /\ goal = [progress |-> goal.progress, archived |-> goal.archived]
    /\ req = [r \in Request |-> req[r]]
    /\ \A r \in Request : req[r] \in {Waiting, Finished} \/ RunningRequest(req[r])

(* The objectives as a request leaves them.                                   *)
Left(r) == [objective EXCEPT ![req[r].objective] = Written(r)]

(* A request that has run alone so far loaded the progress the goal still     *)
(* has, and has recomputed it from the rows it will commit.                   *)
AloneIsCurrent ==
    \A r \in Request : Running(r) /\ req[r].alone =>
        /\ \A o \in Request \ {r} : ~ Running(o)
        /\ req[r].loaded = goal.progress
        /\ req[r].pc = "flushed" => req[r].value = recompute_goal(Left(r))

(* The inductive invariant.                                                   *)
GoalInv == GoalShape /\ AloneIsCurrent

(* A request is waiting, finished or running.                                 *)
LEMMA RequestKinds ==
  ASSUME GoalShape, NEW r \in Request
  PROVE  /\ Running(r) <=> RunningRequest(req[r])
         /\ Running(r) <=> req[r] \notin {Waiting, Finished}
  <1>1. Waiting.pc = "waiting" /\ Finished.pc = "finished"
    BY DEF Waiting, Finished
  <1>2. QED
    BY <1>1 DEF GoalShape, RunningRequest, Running

(* Reading the goal ends the solitude of whatever request runs.               *)
LEMMA ReadStep ==
  ASSUME GoalInv, NEW r \in Request, NEW i \in Objective, NEW columns, NEW row,
         Read(r, i, columns, row)
  PROVE  GoalInv'
  <1> DEFINE new == [pc |-> "read", objective |-> i, columns |-> columns, row |-> row,
                     loaded |-> goal.progress, value |-> 0, alone |-> Others(r) = {}]
             left(o) == [req[o] EXCEPT !.alone = FALSE]
  <1>0. GoalShape /\ AloneIsCurrent
    BY DEF GoalInv
  <1>1. /\ req[r] = Waiting /\ UNCHANGED <<objective, goal>>
        /\ req' = [Joined(r) EXCEPT ![r] = new]
    BY DEF Read
  <1>2. req'[r] = new /\ RunningRequest(new) /\ new.pc = "read"
    <2>1. req'[r] = new
      BY <1>1 DEF Joined
    <2>2. RunningRequest(new)
      BY DEF RunningRequest
    <2>3. QED
      BY <2>1, <2>2
  <1> HIDE DEF new
  <1>3. \A o \in Request \ {r} : req'[o] = IF Running(o) THEN left(o) ELSE req[o]
    <2>1. \A o \in Request \ {r} : req'[o] = Joined(r)[o]
      BY <1>1 DEF Joined
    <2>2. \A o \in Request \ {r} : Joined(r)[o] = IF Running(o) THEN left(o) ELSE req[o]
      BY DEF Joined
    <2>3. QED
      BY <2>1, <2>2
  <1>4. req' = [o \in Request |-> req'[o]]
    <2>1. req' = [o \in Request |-> IF o = r THEN new ELSE Joined(r)[o]]
      BY <1>1 DEF Joined
    <2>2. QED
      BY <2>1
  <1>5. ASSUME NEW o \in Request \ {r}, Running(o)
        PROVE  RunningRequest(left(o)) /\ ~ left(o).alone
    <2>1. RunningRequest(req[o])
      BY <1>0, <1>5, RequestKinds
    <2>2. QED
      BY <2>1 DEF RunningRequest
  <1>6. GoalShape'
    <2>1. \A o \in Request : req'[o] \in {Waiting, Finished} \/ RunningRequest(req'[o])
      <3> SUFFICES ASSUME NEW o \in Request
                   PROVE  req'[o] \in {Waiting, Finished} \/ RunningRequest(req'[o])
        OBVIOUS
      <3>1. CASE o = r
        BY <1>2, <3>1
      <3>2. CASE o # r /\ Running(o)
        <4>1. RunningRequest(left(o))
          BY <1>5, <3>2
        <4>2. req'[o] = left(o)
          BY <1>3, <3>2
        <4>3. QED
          BY <4>1, <4>2
      <3>3. CASE o # r /\ ~ Running(o)
        <4>1. req'[o] = req[o]
          BY <1>3, <3>3
        <4>2. QED
          BY <1>0, <3>3, <4>1, RequestKinds
      <3>4. QED
        BY <3>1, <3>2, <3>3
    <2>2. objective' = [j \in Objective |-> objective'[j]]
          /\ goal' = [progress |-> goal'.progress, archived |-> goal'.archived]
      BY <1>0, <1>1 DEF GoalShape
    <2>3. Waiting' = Waiting /\ Finished' = Finished
      BY DEF Waiting, Finished
    <2>4. QED
      BY <1>4, <2>1, <2>2, <2>3 DEF GoalShape, RunningRequest
  <1>7. ~ Running(r)
    BY <1>0, <1>1, RequestKinds
  <1>8. \A o \in Request \ {r} : Running(o)' => Running(o) /\ ~ req'[o].alone
    BY <1>3, <1>5 DEF Running
  <1>9. new.loaded = goal.progress /\ new.alone = (Others(r) = {})
    BY DEF new
  <1>10. AloneIsCurrent'
    <2> SUFFICES ASSUME NEW o \in Request, Running(o)', req'[o].alone
                 PROVE  /\ \A x \in Request \ {o} : ~ Running(x)'
                        /\ req'[o].loaded = goal'.progress
                        /\ req'[o].pc # "flushed"
      BY DEF AloneIsCurrent
    <2>1. o = r
      BY <1>8
    <2>2. Others(r) = {}
      BY <1>2, <1>9, <2>1
    <2>3. QED
      BY <1>1, <1>2, <1>8, <1>9, <2>1, <2>2 DEF Others
  <1>11. QED
    BY <1>6, <1>10 DEF GoalInv

(* Creating, changing and deleting an objective begin by reading.             *)
LEMMA RequestStep ==
  ASSUME GoalInv, NEW r \in Request, NEW i \in Objective,
         \/ \E row \in NewRow : create(r, i, row)
         \/ \E change \in Change : update(r, i, change)
         \/ delete(r, i)
  PROVE  GoalInv'
  <1>1. \E columns, row : Read(r, i, columns, row)
    BY DEF create, update, delete
  <1>2. QED
    BY <1>1, ReadStep

(* The objectives a request leaves depend on the rows, its own columns and    *)
(* its own row only.                                                          *)
LEMMA LeftSame ==
  ASSUME NEW r \in Request, objective' = objective, req'[r].objective = req[r].objective,
         req'[r].row = req[r].row, req'[r].columns = req[r].columns
  PROVE  Left(r)' = Left(r)
  BY DEF Left, Written

(* A request that flushes its row recomputes the goal from it.                *)
LEMMA FlushStep ==
  ASSUME GoalInv, NEW r \in Request, Flush(r)
  PROVE  GoalInv'
  <1> DEFINE new == [req[r] EXCEPT !.pc = "flushed", !.value = recompute_goal(Left(r))]
  <1>0. GoalShape /\ AloneIsCurrent
    BY DEF GoalInv
  <1>1. /\ req[r].pc = "read" /\ UNCHANGED <<objective, goal>>
        /\ req' = [req EXCEPT ![r] = new]
    BY DEF Flush, Left
  <1>2. Running(r) /\ RunningRequest(req[r])
    BY <1>0, <1>1, RequestKinds DEF Running
  <1>3. /\ RunningRequest(new) /\ new.pc = "flushed" /\ new.alone = req[r].alone
        /\ new.loaded = req[r].loaded /\ new.value = recompute_goal(Left(r))
        /\ new.objective = req[r].objective /\ new.row = req[r].row /\ new.columns = req[r].columns
    BY <1>2 DEF RunningRequest
  <1>4. req' = [o \in Request |-> IF o = r THEN new ELSE req[o]]
    BY <1>0, <1>1 DEF GoalShape
  <1> HIDE DEF new
  <1>5. GoalShape'
    <2>1. \A o \in Request : req'[o] \in {Waiting, Finished} \/ RunningRequest(req'[o])
      BY <1>0, <1>3, <1>4 DEF GoalShape
    <2>2. /\ objective' = [j \in Objective |-> objective'[j]]
          /\ goal' = [progress |-> goal'.progress, archived |-> goal'.archived]
          /\ req' = [o \in Request |-> req'[o]]
      BY <1>0, <1>1, <1>4 DEF GoalShape
    <2>3. Waiting' = Waiting /\ Finished' = Finished
      BY DEF Waiting, Finished
    <2>4. QED
      BY <2>1, <2>2, <2>3 DEF GoalShape, RunningRequest
  <1>6. \A o \in Request : Running(o)' <=> Running(o)
    BY <1>2, <1>3, <1>4 DEF Running
  <1>7. Left(r)' = Left(r)
    BY <1>1, <1>3, <1>4, LeftSame
  <1>8. AloneIsCurrent'
    <2> SUFFICES ASSUME NEW o \in Request, Running(o)', req'[o].alone
                 PROVE  /\ \A x \in Request \ {o} : ~ Running(x)'
                        /\ req'[o].loaded = goal'.progress
                        /\ req'[o].pc = "flushed" => req'[o].value = recompute_goal(Left(o)')
      BY DEF AloneIsCurrent, recompute_goal, ActiveOf, Exists
    <2>1. CASE o # r
      BY <1>0, <1>2, <1>4, <1>6, <2>1 DEF AloneIsCurrent
    <2>2. CASE o = r
      BY <1>0, <1>1, <1>2, <1>3, <1>4, <1>6, <1>7, <2>2 DEF AloneIsCurrent
    <2>3. QED
      BY <2>1, <2>2
  <1>9. QED
    BY <1>5, <1>8 DEF GoalInv

(* A request that ends, committed or not, was the only one or not alone.      *)
LEMMA EndStep ==
  ASSUME GoalInv, NEW r \in Request, Commit(r) \/ Fail(r)
  PROVE  GoalInv'
  <1>0. GoalShape /\ AloneIsCurrent
    BY DEF GoalInv
  <1>1. Running(r) /\ RunningRequest(req[r])
    BY <1>0, RequestKinds DEF Commit, Fail, Running
  <1>2. req' = [o \in Request |-> IF o = r THEN Finished ELSE req[o]]
    BY <1>0 DEF Commit, Fail, GoalShape
  <1>3. objective' = objective \/ objective' = [objective EXCEPT ![req[r].objective] = Written(r)]
    BY DEF Commit, Fail
  <1>4. goal' = goal \/ goal' = [goal EXCEPT !.progress = req[r].value]
    BY DEF Commit, Fail
  <1>5. GoalShape'
    <2>1. \A o \in Request : req'[o] \in {Waiting, Finished} \/ RunningRequest(req'[o])
      BY <1>0, <1>2 DEF GoalShape
    <2>2. objective' = [j \in Objective |-> objective'[j]]
      BY <1>0, <1>3 DEF GoalShape
    <2>3. goal' = [progress |-> goal'.progress, archived |-> goal'.archived]
      BY <1>0, <1>4 DEF GoalShape
    <2>4. Waiting' = Waiting /\ Finished' = Finished
      BY DEF Waiting, Finished
    <2>5. QED
      BY <1>2, <2>1, <2>2, <2>3, <2>4 DEF GoalShape, RunningRequest
  <1>6. Finished.pc = "finished"
    BY DEF Finished
  <1>7. \A o \in Request : Running(o)' => o # r /\ Running(o) /\ req'[o] = req[o]
    BY <1>2, <1>6 DEF Running
  <1>8. AloneIsCurrent'
    BY <1>0, <1>1, <1>7 DEF AloneIsCurrent
  <1>9. QED
    BY <1>5, <1>8 DEF GoalInv

(* Archiving the goal leaves its progress and the requests alone.             *)
LEMMA ArchiveStep ==
  ASSUME GoalInv, archive
  PROVE  GoalInv'
  <1>0. GoalShape /\ AloneIsCurrent
    BY DEF GoalInv
  <1>1. /\ UNCHANGED <<objective, req>> /\ goal'.progress = goal.progress
        /\ goal' = [progress |-> goal'.progress, archived |-> goal'.archived]
    BY <1>0 DEF archive, GoalShape
  <1>2. GoalShape'
    BY <1>0, <1>1 DEF GoalShape, RunningRequest, Waiting, Finished
  <1>3. \A r \in Request : Left(r)' = Left(r) /\ (Running(r)' <=> Running(r))
    BY <1>1, LeftSame DEF Running
  <1>4. AloneIsCurrent'
    BY <1>0, <1>1, <1>3 DEF AloneIsCurrent, recompute_goal, ActiveOf, Exists
  <1>5. QED
    BY <1>2, <1>4 DEF GoalInv

(* The invariant of the goal is inductive.                                    *)
LEMMA GoalStep ==
  ASSUME GoalInv, [Next]_vars
  PROVE  GoalInv'
  <1>1. CASE NextObjectives
    BY <1>1, RequestStep, FlushStep, EndStep, ArchiveStep DEF NextObjectives
  <1>2. CASE UNCHANGED objectiveVars
    <2>1. UNCHANGED <<objective, goal, req>>
      BY <1>2 DEF objectiveVars
    <2>2. \A r \in Request : Left(r)' = Left(r) /\ (Running(r)' <=> Running(r))
      BY <2>1, LeftSame DEF Running
    <2>3. QED
      BY <2>1, <2>2 DEF GoalInv, GoalShape, RunningRequest, Waiting, Finished, AloneIsCurrent,
                        recompute_goal, ActiveOf, Exists
  <1>3. QED
    BY <1>1, <1>2 DEF Next, vars, objectiveVars

(* The steps of a goal are the only ones that change it.                      *)
LEMMA GoalInvariantHolds == Spec => []GoalInv
  <1>1. Init => GoalInv
    <2> SUFFICES ASSUME InitObjectives PROVE GoalInv
      BY DEF Init
    <2>1. \A r \in Request : req[r] = Waiting /\ ~ Running(r)
      BY DEF InitObjectives, Waiting, Running
    <2>2. QED
      BY <2>1 DEF InitObjectives, GoalInv, GoalShape, AloneIsCurrent
  <1>2. GoalInv /\ [Next]_vars => GoalInv'
    BY GoalStep
  <1>3. QED
    BY <1>1, <1>2, PTL DEF Spec

(* A request that no other overlapped leaves the goal's progress right, the   *)
(* weighted mean of its active objectives: recompute_goal() sees every row    *)
(* that it and earlier requests have committed, whatever races came before.   *)
THEOREM LoneUpdateRepairs == Spec => UpdateRepairs
  <1> DEFINE Repaired ==
               \A r \in Request : Commit(r) /\ req[r].alone =>
                 LET active == {i \in Objective : /\ objective'[i] # NoRow /\ ~ objective'[i].deleted
                                                  /\ objective'[i].status = "active"}
                 IN  goal'.progress = goal_progress(objective', active)
  <1>1. GoalInv /\ [Next]_vars => [Repaired]_objectiveVars
    <2> SUFFICES ASSUME GoalInv, NEW r \in Request, Commit(r), req[r].alone
                 PROVE  LET active == {i \in Objective : /\ objective'[i] # NoRow /\ ~ objective'[i].deleted
                                                         /\ objective'[i].status = "active"}
                        IN  goal'.progress = goal_progress(objective', active)
      OBVIOUS
    <2>0. GoalShape /\ AloneIsCurrent
      BY DEF GoalInv
    <2>1. Running(r) /\ req[r].pc = "flushed" /\ RunningRequest(req[r])
      BY <2>0, RequestKinds DEF Commit, Running
    <2>2. req[r].loaded = goal.progress /\ req[r].value = recompute_goal(Left(r))
      BY <2>0, <2>1 DEF AloneIsCurrent
    <2>3. objective' = Left(r)
      BY DEF Commit, Left
    <2>4. goal'.progress = req[r].value
      BY <2>0, <2>2 DEF Commit, GoalShape
    <2>5. DOMAIN objective' = Objective
      BY <2>0, <2>3 DEF GoalShape, Left
    <2>6. ActiveOf(objective') = {i \in Objective : /\ objective'[i] # NoRow /\ ~ objective'[i].deleted
                                                    /\ objective'[i].status = "active"}
      BY <2>5 DEF ActiveOf, Exists
    <2>7. QED
      BY <2>2, <2>3, <2>4, <2>6 DEF recompute_goal
  <1>2. QED
    BY <1>1, GoalInvariantHolds, PTL DEF Spec, UpdateRepairs

-----------------------------------------------------------------------------
(* The pages of a listing *)

RowRecord == [id : Row, key : Key]

(* The rows that come before r, and how many they are.                        *)
Below(S, descending, r) == {q \in S : Precedes(descending, q, r)}
Rank(S, descending, r) == Cardinality(Below(S, descending, r))

(* Rows are totally ordered by key and id, and the condition of the next page *)
(* is that order.                                                             *)
LEMMA TotalOrder ==
  ASSUME NEW descending \in BOOLEAN, NEW a \in RowRecord, NEW b \in RowRecord
  PROVE  /\ ~ Precedes(descending, a, a)
         /\ a # b => Precedes(descending, a, b) \/ Precedes(descending, b, a)
         /\ After(descending, a, b) <=> Precedes(descending, a, b)
         /\ \A c \in RowRecord :
              Precedes(descending, a, b) /\ Precedes(descending, b, c) => Precedes(descending, a, c)
  <1>1. \A x \in RowRecord : x.id \in Int /\ x.key \in Int
    <2>1. Row \subseteq Int /\ Key \subseteq Int
      BY ReportAssumption
    <2>2. QED
      BY <2>1 DEF RowRecord
  <1>2. a # b => a.id # b.id \/ a.key # b.key
    BY DEF RowRecord
  <1>3. a # b => Precedes(descending, a, b) \/ Precedes(descending, b, a)
    BY <1>1, <1>2 DEF Precedes
  <1>4. \A c \in RowRecord :
          Precedes(descending, a, b) /\ Precedes(descending, b, c) => Precedes(descending, a, c)
    BY <1>1 DEF Precedes
  <1>5. QED
    BY <1>1, <1>3, <1>4 DEF Precedes, After

(* A row that precedes another has fewer rows before it.                      *)
LEMMA RankRises ==
  ASSUME NEW S \in SUBSET RowRecord, IsFiniteSet(S), NEW descending \in BOOLEAN,
         NEW a \in S, NEW b \in S, Precedes(descending, a, b)
  PROVE  Rank(S, descending, a) < Rank(S, descending, b)
  <1> DEFINE A == Below(S, descending, a)
             B == Below(S, descending, b)
  <1>1. A \in SUBSET B /\ a \in B /\ a \notin A
    BY TotalOrder DEF Below
  <1>2. B \in SUBSET S /\ A \in SUBSET S
    BY DEF Below
  <1>3. IsFiniteSet(B) /\ IsFiniteSet(A)
    BY <1>2, FS_Subset
  <1> HIDE DEF A, B
  <1>4. Cardinality(A) <= Cardinality(B) /\ (Cardinality(B) = Cardinality(A) => B = A)
    BY <1>1, <1>3, FS_Subset
  <1>5. Cardinality(A) \in Nat /\ Cardinality(B) \in Nat
    BY <1>3, FS_CardinalityType
  <1>6. Cardinality(A) < Cardinality(B)
    BY <1>1, <1>4, <1>5
  <1>7. QED
    BY <1>6 DEF Rank, A, B

(* The places 0 to n - 1 are n.                                               *)
LEMMA Places ==
  ASSUME NEW n \in Nat
  PROVE  IsFiniteSet(0..(n - 1)) /\ Cardinality(0..(n - 1)) = n
  <1>1. 0 \in Int /\ n - 1 \in Int
    OBVIOUS
  <1>2. IsFiniteSet(0..(n - 1)) /\ Cardinality(0..(n - 1)) = IF 0 > n - 1 THEN 0 ELSE (n - 1) - 0 + 1
    BY <1>1, FS_Interval
  <1>3. QED
    BY <1>2

(* Every place of the order is taken by exactly one row.                      *)
LEMMA RankOnto ==
  ASSUME NEW S \in SUBSET RowRecord, IsFiniteSet(S), NEW descending \in BOOLEAN
  PROVE  /\ Cardinality(S) \in Nat
         /\ \A r \in S : Rank(S, descending, r) \in 0..(Cardinality(S) - 1)
         /\ \A k \in 1..Cardinality(S) : \E r \in S : Rank(S, descending, r) = k - 1
  <1> DEFINE n == Cardinality(S)
             f == [r \in S |-> Rank(S, descending, r)]
  <1>1. n \in Nat
    BY FS_CardinalityType
  <1>2. ASSUME NEW r \in S PROVE Rank(S, descending, r) \in 0..(n - 1)
    <2> DEFINE B == Below(S, descending, r)
    <2>1. B \in SUBSET S /\ r \notin B
      BY TotalOrder DEF Below
    <2>2. IsFiniteSet(B) /\ Cardinality(B) <= n /\ (n = Cardinality(B) => S = B)
      BY <2>1, FS_Subset
    <2>3. Cardinality(B) \in Nat
      BY <2>2, FS_CardinalityType
    <2>4. Cardinality(B) # n
      BY <2>1, <2>2
    <2> HIDE DEF B
    <2>5. Cardinality(B) \in 0..(n - 1)
      BY <1>1, <2>2, <2>3, <2>4
    <2>6. QED
      BY <2>5 DEF B, Rank
  <1>3. \A a, b \in S : f[a] = f[b] => a = b
    <2> SUFFICES ASSUME NEW a \in S, NEW b \in S, f[a] = f[b], a # b PROVE FALSE
      OBVIOUS
    <2>1. Rank(S, descending, a) < Rank(S, descending, b) \/ Rank(S, descending, b) < Rank(S, descending, a)
      BY TotalOrder, RankRises
    <2>2. QED
      BY <1>1, <1>2, <2>1
  <1>4. f \in Injection(S, 0..(n - 1))
    <2>1. f \in [S -> 0..(n - 1)] /\ DOMAIN f = S
      BY <1>2
    <2> HIDE DEF f
    <2>2. QED
      BY <1>3, <2>1 DEF Injection, IsInjective
  <1>5. IsFiniteSet(0..(n - 1)) /\ Cardinality(0..(n - 1)) = n
    BY <1>1, Places
  <1>6. f \in Surjection(S, 0..(n - 1))
    BY <1>4, <1>5, FS_Injection
  <1>7. \A t \in 0..(n - 1) : \E r \in S : f[r] = t
    BY <1>6 DEF Surjection
  <1>8. \A k \in 1..n : k - 1 \in 0..(n - 1)
    BY <1>1
  <1>9. QED
    BY <1>1, <1>2, <1>7, <1>8

(* The rows a page may take.                                                  *)
Rest(rows, cursor, descending) == {r \in rows : cursor = NoCursor \/ After(descending, cursor, r)}

(* How many rows the query returns.                                           *)
Fetched(S, limit) == IF Cardinality(S) <= limit THEN Cardinality(S) ELSE limit + 1

(* Q lists the first rows of S, each at its place.                            *)
InPlace(S, limit, descending, Q) ==
    /\ S \in SUBSET RowRecord /\ IsFiniteSet(S) /\ Cardinality(S) \in Nat
    /\ Fetched(S, limit) \in 0..Cardinality(S)
    /\ Q \in [1..Fetched(S, limit) -> S]
    /\ \A k \in 1..Fetched(S, limit) : Rank(S, descending, Q[k]) = k - 1

(* The query returns the first rows after the cursor.                         *)
LEMMA QueryOrder ==
  ASSUME NEW rows \in SUBSET RowRecord, IsFiniteSet(rows), NEW cursor,
         NEW limit \in Nat \ {0}, NEW descending \in BOOLEAN
  PROVE  InPlace(Rest(rows, cursor, descending), limit, descending,
                 keyset_sorted(rows, cursor, limit, descending))
  <1> DEFINE S == Rest(rows, cursor, descending)
             Q == keyset_sorted(rows, cursor, limit, descending)
             n == Cardinality(S)
             m == Fetched(S, limit)
  <1>1. S \in SUBSET rows /\ S \in SUBSET RowRecord
    BY DEF Rest
  <1>2. IsFiniteSet(S)
    BY <1>1, FS_Subset
  <1>3. n \in Nat
    BY <1>1, <1>2, RankOnto
  <1>4. m \in 0..n
    BY <1>3 DEF Fetched
  <1>5. Q = [k \in 1..m |-> CHOOSE r \in S : Rank(S, descending, r) = k - 1]
    BY DEF keyset_sorted, Rest, Rank, Below, Fetched
  <1> HIDE DEF n, m, S, Q
  <1>6. ASSUME NEW k \in 1..m
        PROVE  Q[k] \in S /\ Rank(S, descending, Q[k]) = k - 1
    <2>1. k \in 1..n
      BY <1>3, <1>4
    <2>2. \E r \in S : Rank(S, descending, r) = k - 1
      BY <1>1, <1>2, <2>1, RankOnto DEF n
    <2>3. Q[k] = CHOOSE r \in S : Rank(S, descending, r) = k - 1
      BY <1>5
    <2>4. QED
      BY <2>2, <2>3
  <1>7. Q \in [1..m -> S]
    BY <1>5, <1>6
  <1>8. QED
    BY <1>1, <1>2, <1>3, <1>4, <1>6, <1>7 DEF n, m, S, Q, InPlace

(* Rows at rising places are in order.                                        *)
LEMMA RankOrders ==
  ASSUME NEW S \in SUBSET RowRecord, IsFiniteSet(S), NEW descending \in BOOLEAN,
         NEW a \in S, NEW b \in S, Rank(S, descending, a) < Rank(S, descending, b)
  PROVE  Precedes(descending, a, b)
  <1>1. Rank(S, descending, a) \in Int /\ Rank(S, descending, b) \in Int
    BY RankOnto
  <1>2. a # b
    BY <1>1
  <1>3. ~ Precedes(descending, b, a)
    BY <1>1, RankRises
  <1>4. QED
    BY <1>2, <1>3, TotalOrder

(* Equal places, equal rows.                                                  *)
LEMMA RankUnique ==
  ASSUME NEW S \in SUBSET RowRecord, IsFiniteSet(S), NEW descending \in BOOLEAN,
         NEW a \in S, NEW b \in S, Rank(S, descending, a) = Rank(S, descending, b)
  PROVE  a = b
  <1>1. Rank(S, descending, a) \in Int
    BY RankOnto
  <1>2. ~ Precedes(descending, a, b) /\ ~ Precedes(descending, b, a)
    BY <1>1, RankRises
  <1>3. QED
    BY <1>2, TotalOrder

(* A page of S: its items are the first rows in order; a last page holds all  *)
(* of S, another ends with the row of its cursor, and leaves only rows after  *)
(* that one.                                                                  *)
PageOf(S, descending, page) ==
    /\ page.items \in Seq(S)
    /\ \A i \in 2..Len(page.items) : Precedes(descending, page.items[i - 1], page.items[i])
    /\ page.next = NoCursor \/ page.next \in S
    /\ page.next = NoCursor => \A x \in S : \E i \in 1..Len(page.items) : page.items[i] = x
    /\ page.next # NoCursor =>
         /\ Len(page.items) > 0 /\ page.next = page.items[Len(page.items)]
         /\ \A x \in S : \/ \E i \in 1..Len(page.items) : page.items[i] = x
                         \/ After(descending, page.next, x)

(* The pages are of the rows after the cursor.                                *)
LEMMA PageFetched ==
  ASSUME NEW rows \in SUBSET RowRecord, IsFiniteSet(rows), NEW cursor,
         NEW limit \in Nat \ {0}, NEW descending \in BOOLEAN
  PROVE  PageOf(Rest(rows, cursor, descending), descending,
                to_sorted_page(keyset_sorted(rows, cursor, limit, descending), limit))
  <1> DEFINE S == Rest(rows, cursor, descending)
             page == to_sorted_page(keyset_sorted(rows, cursor, limit, descending), limit)
  <1> SUFFICES PageOf(S, descending, page)
    OBVIOUS
  <1> DEFINE n == Cardinality(S)
             m == IF n <= limit THEN n ELSE limit + 1
             Q == keyset_sorted(rows, cursor, limit, descending)
             w == IF n <= limit THEN n ELSE limit
  <1>1. /\ S \in SUBSET RowRecord /\ IsFiniteSet(S) /\ n \in Nat /\ m \in 0..n
        /\ Q \in [1..m -> S]
        /\ \A k \in 1..m : Rank(S, descending, Q[k]) = k - 1
    <2>1. m = Fetched(S, limit)
      BY DEF Fetched
    <2>2. S \in SUBSET RowRecord /\ IsFiniteSet(S) /\ Cardinality(S) \in Nat
          /\ Fetched(S, limit) \in 0..Cardinality(S)
          /\ Q \in [1..Fetched(S, limit) -> S]
          /\ \A k \in 1..Fetched(S, limit) : Rank(S, descending, Q[k]) = k - 1
      <3>1. Q = keyset_sorted(rows, cursor, limit, descending)
        OBVIOUS
      <3> HIDE DEF Q
      <3>2. InPlace(S, limit, descending, Q)
        BY <3>1, QueryOrder
      <3>3. QED
        BY <3>2 DEF InPlace
    <2> HIDE DEF m, Q
    <2>3. QED
      BY <2>1, <2>2
  <1>2. page = to_sorted_page(Q, limit)
    OBVIOUS
  <1> HIDE DEF n, Q, S, page
  <1>3. Q \in Seq(S) /\ Len(Q) = m
    BY <1>1
  <1>4. /\ page.items \in Seq(S) /\ Len(page.items) = w
        /\ \A i \in 1..w : page.items[i] = Q[i]
    <2>1. CASE n <= limit
      <3>1. m = n /\ w = n
        BY <2>1
      <3>2. page.items = Q
        BY <1>2, <1>3, <2>1, <3>1 DEF to_sorted_page
      <3>3. QED
        BY <1>3, <3>1, <3>2
    <2>2. CASE ~ (n <= limit)
      <3>1. m = limit + 1 /\ w = limit
        BY <2>2
      <3>2. page.items = SubSeq(Q, 1, limit)
        BY <1>2, <1>3, <3>1 DEF to_sorted_page
      <3>3. \A i \in 1..limit : i \in 1..Len(Q)
        BY <1>3, <3>1
      <3>4. SubSeq(Q, 1, limit) = [i \in 1..limit |-> Q[i]]
        BY <1>3, <3>1
      <3>5. \A i \in 1..limit : Q[i] \in S
        BY <1>1, <1>3, <3>3
      <3>6. QED
        BY <3>1, <3>2, <3>4, <3>5
    <2>3. QED
      BY <2>1, <2>2
  <1>5. w \in 0..m /\ w \in Nat
    BY <1>1
  <1>6. ASSUME NEW i \in 2..Len(page.items)
        PROVE  Precedes(descending, page.items[i - 1], page.items[i])
    <2>1. i \in 1..m /\ i - 1 \in 1..m /\ i \in 1..w /\ i - 1 \in 1..w
      BY <1>1, <1>4, <1>5
    <2>2. Q[i] \in S /\ Q[i - 1] \in S
      BY <1>1, <2>1
    <2>3. Rank(S, descending, Q[i]) = i - 1 /\ Rank(S, descending, Q[i - 1]) = (i - 1) - 1
      BY <1>1, <2>1
    <2>4. Rank(S, descending, Q[i - 1]) < Rank(S, descending, Q[i])
      BY <2>1, <2>3
    <2>5. Precedes(descending, Q[i - 1], Q[i])
      BY <1>1, <2>2, <2>4, RankOrders
    <2>6. QED
      BY <1>4, <2>1, <2>5
  <1>7. \A x \in S : Rank(S, descending, x) \in 0..(n - 1)
    BY <1>1, RankOnto DEF n
  <1>8. ASSUME NEW x \in S, Rank(S, descending, x) < w
        PROVE  \E i \in 1..Len(page.items) : page.items[i] = x
    <2> DEFINE k == Rank(S, descending, x) + 1
    <2>1. k \in 1..w /\ k \in 1..m /\ k - 1 = Rank(S, descending, x)
      BY <1>1, <1>5, <1>7, <1>8
    <2> HIDE DEF k
    <2>2. Q[k] \in S /\ Rank(S, descending, Q[k]) = Rank(S, descending, x)
      BY <1>1, <2>1
    <2>3. Q[k] = x
      BY <1>1, <2>2, RankUnique
    <2>4. QED
      BY <1>4, <2>1, <2>3
  <1>9. CASE n <= limit
    <2>1. page.next = NoCursor
      BY <1>2, <1>3, <1>9 DEF to_sorted_page
    <2>2. \A x \in S : Rank(S, descending, x) < w
      BY <1>1, <1>7, <1>9
    <2>3. QED
      BY <1>4, <1>6, <1>8, <2>1, <2>2 DEF PageOf
  <1>10. CASE ~ (n <= limit)
    <2>1. m = limit + 1 /\ w = limit /\ limit \in 1..m /\ limit \in 1..w
      BY <1>1, <1>10
    <2>2. page.next = Q[limit] /\ Q[limit] \in S /\ Rank(S, descending, Q[limit]) = limit - 1
      BY <1>1, <1>2, <1>3, <2>1 DEF to_sorted_page
    <2>3. page.next # NoCursor
      <3>1. Q[limit] \in RowRecord
        BY <1>1, <2>2
      <3>2. 0 \notin Row
        BY ReportAssumption
      <3>3. QED
        BY <2>2, <3>1, <3>2 DEF RowRecord, NoCursor
    <2>4. page.next = page.items[Len(page.items)]
      BY <1>4, <2>1, <2>2
    <2>5. ASSUME NEW x \in S, ~ (Rank(S, descending, x) < w)
          PROVE  After(descending, page.next, x)
      <3>1. Rank(S, descending, Q[limit]) < Rank(S, descending, x)
        BY <1>7, <2>1, <2>2, <2>5
      <3>2. Precedes(descending, Q[limit], x)
        BY <1>1, <2>2, <3>1, RankOrders
      <3>3. Q[limit] \in RowRecord /\ x \in RowRecord
        BY <1>1, <2>2
      <3>4. QED
        BY <2>2, <3>2, <3>3, TotalOrder
    <2>6. QED
      BY <1>4, <1>6, <1>8, <2>1, <2>2, <2>3, <2>4, <2>5 DEF PageOf
  <1>11. QED
    BY <1>9, <1>10

ListingType ==
    listing \in [keys : [Row -> Key \cup {NotThere}], limit : Limits, descending : BOOLEAN,
                 steady : SUBSET Row, cursor : RowRecord \cup {NoCursor}, seen : Seq(RowRecord),
                 done : BOOLEAN, edits : Nat]

(* The rows returned are in order.                                            *)
SeenInOrder ==
    \A i \in 2..Len(listing.seen) :
        Precedes(listing.descending, listing.seen[i - 1], listing.seen[i])

(* The cursor of an unfinished walk is the last row returned, if any was.     *)
CursorIsLast ==
    ~ listing.done =>
        IF listing.seen = <<>> THEN listing.cursor = NoCursor
        ELSE listing.cursor = listing.seen[Len(listing.seen)]

RowOf(r) == [id |-> r, key |-> listing.keys[r]]
Returned(x) == \E i \in 1..Len(listing.seen) : listing.seen[i] = x

(* A row nobody touched has been returned or is still to come.                *)
SteadyCovered ==
    \A r \in listing.steady :
        /\ listing.keys[r] # NotThere
        /\ \/ Returned(RowOf(r))
           \/ /\ ~ listing.done
              /\ listing.cursor = NoCursor \/ After(listing.descending, listing.cursor, RowOf(r))

(* The inductive invariant of a listing.                                      *)
ListingInv == ListingType /\ SeenInOrder /\ CursorIsLast /\ SteadyCovered

(* The rows of the table.                                                     *)
LEMMA RowsKnown ==
  ASSUME ListingType
  PROVE  /\ Rows \in SUBSET RowRecord /\ IsFiniteSet(Rows)
         /\ \A r \in Row : listing.keys[r] # NotThere => RowOf(r) \in Rows /\ RowOf(r) \in RowRecord
  <1> DEFINE there == {r \in Row : listing.keys[r] # NotThere}
             f == [r \in there |-> RowOf(r)]
  <1>1. \A r \in there : listing.keys[r] \in Key /\ RowOf(r) \in RowRecord
    BY DEF ListingType, RowRecord, RowOf
  <1>2. Rows = {RowOf(r) : r \in there}
    BY DEF Rows, RowOf
  <1>3. IsFiniteSet(Row)
    BY ReportAssumption
  <1>4. there \in SUBSET Row
    OBVIOUS
  <1>5. IsFiniteSet(there)
    BY <1>3, <1>4, FS_Subset
  <1>6. f \in Surjection(there, Rows)
    BY <1>2 DEF Surjection
  <1> HIDE DEF f
  <1>7. IsFiniteSet(Rows)
    BY <1>5, <1>6, FS_Surjection
  <1>8. QED
    BY <1>1, <1>2, <1>7

(* The elements of a concatenation.                                           *)
LEMMA Concatenated ==
  ASSUME NEW T, NEW s \in Seq(T), NEW t \in Seq(T)
  PROVE  /\ Len(s \o t) = Len(s) + Len(t) /\ Len(s) \in Nat /\ Len(t) \in Nat
         /\ \A i \in 1..Len(s) : (s \o t)[i] = s[i]
         /\ \A i \in 1..Len(t) : (s \o t)[Len(s) + i] = t[i]
         /\ \A i \in (Len(s) + 1)..(Len(s) + Len(t)) : (s \o t)[i] = t[i - Len(s)]
  OBVIOUS

(* Fetching a page appends rows after the cursor, in order, and none that was *)
(* there is passed over.                                                      *)
LEMMA FetchStep ==
  ASSUME ListingInv, FetchPage
  PROVE  ListingInv'
  <1> DEFINE d == listing.descending
             S == Rest(Rows, listing.cursor, d)
             page == to_sorted_page(keyset_sorted(Rows, listing.cursor, listing.limit, d), listing.limit)
             old == listing.seen
             items == page.items
             last == Len(old)
  <1>0. ListingType /\ SeenInOrder /\ CursorIsLast /\ SteadyCovered
    BY DEF ListingInv
  <1>1. /\ d \in BOOLEAN /\ listing.limit \in Nat \ {0} /\ old \in Seq(RowRecord)
        /\ listing.keys \in [Row -> Key \cup {NotThere}] /\ listing.steady \in SUBSET Row
    <2>1. Limits \subseteq Nat \ {0}
      BY ReportAssumption
    <2>2. QED
      BY <1>0, <2>1 DEF ListingType
  <1>2. Rows \in SUBSET RowRecord /\ IsFiniteSet(Rows)
    BY <1>0, RowsKnown
  <1>3. /\ ~ listing.done
        /\ listing' = [listing EXCEPT !.seen = old \o items, !.cursor = page.next,
                                      !.done = page.next = NoCursor]
    BY DEF FetchPage
  <1>4. /\ items \in Seq(S)
        /\ \A i \in 2..Len(items) : Precedes(d, items[i - 1], items[i])
        /\ page.next = NoCursor \/ page.next \in S
        /\ page.next = NoCursor => \A x \in S : \E i \in 1..Len(items) : items[i] = x
        /\ page.next # NoCursor =>
             /\ Len(items) > 0 /\ page.next = items[Len(items)]
             /\ \A x \in S : \/ \E i \in 1..Len(items) : items[i] = x
                             \/ After(d, page.next, x)
    <2>1. PageOf(S, d, page)
      BY <1>1, <1>2, PageFetched
    <2>2. QED
      BY <2>1 DEF PageOf
  <1>5. S \in SUBSET RowRecord
    BY <1>2 DEF Rest
  <1> HIDE DEF S, items
  <1>6. items \in Seq(RowRecord) /\ \A i \in 1..Len(items) : items[i] \in S /\ items[i] \in RowRecord
    BY <1>4, <1>5
  <1>7. /\ listing'.keys = listing.keys /\ listing'.descending = d /\ listing'.steady = listing.steady
        /\ listing'.seen = old \o items /\ listing'.cursor = page.next
        /\ listing'.done = (page.next = NoCursor)
        /\ ListingType'
    <2>1. old \o items \in Seq(RowRecord)
      BY <1>1, <1>6
    <2>2. page.next \in RowRecord \cup {NoCursor}
      BY <1>4, <1>5
    <2>3. NoCursor' = NoCursor /\ RowRecord' = RowRecord
      BY DEF NoCursor, RowRecord
    <2>4. QED
      BY <1>0, <1>3, <2>1, <2>2, <2>3 DEF ListingType
  <1>8. /\ Len(old \o items) = last + Len(items) /\ last \in Nat /\ Len(items) \in Nat
        /\ \A i \in 1..last : (old \o items)[i] = old[i]
        /\ \A i \in 1..Len(items) : (old \o items)[last + i] = items[i]
        /\ \A i \in (last + 1)..(last + Len(items)) : (old \o items)[i] = items[i - last]
    BY <1>1, <1>6, Concatenated
  <1>9. SeenInOrder'
    <2> SUFFICES ASSUME NEW i \in 2..(last + Len(items))
                 PROVE  Precedes(d, (old \o items)[i - 1], (old \o items)[i])
      BY <1>7, <1>8 DEF SeenInOrder
    <2>1. CASE i <= last
      <3>1. i \in 2..Len(old) /\ i \in 1..last /\ i - 1 \in 1..last
        BY <1>8, <2>1
      <3>2. QED
        BY <1>0, <1>8, <3>1 DEF SeenInOrder
    <2>2. CASE i > last + 1
      <3>1. /\ i - last \in 2..Len(items) /\ i \in (last + 1)..(last + Len(items))
            /\ i - 1 \in (last + 1)..(last + Len(items)) /\ (i - 1) - last = (i - last) - 1
        BY <1>8, <2>2
      <3>2. (old \o items)[i] = items[i - last] /\ (old \o items)[i - 1] = items[(i - last) - 1]
        BY <1>8, <3>1
      <3>3. QED
        BY <1>4, <3>1, <3>2
    <2>3. CASE i = last + 1
      <3>1. last \in 1..last /\ 1 \in 1..Len(items) /\ old # <<>> /\ i - 1 = last
        BY <1>1, <1>8, <2>3
      <3>2. (old \o items)[i] = items[1] /\ (old \o items)[i - 1] = old[last]
        BY <1>8, <2>3, <3>1
      <3>3. listing.cursor = old[last] /\ old[last] \in RowRecord
        BY <1>0, <1>1, <1>3, <3>1 DEF CursorIsLast
      <3>4. listing.cursor # NoCursor
        <4>1. 0 \notin Row
          BY ReportAssumption
        <4>2. QED
          BY <3>3, <4>1 DEF RowRecord, NoCursor
      <3>5. items[1] \in S /\ items[1] \in RowRecord
        BY <1>6, <3>1
      <3>6. After(d, listing.cursor, items[1])
        BY <3>4, <3>5 DEF S, Rest
      <3>7. QED
        BY <1>1, <3>2, <3>3, <3>5, <3>6, TotalOrder
    <2>4. i <= last \/ i > last + 1 \/ i = last + 1
      <3>1. last \in Int /\ i \in Int
        BY <1>8
      <3> HIDE DEF last
      <3>2. QED
        BY <3>1
    <2>5. QED
      BY <2>1, <2>2, <2>3, <2>4
  <1>10. CursorIsLast'
    <2> SUFFICES ASSUME page.next # NoCursor
                 PROVE  old \o items # <<>> /\ page.next = (old \o items)[Len(old \o items)]
      BY <1>7 DEF CursorIsLast, NoCursor
    <2>1. Len(items) > 0 /\ page.next = items[Len(items)]
      BY <1>4
    <2>2. Len(items) \in 1..Len(items)
      BY <1>8, <2>1
    <2>3. (old \o items)[Len(old \o items)] = items[Len(items)]
      BY <1>8, <2>2
    <2>4. Len(old \o items) # 0
      BY <1>8, <2>1
    <2>5. QED
      BY <2>1, <2>3, <2>4
  <1>11. SteadyCovered'
    <2> SUFFICES ASSUME NEW r \in listing.steady
                 PROVE  /\ listing.keys[r] # NotThere
                        /\ \/ \E i \in 1..Len(old \o items) : (old \o items)[i] = RowOf(r)
                           \/ /\ page.next # NoCursor
                              /\ After(d, page.next, RowOf(r))
      BY <1>7 DEF SteadyCovered, NoCursor, NotThere, Returned, RowOf
    <2>1. listing.keys[r] # NotThere /\ RowOf(r) \in Rows
      BY <1>0, <1>1, RowsKnown DEF SteadyCovered
    <2>2. CASE Returned(RowOf(r))
      <3>1. PICK i \in 1..last : old[i] = RowOf(r)
        BY <2>2 DEF Returned
      <3>2. i \in 1..Len(old \o items) /\ (old \o items)[i] = RowOf(r)
        BY <1>8, <3>1
      <3>3. QED
        BY <2>1, <3>2
    <2>3. CASE RowOf(r) \in S
      <3>1. CASE \E i \in 1..Len(items) : items[i] = RowOf(r)
        <4>1. PICK i \in 1..Len(items) : items[i] = RowOf(r)
          BY <3>1
        <4>2. last + i \in 1..Len(old \o items) /\ (old \o items)[last + i] = RowOf(r)
          BY <1>8, <4>1
        <4>3. QED
          BY <2>1, <4>2
      <3>2. CASE ~ \E i \in 1..Len(items) : items[i] = RowOf(r)
        BY <1>4, <2>1, <2>3, <3>2
      <3>3. QED
        BY <3>1, <3>2
    <2>4. QED
      BY <1>0, <2>1, <2>2, <2>3 DEF SteadyCovered, S, Rest
  <1>12. QED
    BY <1>7, <1>9, <1>10, <1>11 DEF ListingInv

(* An edit takes its row out of the untouched ones and leaves the walk alone. *)
LEMMA EditStep ==
  ASSUME ListingInv, NEW r \in Row, NEW key \in Key \cup {NotThere}, Edit(r, key)
  PROVE  ListingInv'
  <1>0. ListingType /\ SeenInOrder /\ CursorIsLast /\ SteadyCovered
    BY DEF ListingInv
  <1>1. /\ listing'.keys = [listing.keys EXCEPT ![r] = key] /\ listing'.steady = listing.steady \ {r}
        /\ listing'.descending = listing.descending /\ listing'.seen = listing.seen
        /\ listing'.cursor = listing.cursor /\ listing'.done = listing.done
        /\ ListingType'
    <2>1. listing' = [listing EXCEPT !.keys = [listing.keys EXCEPT ![r] = key],
                                     !.edits = listing.edits + 1, !.steady = listing.steady \ {r}]
      BY <1>0 DEF Edit, ListingType
    <2>2. [listing.keys EXCEPT ![r] = key] \in [Row -> Key \cup {NotThere}]
          /\ listing.edits + 1 \in Nat /\ listing.steady \ {r} \in SUBSET Row
      BY <1>0 DEF ListingType
    <2>3. NoCursor' = NoCursor /\ RowRecord' = RowRecord /\ NotThere' = NotThere
      BY DEF NoCursor, RowRecord, NotThere
    <2>4. QED
      BY <1>0, <2>1, <2>2, <2>3 DEF ListingType
  <1>2. listing.keys \in [Row -> Key \cup {NotThere}] /\ listing.steady \in SUBSET Row
    BY <1>0 DEF ListingType
  <1>3. \A x \in listing'.steady : x \in listing.steady /\ listing'.keys[x] = listing.keys[x]
    BY <1>1, <1>2
  <1>4. SeenInOrder' /\ CursorIsLast'
    BY <1>0, <1>1 DEF SeenInOrder, CursorIsLast, NoCursor
  <1>5. SteadyCovered'
    BY <1>0, <1>1, <1>3 DEF SteadyCovered, NoCursor, NotThere, Returned, RowOf
  <1>6. QED
    BY <1>1, <1>4, <1>5 DEF ListingInv

(* The invariant holds of every behaviour about a listing.                    *)
LEMMA ListingInvariantHolds == Spec => [](subject = "listing" => ListingInv)
  <1> DEFINE Inv == subject = "listing" => ListingInv
  <1>1. Init => Inv
    <2> SUFFICES ASSUME InitListing PROVE ListingInv
      BY DEF Init
    <2>1. PICK keys \in [Row -> Key \cup {NotThere}], limit \in Limits, descending \in BOOLEAN :
            listing = [keys |-> keys, limit |-> limit, descending |-> descending,
                       steady |-> {r \in Row : keys[r] # NotThere}, cursor |-> NoCursor,
                       seen |-> <<>>, done |-> FALSE, edits |-> 0]
      BY DEF InitListing
    <2>2. ListingType
      BY <2>1 DEF ListingType
    <2>3. Len(listing.seen) = 0 /\ listing.seen = <<>> /\ listing.cursor = NoCursor /\ ~ listing.done
          /\ \A r \in listing.steady : listing.keys[r] # NotThere
      BY <2>1
    <2>4. QED
      BY <2>2, <2>3 DEF ListingInv, SeenInOrder, CursorIsLast, SteadyCovered
  <1>2. Inv /\ [Next]_vars => Inv'
    <2> SUFFICES ASSUME subject = "listing" => ListingInv, [Next]_vars, subject' = "listing"
                 PROVE  ListingInv'
      OBVIOUS
    <2>1. subject = "listing"
      BY DEF Next, vars
    <2>2. CASE NextListing
      BY <2>1, <2>2, FetchStep, EditStep DEF NextListing
    <2>3. CASE UNCHANGED listing
      BY <2>1, <2>3 DEF ListingInv, ListingType, RowRecord, NoCursor, NotThere, SeenInOrder, CursorIsLast,
                        SteadyCovered, Returned, RowOf
    <2>4. QED
      BY <2>1, <2>2, <2>3 DEF Next, vars
  <1>3. QED
    BY <1>1, <1>2, PTL DEF Spec

(* Keyset pagination returns rows in order, hence none twice but one that     *)
(* moved, and in the end every row that was there all along, whatever rows    *)
(* are inserted, deleted and moved between two pages, for any page size.      *)
THEOREM PagesCover == Spec => []EveryRowOnce
  <1>1. (subject = "listing" => ListingInv) => EveryRowOnce
    <2> SUFFICES ASSUME ListingInv PROVE EveryRowOnce
      BY DEF EveryRowOnce
    <2>0. ListingType /\ SeenInOrder /\ SteadyCovered
      BY DEF ListingInv
    <2>1. listing.seen \in Seq(RowRecord)
      BY <2>0 DEF ListingType
    <2>2. ASSUME NEW i \in 2..Len(listing.seen)
          PROVE  IF listing.descending
                 THEN \/ listing.seen[i - 1].key > listing.seen[i].key
                      \/ /\ listing.seen[i - 1].key = listing.seen[i].key
                         /\ listing.seen[i - 1].id > listing.seen[i].id
                 ELSE \/ listing.seen[i - 1].key < listing.seen[i].key
                      \/ /\ listing.seen[i - 1].key = listing.seen[i].key
                         /\ listing.seen[i - 1].id < listing.seen[i].id
      BY <2>0 DEF SeenInOrder, Precedes
    <2>3. ASSUME listing.done, NEW r \in listing.steady
          PROVE  r \in {x.id : x \in ToSet(listing.seen)}
      <3>1. PICK i \in 1..Len(listing.seen) : listing.seen[i] = RowOf(r)
        BY <2>0, <2>3 DEF SteadyCovered, Returned
      <3>2. DOMAIN listing.seen = 1..Len(listing.seen)
        BY <2>1
      <3>3. RowOf(r) \in ToSet(listing.seen)
        BY <3>1, <3>2 DEF ToSet
      <3>4. RowOf(r).id = r
        BY DEF RowOf
      <3>5. QED
        BY <3>3, <3>4
    <2>4. QED
      BY <2>2, <2>3 DEF EveryRowOnce
  <1>2. QED
    BY <1>1, ListingInvariantHolds, PTL

-----------------------------------------------------------------------------
(* The Completion Rate of a period *)

CheckinRow == [at : Nat, previous : Status \cup {Nothing}, new : Status]
ActionRow == [date : {0, 1}, created : Nat, cancelled : Nat \cup {NotYet}, checkins : Seq(CheckinRow)]

(* Transitions only lead up.                                                  *)
Level(status) == IF status = "Planned" THEN 0 ELSE IF status = "Started" THEN 1 ELSE 2

(* A history of check-ins: each leads on from the one before, up and not back *)
(* in time.                                                                   *)
History(c) ==
    /\ c \in Seq(CheckinRow) /\ Len(c) \in 1..3
    /\ c[1].previous = Nothing
    /\ \A k \in 2..Len(c) : c[k].previous = c[k - 1].new
    /\ \A j, k \in 1..Len(c) : j < k => Level(c[j].new) < Level(c[k].new) /\ c[j].at <= c[k].at

(* The k-th check-in is the last that had been made at the end of instant t.  *)
LatestAt(c, k, t) == c[k].at <= t /\ \A j \in 1..Len(c) : j > k => c[j].at > t

(* The inductive invariant of a period.                                       *)
PeriodType ==
    /\ period = [now |-> period.now, action |-> period.action, was |-> period.was]
    /\ period.now \in 0..MaxTime
    /\ period.action \in [Actions -> ActionRow]
    /\ DOMAIN period.was = Actions
    /\ \A a \in Actions : period.action[a].created <= period.now

Histories ==
    \A a \in Actions :
        /\ History(period.action[a].checkins)
        /\ \A k \in 1..Len(period.action[a].checkins) : period.action[a].checkins[k].at <= period.now

(* What was noted is the status the last check-in so far gave.                *)
NotedRight ==
    \A a \in Actions : \A t \in 0..period.now :
        LET c == period.action[a].checkins
        IN  /\ c[1].at > t => period.was[a][t] = "Planned"
            /\ \A k \in 1..Len(c) : LatestAt(c, k, t) => period.was[a][t] = c[k].new

PeriodInv == PeriodType /\ Histories /\ NotedRight

(* A permutation reaches every place.                                         *)
LEMMA PermOnto ==
  ASSUME NEW n \in Nat, NEW p \in Perms(n)
  PROVE  /\ p \in [1..n -> 1..n]
         /\ \A i, j \in 1..n : p[i] = p[j] => i = j
         /\ \A h \in 1..n : \E i \in 1..n : p[i] = h
  <1>1. p \in [1..n -> 1..n] /\ \A i, j \in 1..n : p[i] = p[j] => i = j
    BY DEF Perms
  <1>2. p \in Injection(1..n, 1..n)
    BY <1>1 DEF Injection, IsInjective
  <1>3. IsFiniteSet(1..n)
    BY FS_Interval
  <1>4. p \in Surjection(1..n, 1..n)
    BY <1>2, <1>3, FS_Injection
  <1>5. QED
    BY <1>1, <1>4 DEF Surjection

(* The largest element of a singleton.                                        *)
LEMMA MaxSingle ==
  ASSUME NEW k \in Int
  PROVE  Max({k}) = k
  BY DEF Max

(* Nothing visible: the action is Planned.                                    *)
LEMMA StatusBefore ==
  ASSUME NEW c, History(c), NEW t \in Nat, c[1].at > t, NEW p \in Perms(Len(c)),
         NEW q, q = [i \in 1..Len(c) |-> c[p[i]]]
  PROVE  status_as_of(q, t) = "Planned"
  <1>1. Len(c) \in Nat /\ c \in Seq(CheckinRow)
    BY DEF History
  <1>2. p \in [1..Len(c) -> 1..Len(c)]
    BY <1>1, PermOnto
  <1>3. \A k \in 1..Len(c) : c[k].at \in Nat
    <2>1. \A k \in 1..Len(c) : c[k] \in CheckinRow
      BY <1>1
    <2>2. QED
      BY <2>1 DEF CheckinRow
  <1>4. \A k \in 1..Len(c) : c[1].at <= c[k].at
    <2> SUFFICES ASSUME NEW k \in 1..Len(c) PROVE c[1].at <= c[k].at
      OBVIOUS
    <2>1. 1 \in 1..Len(c) /\ (k = 1 \/ 1 < k)
      BY <1>1
    <2>2. QED
      BY <1>3, <2>1 DEF History
  <1>5. \A k \in 1..Len(c) : ~ (c[k].at <= t)
    <2> SUFFICES ASSUME NEW k \in 1..Len(c) PROVE ~ (c[k].at <= t)
      OBVIOUS
    <2>1. c[1].at \in Nat /\ c[k].at \in Nat /\ c[1].at <= c[k].at
      <3>1. 1 \in 1..Len(c)
        BY <1>1
      <3>2. QED
        BY <1>3, <1>4, <3>1
    <2>2. QED
      BY <2>1
  <1>6. {k \in DOMAIN q : q[k].at <= t} = {}
    BY <1>2, <1>5
  <1>7. QED
    BY <1>6 DEF status_as_of

(* The transition chain decides between records of one instant: the last      *)
(* check-in made is the only head, in whatever order the records are read.    *)
LEMMA StatusLatest ==
  ASSUME NEW c, History(c), NEW t \in Nat, NEW h \in 1..Len(c), LatestAt(c, h, t),
         NEW p \in Perms(Len(c)), NEW q, q = [i \in 1..Len(c) |-> c[p[i]]]
  PROVE  status_as_of(q, t) = c[h].new
  <1> DEFINE n == Len(c)
             visible == {k \in DOMAIN q : q[k].at <= t}
             tied == {k \in visible : \A j \in visible : q[j].at <= q[k].at}
             heads == Heads(q, tied)
  <1>1. /\ n \in Nat /\ c \in Seq(CheckinRow) /\ DOMAIN q = 1..n
        /\ \A k \in 1..n : c[k] \in CheckinRow
    BY DEF History
  <1>2. /\ p \in [1..n -> 1..n]
        /\ \A i, j \in 1..n : p[i] = p[j] => i = j
        /\ \A x \in 1..n : \E i \in 1..n : p[i] = x
    BY <1>1, PermOnto
  <1>3. \A k \in 1..n : c[k].at \in Nat /\ c[k].new \in Status
    BY <1>1 DEF CheckinRow
  <1>4. \A j, k \in 1..n : j <= k => c[j].at <= c[k].at
    <2> SUFFICES ASSUME NEW j \in 1..n, NEW k \in 1..n, j <= k PROVE c[j].at <= c[k].at
      OBVIOUS
    <2>1. j = k \/ j < k
      OBVIOUS
    <2>2. QED
      BY <1>3, <2>1 DEF History
  <1>5. PICK top \in 1..n : p[top] = h
    BY <1>2
  <1>6. \A k \in 1..n : q[k] = c[p[k]] /\ p[k] \in 1..n
    BY <1>2
  <1> HIDE DEF n
  <1>7. \A k \in 1..n : k \in visible <=> p[k] <= h
    <2> SUFFICES ASSUME NEW k \in 1..n PROVE q[k].at <= t <=> p[k] <= h
      BY <1>1
    <2>1. c[h].at <= t /\ \A j \in 1..n : j > h => c[j].at > t
      BY DEF LatestAt, n
    <2>2. CASE p[k] <= h
      <3>1. h \in 1..n
        BY DEF n
      <3>2. c[p[k]].at <= c[h].at /\ c[p[k]].at \in Nat /\ c[h].at \in Nat
        BY <1>3, <1>4, <1>6, <2>2, <3>1
      <3>3. QED
        BY <1>6, <2>1, <2>2, <3>2
    <2>3. CASE ~ (p[k] <= h)
      <3>1. p[k] > h /\ p[k] \in 1..n
        BY <1>6, <2>3 DEF n
      <3>2. c[p[k]].at > t /\ c[p[k]].at \in Nat
        BY <1>3, <2>1, <3>1
      <3>3. QED
        BY <1>6, <2>3, <3>2
    <2>4. QED
      BY <2>2, <2>3
  <1>8. \A k \in visible : k \in 1..n /\ p[k] \in 1..n /\ p[k] <= h
    BY <1>1, <1>6, <1>7
  <1>9. top \in visible /\ \A j \in visible : q[j].at <= q[top].at
    <2>1. h \in 1..n
      BY DEF n
    <2>2. top \in visible
      BY <1>5, <1>7, <2>1
    <2>3. QED
      BY <1>4, <1>5, <1>6, <1>8, <2>1, <2>2
  <1> HIDE DEF visible
  <1>10. \A k \in tied : k \in visible /\ q[k].at = q[top].at
    <2>1. \A k \in visible : q[k].at \in Nat
      BY <1>3, <1>6, <1>8
    <2> SUFFICES ASSUME NEW k \in tied PROVE k \in visible /\ q[k].at = q[top].at
      OBVIOUS
    <2>2. k \in visible /\ q[top].at <= q[k].at
      BY <1>9
    <2> HIDE DEF tied
    <2>3. q[k].at <= q[top].at /\ q[k].at \in Nat /\ q[top].at \in Nat
      BY <1>9, <2>1, <2>2
    <2>4. QED
      BY <2>2, <2>3
  <1>11. top \in tied
    BY <1>9
  <1>12. ASSUME NEW k \in visible, q[k].at = q[top].at PROVE k \in tied
    BY <1>9, <1>12
  <1> HIDE DEF tied
  <1>13. q[top].new \notin {q[j].previous : j \in tied}
    <2> SUFFICES ASSUME NEW j \in tied PROVE c[p[j]].previous # c[h].new
      BY <1>5, <1>6, <1>8, <1>10
    <2>0. j \in 1..n /\ p[j] \in 1..n /\ p[j] <= h /\ h \in 1..n
      BY <1>8, <1>10 DEF n
    <2>1. CASE p[j] = 1
      <3>1. c[p[j]].previous = Nothing /\ Nothing \notin Status
        BY <2>1 DEF History, Nothing, Status
      <3>2. QED
        BY <1>3, <2>0, <3>1
    <2>2. CASE p[j] # 1
      <3>1. p[j] \in 2..n /\ p[j] - 1 \in 1..n /\ p[j] - 1 < h
        BY <1>1, <2>0, <2>2
      <3>2. c[p[j]].previous = c[p[j] - 1].new
        BY <3>1 DEF History, n
      <3>3. Level(c[p[j] - 1].new) < Level(c[h].new)
        BY <2>0, <3>1 DEF History, n
      <3>4. Level(c[h].new) \in Nat
        BY DEF Level
      <3>5. QED
        BY <3>2, <3>3, <3>4
    <2>3. QED
      BY <2>1, <2>2
  <1>14. ASSUME NEW k \in tied, k # top PROVE q[k].new \in {q[j].previous : j \in tied}
    <2>0. k \in visible /\ k \in 1..n /\ p[k] \in 1..n /\ p[k] <= h /\ h \in 1..n /\ q[k].at = q[top].at
      BY <1>8, <1>10 DEF n
    <2>1. p[k] # h
      BY <1>2, <1>5, <1>14, <2>0
    <2>2. p[k] + 1 \in 2..n /\ p[k] + 1 \in 1..n /\ p[k] + 1 <= h /\ (p[k] + 1) - 1 = p[k]
      BY <1>1, <2>0, <2>1
    <2>3. PICK j \in 1..n : p[j] = p[k] + 1
      BY <1>2, <2>2
    <2>4. j \in visible
      BY <1>7, <2>2, <2>3
    <2>5. q[j].at = q[top].at
      <3>1. c[p[k]].at <= c[p[j]].at /\ c[p[j]].at <= c[h].at
        BY <1>4, <2>0, <2>2, <2>3
      <3>2. c[p[k]].at \in Nat /\ c[p[j]].at \in Nat /\ c[h].at \in Nat
        BY <1>3, <2>0, <2>2, <2>3
      <3>3. q[k] = c[p[k]] /\ q[j] = c[p[j]] /\ q[top] = c[h]
        BY <1>5, <1>6, <2>0
      <3>4. QED
        BY <2>0, <3>1, <3>2, <3>3
    <2>6. j \in tied
      BY <1>12, <2>4, <2>5
    <2>7. c[p[k] + 1].previous = c[p[k]].new
      BY <2>2 DEF History, n
    <2>8. q[j].previous = q[k].new
      BY <1>6, <2>0, <2>3, <2>7
    <2>9. QED
      BY <2>6, <2>8
  <1>15. heads = {top}
    BY <1>11, <1>13, <1>14 DEF Heads
  <1>16. Max(heads) = top
    BY <1>15, MaxSingle
  <1>17. visible # {} /\ heads # {}
    BY <1>9, <1>15
  <1>18. status_as_of(q, t) = q[Max(heads)].new
    BY <1>17 DEF status_as_of, heads, tied, visible
  <1>19. QED
    BY <1>5, <1>6, <1>16, <1>18

(* Noting the statuses leaves the clock and the actions alone.                *)
LEMMA NotedParts ==
  ASSUME NEW p, p = [now |-> p.now, action |-> p.action, was |-> p.was]
  PROVE  LET noted == [a \in DOMAIN p.action |->
                         [t \in 0..MaxTime |->
                            IF t < p.now /\ a \in DOMAIN p.was THEN p.was[a][t]
                            ELSE IF p.action[a].created <= p.now
                                 THEN Last(p.action[a].checkins).new ELSE "Planned"]]
         IN  Noted(p) = [now |-> p.now, action |-> p.action, was |-> noted]
  <1> DEFINE noted == [a \in DOMAIN p.action |->
                         [t \in 0..MaxTime |->
                            IF t < p.now /\ a \in DOMAIN p.was THEN p.was[a][t]
                            ELSE IF p.action[a].created <= p.now
                                 THEN Last(p.action[a].checkins).new ELSE "Planned"]]
  <1>1. Noted(p) = [p EXCEPT !.was = noted]
    BY DEF Noted
  <1> HIDE DEF noted
  <1>2. [p EXCEPT !.was = noted] = [now |-> p.now, action |-> p.action, was |-> noted]
    <2> DEFINE now_ == p.now
               action_ == p.action
               was_ == p.was
    <2>1. p = [now |-> now_, action |-> action_, was |-> was_]
      OBVIOUS
    <2> HIDE DEF now_, action_, was_
    <2>2. [p EXCEPT !.was = noted] = [now |-> now_, action |-> action_, was |-> noted]
      BY <2>1
    <2>3. QED
      BY <2>2 DEF now_, action_
  <1>3. QED
    BY <1>1, <1>2 DEF noted

(* The history of an action may have grown by a check-in of the instant.      *)
Grown(new, old, at) == new = old \/ \E r \in CheckinRow : r.at = at /\ new = Append(old, r)

(* A step that notes the statuses, and only adds check-ins of its instant and *)
(* actions with a first one, keeps the notes right.                           *)
LEMMA NotesStayRight ==
  ASSUME PeriodInv, PeriodType', Histories', NEW p,
         p = [now |-> p.now, action |-> p.action, was |-> p.was],
         period' = Noted(p), p.was = period.was, p.now \in {period.now, period.now + 1},
         \A a \in Actions : a \in DOMAIN p.action /\ Grown(p.action[a].checkins, period.action[a].checkins, p.now),
         \A a \in DOMAIN p.action : a \notin Actions =>
            \E r \in CheckinRow : p.action[a].checkins = <<r>> /\ r.at = p.now /\ r.new = "Planned"
  PROVE  NotedRight'
  <1> DEFINE clk == p.now
  <1>0. PeriodType /\ Histories /\ NotedRight
    BY DEF PeriodInv
  <1>1. /\ period'.now = clk /\ period'.action = p.action
        /\ \A a \in DOMAIN p.action : \A t \in 0..MaxTime :
             period'.was[a][t] = IF t < clk /\ a \in Actions THEN period.was[a][t]
                                 ELSE IF p.action[a].created <= clk
                                      THEN Last(p.action[a].checkins).new ELSE "Planned"
    <2> DEFINE noted == [a \in DOMAIN p.action |->
                           [t \in 0..MaxTime |->
                              IF t < p.now /\ a \in DOMAIN p.was THEN p.was[a][t]
                              ELSE IF p.action[a].created <= p.now
                                   THEN Last(p.action[a].checkins).new ELSE "Planned"]]
    <2>1. Noted(p) = [now |-> p.now, action |-> p.action, was |-> noted]
      BY NotedParts, Zenon
    <2>2. \A a \in DOMAIN p.action : \A t \in 0..MaxTime :
            noted[a][t] = IF t < p.now /\ a \in DOMAIN p.was THEN p.was[a][t]
                          ELSE IF p.action[a].created <= p.now
                               THEN Last(p.action[a].checkins).new ELSE "Planned"
      OBVIOUS
    <2> HIDE DEF noted
    <2>3. period'.now = p.now /\ period'.action = p.action /\ period'.was = noted
      BY <2>1
    <2>4. p.was = period.was /\ DOMAIN p.was = Actions
      BY <1>0 DEF PeriodType
    <2>5. QED
      BY <2>2, <2>3, <2>4
  <1>2. clk \in 0..MaxTime /\ clk \in Nat /\ period.now \in Nat /\ MaxTime \in Nat
    <2>1. MaxTime \in Nat
      BY ReportAssumption
    <2>2. QED
      BY <1>0, <1>1, <2>1 DEF PeriodType
  <1> SUFFICES ASSUME NEW a \in DOMAIN p.action, NEW t \in 0..clk,
                      NEW c, c = p.action[a].checkins
               PROVE  /\ c[1].at > t => period'.was[a][t] = "Planned"
                      /\ \A k \in 1..Len(c) : LatestAt(c, k, t) => period'.was[a][t] = c[k].new
    BY <1>1 DEF NotedRight, Actions, LatestAt
  <1>3. /\ History(c) /\ \A k \in 1..Len(c) : c[k].at <= clk
        /\ p.action[a].created <= clk
    BY <1>1 DEF Histories, PeriodType, Actions, History, Level, CheckinRow, Status, Nothing
  <1>4. /\ c \in Seq(CheckinRow) /\ Len(c) \in Nat /\ 1 \in 1..Len(c) /\ Len(c) \in 1..Len(c)
        /\ \A k \in 1..Len(c) : c[k].at \in Nat
    <2>1. c \in Seq(CheckinRow) /\ Len(c) \in Nat /\ 1 \in 1..Len(c) /\ Len(c) \in 1..Len(c)
      BY <1>3 DEF History
    <2>2. \A k \in 1..Len(c) : c[k] \in CheckinRow
      BY <2>1
    <2>3. QED
      BY <2>1, <2>2 DEF CheckinRow
  <1>5. t \in 0..MaxTime /\ t \in Nat
    BY <1>2
  <1>6. Last(c) = c[Len(c)]
    BY DEF Last
  <1> HIDE DEF clk
  <1>7. CASE t = clk
    <2>1. period'.was[a][t] = c[Len(c)].new
      BY <1>1, <1>2, <1>3, <1>5, <1>6, <1>7
    <2>2. ~ (c[1].at > t)
      BY <1>2, <1>3, <1>4, <1>7
    <2>3. ASSUME NEW k \in 1..Len(c), LatestAt(c, k, t) PROVE k = Len(c)
      <3>1. c[Len(c)].at <= t
        BY <1>3, <1>4, <1>7
      <3>2. ~ (Len(c) > k)
        BY <1>4, <1>5, <2>3, <3>1 DEF LatestAt
      <3>3. QED
        BY <1>4, <3>2
    <2>4. QED
      BY <2>1, <2>2, <2>3
  <1>8. CASE t # clk /\ a \notin Actions
    <2>1. PICK r \in CheckinRow : c = <<r>> /\ r.at = clk /\ r.new = "Planned"
      BY <1>8 DEF clk
    <2>2. Len(c) = 1 /\ c[1].at = clk /\ c[1].new = "Planned"
      BY <2>1
    <2>3. period'.was[a][t] = "Planned"
      BY <1>1, <1>3, <1>5, <1>6, <1>8, <2>2
    <2>4. QED
      BY <2>2, <2>3
  <1>9. CASE t # clk /\ a \in Actions
    <2> DEFINE old == period.action[a].checkins
    <2>1. t < clk /\ t \in 0..period.now
      BY <1>2, <1>9 DEF clk
    <2>2. period'.was[a][t] = period.was[a][t]
      BY <1>1, <1>5, <1>9, <2>1
    <2>3. /\ old[1].at > t => period.was[a][t] = "Planned"
          /\ \A k \in 1..Len(old) : LatestAt(old, k, t) => period.was[a][t] = old[k].new
      BY <1>0, <1>9, <2>1 DEF NotedRight
    <2>4. Grown(c, old, clk) /\ old \in Seq(CheckinRow) /\ Len(old) \in Nat /\ 1 \in 1..Len(old)
      BY <1>0, <1>9 DEF clk, Histories, History
    <2> HIDE DEF old
    <2>5. CASE c = old
      BY <2>2, <2>3, <2>5
    <2>6. CASE \E r \in CheckinRow : r.at = clk /\ c = Append(old, r)
      <3>1. PICK r \in CheckinRow : r.at = clk /\ c = Append(old, r)
        BY <2>6
      <3>2. /\ Len(c) = Len(old) + 1 /\ \A k \in 1..Len(old) : c[k] = old[k] /\ k \in 1..Len(c)
            /\ c[Len(old) + 1] = r
        BY <2>4, <3>1
      <3>3. ASSUME NEW k \in 1..Len(c), LatestAt(c, k, t)
            PROVE  k \in 1..Len(old) /\ LatestAt(old, k, t) /\ c[k] = old[k]
        <4>1. k # Len(old) + 1
          <5>1. c[k].at <= t
            BY <3>3 DEF LatestAt
          <5>2. QED
            BY <1>2, <1>5, <2>1, <3>1, <3>2, <5>1
        <4>2. k \in 1..Len(old)
          BY <2>4, <3>2, <4>1
        <4>3. QED
          BY <3>2, <3>3, <4>2 DEF LatestAt
      <3>4. QED
        BY <2>2, <2>3, <2>4, <3>2, <3>3
    <2>7. QED
      BY <2>4, <2>5, <2>6 DEF Grown
  <1>10. QED
    BY <1>7, <1>8, <1>9

(* Noted periods are well formed.                                             *)
LEMMA NotedType ==
  ASSUME NEW p, p = [now |-> p.now, action |-> p.action, was |-> p.was], period' = Noted(p),
         p.now \in 0..MaxTime, p.action \in [DOMAIN p.action -> ActionRow],
         \A a \in DOMAIN p.action : p.action[a].created <= p.now
  PROVE  PeriodType' /\ period'.now = p.now /\ period'.action = p.action
  <1> DEFINE noted == [a \in DOMAIN p.action |->
                         [t \in 0..MaxTime |->
                            IF t < p.now /\ a \in DOMAIN p.was THEN p.was[a][t]
                            ELSE IF p.action[a].created <= p.now
                                 THEN Last(p.action[a].checkins).new ELSE "Planned"]]
  <1>1. period' = [now |-> p.now, action |-> p.action, was |-> noted]
    BY NotedParts, Zenon
  <1>2. DOMAIN noted = DOMAIN p.action
    OBVIOUS
  <1> HIDE DEF noted
  <1>3. period'.now = p.now /\ period'.action = p.action /\ period'.was = noted
    BY <1>1
  <1>4. period' = [now |-> period'.now, action |-> period'.action, was |-> period'.was]
    BY <1>1, <1>3
  <1>5. QED
    BY <1>2, <1>3, <1>4 DEF PeriodType, Actions, ActionRow, CheckinRow, Status, Nothing, NotYet

(* The histories after a step.                                                *)
LEMMA HistoriesNext ==
  ASSUME \A x \in DOMAIN period'.action :
            /\ History(period'.action[x].checkins)
            /\ \A k \in 1..Len(period'.action[x].checkins) : period'.action[x].checkins[k].at <= period'.now
  PROVE  Histories'
  BY DEF Histories, Actions

(* A new action has one check-in, of this instant.                            *)
LEMMA CreateStep ==
  ASSUME PeriodInv, NEW a \in Action, NEW d \in {0, 1}, CreateAction(a, d)
  PROVE  PeriodInv'
  <1> DEFINE first == [at |-> period.now, previous |-> Nothing, new |-> "Planned"]
             row == [date |-> d, created |-> period.now, cancelled |-> NotYet, checkins |-> <<first>>]
             act == [x \in Actions \cup {a} |-> IF x = a THEN row ELSE period.action[x]]
             p == [now |-> period.now, action |-> act, was |-> period.was]
  <1>0. PeriodType /\ Histories
    BY DEF PeriodInv
  <1>1. a \notin Actions /\ period' = Noted(p)
    <2>1. [period EXCEPT !.action = act] = p
      <3> HIDE DEF act
      <3>1. QED
        BY <1>0 DEF PeriodType
    <2>2. a \notin Actions /\ period' = Noted([period EXCEPT !.action = act])
      BY DEF CreateAction
    <2>3. QED
      BY <2>1, <2>2
  <1>2. period.now \in 0..MaxTime /\ period.now \in Nat /\ period.action \in [Actions -> ActionRow]
    <2>1. MaxTime \in Nat
      BY ReportAssumption
    <2>2. QED
      BY <1>0, <2>1 DEF PeriodType
  <1>3. first \in CheckinRow /\ first.at = period.now /\ first.new = "Planned" /\ first.previous = Nothing
    BY <1>2 DEF CheckinRow, Status
  <1> HIDE DEF first
  <1>4. <<first>> \in Seq(CheckinRow) /\ Len(<<first>>) = 1 /\ <<first>>[1] = first
    BY <1>3
  <1>5. row \in ActionRow /\ row.checkins = <<first>> /\ row.created = period.now
    <2> DEFINE s == <<first>>
    <2>1. s \in Seq(CheckinRow)
      BY <1>4
    <2> HIDE DEF s
    <2>2. [date |-> d, created |-> period.now, cancelled |-> NotYet, checkins |-> s] \in ActionRow
      BY <1>2, <2>1 DEF ActionRow
    <2>3. QED
      BY <2>2 DEF s
  <1> HIDE DEF row
  <1>6. /\ DOMAIN act = Actions \cup {a} /\ act[a] = row
        /\ \A x \in Actions : act[x] = period.action[x]
    BY <1>1
  <1>7. act \in [DOMAIN act -> ActionRow] /\ \A x \in DOMAIN act : act[x].created <= period.now
    BY <1>0, <1>2, <1>5, <1>6 DEF PeriodType
  <1> HIDE DEF act
  <1>8. p.now = period.now /\ p.action = act /\ p.was = period.was
        /\ p = [now |-> p.now, action |-> p.action, was |-> p.was]
    OBVIOUS
  <1> HIDE DEF p
  <1>9. PeriodType' /\ period'.now = period.now /\ period'.action = act
    BY <1>1, <1>2, <1>7, <1>8, NotedType
  <1>10. History(<<first>>)
    <2> DEFINE s == <<first>>
    <2>1. s \in Seq(CheckinRow) /\ Len(s) = 1 /\ s[1] = first
      BY <1>4
    <2> HIDE DEF s
    <2>2. History(s)
      BY <1>3, <2>1 DEF History
    <2>3. QED
      BY <2>2 DEF s
  <1>11. Histories'
    <2> SUFFICES ASSUME NEW x \in DOMAIN act
                 PROVE  /\ History(act[x].checkins)
                        /\ \A k \in 1..Len(act[x].checkins) : act[x].checkins[k].at <= period.now
      BY <1>9, HistoriesNext
    <2>1. CASE x = a
      BY <1>2, <1>3, <1>4, <1>5, <1>6, <1>10, <2>1
    <2>2. CASE x # a
      BY <1>0, <1>6, <2>2 DEF Histories
    <2>3. QED
      BY <2>1, <2>2
  <1>12. NotedRight'
    <2>1. \A x \in Actions : x \in DOMAIN p.action
                             /\ Grown(p.action[x].checkins, period.action[x].checkins, p.now)
      BY <1>6, <1>8 DEF Grown
    <2>2. \A x \in DOMAIN p.action : x \notin Actions =>
            \E r \in CheckinRow : p.action[x].checkins = <<r>> /\ r.at = p.now /\ r.new = "Planned"
      BY <1>3, <1>5, <1>6, <1>8
    <2>3. p.now \in {period.now, period.now + 1} /\ p.was = period.was
          /\ p = [now |-> p.now, action |-> p.action, was |-> p.was] /\ period' = Noted(p)
          /\ PeriodType'
      BY <1>1, <1>8, <1>9
    <2>4. QED
      BY <1>11, <2>1, <2>2, <2>3, NotesStayRight, Zenon
  <1>13. QED
    BY <1>9, <1>11, <1>12 DEF PeriodInv

(* A check-in leads on from the status of the action, up.                     *)
LEMMA HistoryGrows ==
  ASSUME NEW c, History(c), NEW r \in CheckinRow, r.previous = c[Len(c)].new,
         r.new \in TRANSITIONS[c[Len(c)].new],
         \A k \in 1..Len(c) : c[k].at <= r.at
  PROVE  History(Append(c, r))
  <1> DEFINE n == Len(c)
             d == Append(c, r)
  <1>1. c \in Seq(CheckinRow) /\ n \in 1..3 /\ n \in 1..n
    BY DEF History
  <1>2. \A k \in 1..n : c[k] \in CheckinRow
    BY <1>1
  <1>3. \A k \in 1..n : c[k].new \in Status /\ c[k].at \in Nat
    BY <1>2 DEF CheckinRow
  <1>4. Level(c[n].new) < Level(r.new)
    <2>1. c[n].new \in Status
      BY <1>1, <1>3
    <2>2. QED
      BY <2>1 DEF Status, TRANSITIONS, Level
  <1>5. \A s : Level(s) \in 0..2
    BY DEF Level
  <1>6. \A j \in 1..n : Level(c[j].new) < Level(r.new)
    <2> SUFFICES ASSUME NEW j \in 1..n PROVE Level(c[j].new) < Level(r.new)
      OBVIOUS
    <2>1. j = n \/ Level(c[j].new) < Level(c[n].new)
      BY <1>1 DEF History
    <2>2. Level(c[j].new) \in Int /\ Level(c[n].new) \in Int /\ Level(r.new) \in Int
      BY <1>5
    <2>3. QED
      BY <1>4, <2>1, <2>2
  <1>7. n # 3
    <2> SUFFICES ASSUME n = 3 PROVE FALSE
      OBVIOUS
    <2>1. Level(c[1].new) < Level(c[2].new) /\ Level(c[2].new) < Level(c[3].new)
      BY DEF History
    <2>2. Level(c[3].new) < Level(r.new)
      BY <1>4
    <2>3. Level(c[1].new) \in 0..2 /\ Level(c[2].new) \in 0..2 /\ Level(c[3].new) \in 0..2 /\ Level(r.new) \in 0..2
      BY <1>5
    <2>4. QED
      BY <2>1, <2>2, <2>3
  <1>8. /\ d \in Seq(CheckinRow) /\ Len(d) = n + 1 /\ d[n + 1] = r
        /\ \A k \in 1..n : d[k] = c[k]
    BY <1>1
  <1> HIDE DEF d
  <1>9. d[1].previous = Nothing
    BY <1>1, <1>8 DEF History
  <1>10. \A k \in 2..Len(d) : d[k].previous = d[k - 1].new
    <2> SUFFICES ASSUME NEW k \in 2..(n + 1) PROVE d[k].previous = d[k - 1].new
      BY <1>8
    <2>1. CASE k = n + 1
      BY <1>1, <1>8, <2>1
    <2>2. CASE k # n + 1
      <3>1. k \in 2..n /\ k \in 1..n /\ k - 1 \in 1..n
        BY <1>1, <2>2
      <3>2. QED
        BY <1>8, <3>1 DEF History
    <2>3. QED
      BY <2>1, <2>2
  <1>11. \A j, k \in 1..Len(d) : j < k => Level(d[j].new) < Level(d[k].new) /\ d[j].at <= d[k].at
    <2> SUFFICES ASSUME NEW j \in 1..(n + 1), NEW k \in 1..(n + 1), j < k
                 PROVE  Level(d[j].new) < Level(d[k].new) /\ d[j].at <= d[k].at
      BY <1>8
    <2>1. j \in 1..n
      BY <1>1
    <2>2. CASE k = n + 1
      BY <1>6, <1>8, <2>1, <2>2
    <2>3. CASE k # n + 1
      <3>1. k \in 1..n
        BY <1>1, <2>3
      <3>2. QED
        BY <1>8, <2>1, <3>1 DEF History
    <2>4. QED
      BY <2>2, <2>3
  <1>12. Len(d) \in 1..3
    BY <1>1, <1>7, <1>8
  <1>13. History(d)
    BY <1>8, <1>9, <1>10, <1>11, <1>12 DEF History
  <1>14. QED
    BY <1>13 DEF d

(* A check-in adds one record, of this instant.                               *)
LEMMA CheckinStep ==
  ASSUME PeriodInv, NEW a \in Action, NEW new \in Status, checkin(a, new)
  PROVE  PeriodInv'
  <1> DEFINE c == period.action[a].checkins
             r == [at |-> period.now, previous |-> StatusNow(a), new |-> new]
             act == [period.action EXCEPT ![a].checkins = Append(c, r)]
             p == [now |-> period.now, action |-> act, was |-> period.was]
  <1>0. PeriodType /\ Histories
    BY DEF PeriodInv
  <1>1. a \in Actions /\ new \in TRANSITIONS[StatusNow(a)] /\ period' = Noted(p)
    <2>1. [period EXCEPT !.action = act] = p
      <3> HIDE DEF act
      <3>1. QED
        BY <1>0 DEF PeriodType
    <2>2. /\ a \in Actions /\ new \in TRANSITIONS[StatusNow(a)]
          /\ period' = Noted([period EXCEPT !.action[a].checkins = Append(@, r)])
      BY DEF checkin
    <2>3. [period EXCEPT !.action[a].checkins = Append(@, r)] = [period EXCEPT !.action = act]
      <3> HIDE DEF r
      <3>1. QED
        BY <1>0, <2>2 DEF PeriodType
    <2>4. QED
      BY <2>1, <2>2, <2>3
  <1>2. /\ period.now \in 0..MaxTime /\ period.now \in Nat
        /\ period.action \in [Actions -> ActionRow] /\ period.action[a] \in ActionRow
    <2>1. MaxTime \in Nat
      BY ReportAssumption
    <2>2. QED
      BY <1>0, <1>1, <2>1 DEF PeriodType
  <1>3. /\ History(c) /\ c \in Seq(CheckinRow) /\ Len(c) \in 1..Len(c) /\ c[Len(c)] \in CheckinRow
        /\ \A k \in 1..Len(c) : c[k].at <= period.now
    <2>1. History(c) /\ \A k \in 1..Len(c) : c[k].at <= period.now
      BY <1>0, <1>1 DEF Histories
    <2>2. c \in Seq(CheckinRow) /\ Len(c) \in 1..Len(c)
      BY <2>1 DEF History
    <2>3. QED
      BY <2>1, <2>2
  <1>4. StatusNow(a) = c[Len(c)].new /\ StatusNow(a) \in Status
    <2>1. StatusNow(a) = c[Len(c)].new
      BY DEF StatusNow, Last
    <2>2. QED
      BY <1>3, <2>1 DEF CheckinRow
  <1>5. r \in CheckinRow /\ r.at = period.now /\ r.previous = StatusNow(a) /\ r.new = new
    BY <1>2, <1>4 DEF CheckinRow
  <1> HIDE DEF r
  <1>6. /\ Append(c, r) \in Seq(CheckinRow) /\ Len(Append(c, r)) = Len(c) + 1
        /\ Append(c, r)[Len(c) + 1] = r /\ \A k \in 1..Len(c) : Append(c, r)[k] = c[k]
    <2> HIDE DEF c
    <2>1. QED
      BY <1>3, <1>5
  <1>7. /\ DOMAIN act = Actions
        /\ act[a] = [period.action[a] EXCEPT !.checkins = Append(c, r)]
        /\ \A x \in Actions : x # a => act[x] = period.action[x]
    BY <1>1, <1>2
  <1>8. /\ act[a].checkins = Append(c, r) /\ act[a].created = period.action[a].created
        /\ act[a] \in ActionRow
    <2> DEFINE s == Append(c, r)
    <2>1. s \in Seq(CheckinRow) /\ act[a] = [period.action[a] EXCEPT !.checkins = s]
      BY <1>6, <1>7
    <2> HIDE DEF s, act
    <2>2. act[a].checkins = s /\ act[a].created = period.action[a].created /\ act[a] \in ActionRow
      BY <1>2, <2>1 DEF ActionRow
    <2>3. QED
      BY <2>2 DEF s
  <1>9. act \in [DOMAIN act -> ActionRow] /\ \A x \in DOMAIN act : act[x].created <= period.now
    <2>1. \A x \in Actions : act[x] \in ActionRow /\ act[x].created <= period.now
      <3> SUFFICES ASSUME NEW x \in Actions PROVE act[x] \in ActionRow /\ act[x].created <= period.now
        OBVIOUS
      <3>1. CASE x = a
        BY <1>0, <1>8, <3>1 DEF PeriodType
      <3>2. CASE x # a
        BY <1>0, <1>2, <1>7, <3>2 DEF PeriodType
      <3>3. QED
        BY <3>1, <3>2
    <2>2. act = [x \in Actions |-> act[x]]
      BY <1>2
    <2> HIDE DEF act
    <2>3. QED
      BY <1>7, <2>1, <2>2
  <1> HIDE DEF act
  <1>10. p.now = period.now /\ p.action = act /\ p.was = period.was
         /\ p = [now |-> p.now, action |-> p.action, was |-> p.was]
    OBVIOUS
  <1> HIDE DEF p
  <1>11. PeriodType' /\ period'.now = period.now /\ period'.action = act
    BY <1>1, <1>2, <1>9, <1>10, NotedType
  <1>12. Histories'
    <2> SUFFICES ASSUME NEW x \in Actions
                 PROVE  /\ History(act[x].checkins)
                        /\ \A k \in 1..Len(act[x].checkins) : act[x].checkins[k].at <= period.now
      BY <1>7, <1>11, HistoriesNext
    <2>1. CASE x = a
      <3>1. History(Append(c, r))
        <4> HIDE DEF c
        <4>1. QED
          BY <1>1, <1>3, <1>4, <1>5, HistoryGrows
      <3>2. ASSUME NEW k \in 1..(Len(c) + 1) PROVE Append(c, r)[k].at <= period.now
        <4>1. k = Len(c) + 1 \/ k \in 1..Len(c)
          BY <1>3
        <4>2. QED
          BY <1>2, <1>3, <1>5, <1>6, <4>1
      <3>3. QED
        BY <1>6, <1>8, <2>1, <3>1, <3>2
    <2>2. CASE x # a
      BY <1>0, <1>7, <2>2 DEF Histories
    <2>3. QED
      BY <2>1, <2>2
  <1>13. NotedRight'
    <2>1. \A x \in Actions : x \in DOMAIN p.action
                             /\ Grown(p.action[x].checkins, period.action[x].checkins, p.now)
      BY <1>5, <1>7, <1>8, <1>10 DEF Grown
    <2>2. DOMAIN p.action = Actions
      BY <1>7, <1>10
    <2>3. p.now \in {period.now, period.now + 1} /\ p.was = period.was
          /\ p = [now |-> p.now, action |-> p.action, was |-> p.was] /\ period' = Noted(p)
          /\ PeriodType'
      BY <1>1, <1>10, <1>11
    <2>4. QED
      BY <1>12, <2>1, <2>2, <2>3, NotesStayRight, Zenon
  <1>14. QED
    BY <1>11, <1>12, <1>13 DEF PeriodInv

(* The clock: the statuses are noted for one more instant.                    *)
LEMMA TickStep ==
  ASSUME PeriodInv, Tick
  PROVE  PeriodInv'
  <1> DEFINE p == [now |-> period.now + 1, action |-> period.action, was |-> period.was]
  <1>0. PeriodType /\ Histories
    BY DEF PeriodInv
  <1>1. period' = Noted(p) /\ period.now < MaxTime
    <2>1. [period EXCEPT !.now = @ + 1] = p
      BY <1>0 DEF PeriodType
    <2>2. QED
      BY <2>1 DEF Tick
  <1>2. period.now \in Nat /\ period.now + 1 \in 0..MaxTime /\ period.action \in [Actions -> ActionRow]
    <2>1. MaxTime \in Nat
      BY ReportAssumption
    <2>2. QED
      BY <1>0, <1>1, <2>1 DEF PeriodType
  <1>3. \A x \in Actions : period.action[x].created <= period.now + 1
    <2>1. \A x \in Actions : period.action[x].created \in Nat /\ period.action[x].created <= period.now
      BY <1>0, <1>2 DEF PeriodType, ActionRow
    <2>2. QED
      BY <1>2, <2>1
  <1>4. p.now = period.now + 1 /\ p.action = period.action /\ p.was = period.was
        /\ p = [now |-> p.now, action |-> p.action, was |-> p.was]
    OBVIOUS
  <1>5. DOMAIN p.action = Actions
    BY DEF Actions
  <1> HIDE DEF p
  <1>6. PeriodType' /\ period'.now = period.now + 1 /\ period'.action = period.action
    BY <1>1, <1>2, <1>3, <1>4, <1>5, NotedType
  <1>7. Histories'
    <2> SUFFICES ASSUME NEW x \in Actions
                 PROVE  /\ History(period.action[x].checkins)
                        /\ \A k \in 1..Len(period.action[x].checkins) :
                             period.action[x].checkins[k].at <= period.now + 1
      BY <1>6, HistoriesNext DEF Actions
    <2> DEFINE c == period.action[x].checkins
    <2>1. History(c) /\ \A k \in 1..Len(c) : c[k].at <= period.now
      BY <1>0 DEF Histories
    <2> HIDE DEF c
    <2>2. \A k \in 1..Len(c) : c[k] \in CheckinRow
      BY <2>1 DEF History
    <2>3. \A k \in 1..Len(c) : c[k].at \in Nat
      BY <2>2 DEF CheckinRow
    <2>4. QED
      BY <1>2, <2>1, <2>3 DEF c
  <1>8. NotedRight'
    <2>1. \A x \in Actions : x \in DOMAIN p.action
                             /\ Grown(p.action[x].checkins, period.action[x].checkins, p.now)
      BY <1>4, <1>5 DEF Grown
    <2>2. p.now \in {period.now, period.now + 1} /\ p.was = period.was
          /\ p = [now |-> p.now, action |-> p.action, was |-> p.was] /\ period' = Noted(p)
          /\ PeriodType'
      BY <1>1, <1>4, <1>6
    <2>3. QED
      BY <1>5, <1>7, <2>1, <2>2, NotesStayRight, Zenon
  <1>9. QED
    BY <1>6, <1>7, <1>8 DEF PeriodInv

(* A step that keeps the clock, the notes and every history.                  *)
LEMMA PlainStep ==
  ASSUME PeriodInv, NEW act, act \in [Actions -> ActionRow],
         period' = [now |-> period.now, action |-> act, was |-> period.was],
         \A x \in Actions : act[x].checkins = period.action[x].checkins
                            /\ act[x].created = period.action[x].created
  PROVE  PeriodInv'
  <1>0. PeriodType /\ Histories /\ NotedRight
    BY DEF PeriodInv
  <1>1. /\ period'.now = period.now /\ period'.action = act /\ period'.was = period.was
        /\ DOMAIN act = Actions
        /\ period' = [now |-> period'.now, action |-> period'.action, was |-> period'.was]
    OBVIOUS
  <1>2. PeriodType'
    BY <1>0, <1>1 DEF PeriodType, Actions, ActionRow, CheckinRow, Status, Nothing, NotYet
  <1>3. Histories'
    BY <1>0, <1>1, HistoriesNext DEF Histories
  <1>4. NotedRight'
    <2> SUFFICES ASSUME NEW x \in Actions, NEW t \in 0..period.now,
                        NEW c, c = period.action[x].checkins
                 PROVE  /\ c[1].at > t => period.was[x][t] = "Planned"
                        /\ \A k \in 1..Len(c) : LatestAt(c, k, t) => period.was[x][t] = c[k].new
      BY <1>1 DEF NotedRight, Actions, LatestAt
    <2>1. QED
      BY <1>0 DEF NotedRight
  <1>5. QED
    BY <1>2, <1>3, <1>4 DEF PeriodInv

(* Cancelling and moving an action leave its history alone.                   *)
LEMMA CancelStep ==
  ASSUME PeriodInv, NEW a \in Action, NEW d \in {0, 1}, cancel(a) \/ reschedule(a, d)
  PROVE  PeriodInv'
  <1>0. PeriodType
    BY DEF PeriodInv
  <1>1. /\ period.now \in Nat /\ period.action \in [Actions -> ActionRow]
    <2>1. MaxTime \in Nat
      BY ReportAssumption
    <2>2. QED
      BY <1>0, <2>1 DEF PeriodType
  <1>2. ASSUME NEW row \in ActionRow, a \in Actions, row.checkins = period.action[a].checkins,
               row.created = period.action[a].created,
               period' = [now |-> period.now, action |-> [period.action EXCEPT ![a] = row], was |-> period.was]
        PROVE  PeriodInv'
    <2> DEFINE act == [period.action EXCEPT ![a] = row]
    <2>1. /\ act \in [Actions -> ActionRow]
          /\ \A x \in Actions : act[x].checkins = period.action[x].checkins
                                /\ act[x].created = period.action[x].created
      BY <1>1, <1>2
    <2>2. period' = [now |-> period.now, action |-> act, was |-> period.was]
      BY <1>2
    <2> HIDE DEF act
    <2>3. QED
      BY <2>1, <2>2, PlainStep
  <1>3. ASSUME cancel(a) PROVE PeriodInv'
    <2> DEFINE row == [period.action[a] EXCEPT !.cancelled = period.now]
    <2>1. a \in Actions /\ period' = [period EXCEPT !.action[a].cancelled = period.now]
      BY <1>3 DEF cancel
    <2>2. row \in ActionRow /\ row.checkins = period.action[a].checkins
          /\ row.created = period.action[a].created
      BY <1>1, <2>1 DEF ActionRow
    <2>3. period' = [now |-> period.now, action |-> [period.action EXCEPT ![a] = row], was |-> period.was]
      BY <1>0, <1>1, <2>1 DEF PeriodType
    <2> HIDE DEF row
    <2>4. QED
      BY <1>2, <2>1, <2>2, <2>3
  <1>4. ASSUME reschedule(a, d) PROVE PeriodInv'
    <2> DEFINE row == [period.action[a] EXCEPT !.date = d]
    <2>1. a \in Actions /\ period' = [period EXCEPT !.action[a].date = d]
      BY <1>4 DEF reschedule
    <2>2. row \in ActionRow /\ row.checkins = period.action[a].checkins
          /\ row.created = period.action[a].created
      BY <1>1, <2>1 DEF ActionRow
    <2>3. period' = [now |-> period.now, action |-> [period.action EXCEPT ![a] = row], was |-> period.was]
      BY <1>0, <1>1, <2>1 DEF PeriodType
    <2> HIDE DEF row
    <2>4. QED
      BY <1>2, <2>1, <2>2, <2>3
  <1>5. QED
    BY <1>3, <1>4

LEMMA PeriodInvariantHolds == Spec => []PeriodInv
  <1>1. Init => PeriodInv
    <2> SUFFICES ASSUME period = [now |-> 0, action |-> [a \in {} |-> 0], was |-> [a \in {} |-> 0]]
                 PROVE  PeriodInv
      BY DEF Init
    <2>0. MaxTime \in Nat
      BY ReportAssumption
    <2>1. period.now = 0 /\ Actions = {} /\ DOMAIN period.was = {}
          /\ period.action = [a \in {} |-> 0]
      BY DEF Actions
    <2>2. period.action \in [Actions -> ActionRow]
      BY <2>1
    <2>3. PeriodType
      BY <2>0, <2>1, <2>2 DEF PeriodType
    <2>4. QED
      BY <2>1, <2>3 DEF PeriodInv, Histories, NotedRight
  <1>2. PeriodInv /\ [Next]_vars => PeriodInv'
    <2> SUFFICES ASSUME PeriodInv, [Next]_vars PROVE PeriodInv'
      OBVIOUS
    <2>1. CASE NextPeriod
      BY <2>1, CreateStep, CheckinStep, CancelStep, TickStep DEF NextPeriod
    <2>2. CASE UNCHANGED period
      <3>0. PeriodType
        BY DEF PeriodInv
      <3>1. /\ period.action \in [Actions -> ActionRow]
            /\ period' = [now |-> period.now, action |-> period.action, was |-> period.was]
        BY <2>2, <3>0 DEF PeriodType
      <3>2. QED
        BY <3>1, PlainStep
    <2>3. QED
      BY <2>1, <2>2 DEF Next, vars
  <1>3. QED
    BY <1>1, <1>2, PTL DEF Spec

(* One check-in is the last of an instant that is not before the first.       *)
LEMMA LatestExists ==
  ASSUME NEW c, History(c), NEW t \in Nat, ~ (c[1].at > t)
  PROVE  \E h \in 1..Len(c) : LatestAt(c, h, t)
  <1>1. Len(c) \in 1..3 /\ c \in Seq(CheckinRow)
    BY DEF History
  <1>2. \A k \in 1..Len(c) : c[k] \in CheckinRow
    BY <1>1
  <1>3. \A k \in 1..Len(c) : c[k].at \in Nat
    BY <1>2 DEF CheckinRow
  <1>4. \A j, k \in 1..Len(c) : j < k => c[j].at <= c[k].at
    BY DEF History
  <1>5. CASE Len(c) = 1
    <2>1. LatestAt(c, 1, t)
      BY <1>3, <1>5 DEF LatestAt
    <2>2. QED
      BY <1>5, <2>1
  <1>6. CASE Len(c) = 2
    <2>1. c[1].at \in Nat /\ c[2].at \in Nat /\ c[1].at <= t
      BY <1>3, <1>6
    <2>2. LatestAt(c, 2, t) \/ LatestAt(c, 1, t)
      BY <1>6, <2>1 DEF LatestAt
    <2>3. QED
      BY <1>6, <2>2
  <1>7. CASE Len(c) = 3
    <2>1. c[1].at \in Nat /\ c[2].at \in Nat /\ c[3].at \in Nat /\ c[1].at <= t
      BY <1>3, <1>7
    <2>2. c[2].at <= c[3].at
      BY <1>4, <1>7
    <2>3. LatestAt(c, 3, t) \/ LatestAt(c, 2, t) \/ LatestAt(c, 1, t)
      BY <1>7, <2>1, <2>2 DEF LatestAt
    <2>4. QED
      BY <1>7, <2>3
  <1>8. QED
    BY <1>1, <1>5, <1>6, <1>7

(* The check-in history gives for every past instant the status the action    *)
(* had at its end: status_as_of() orders the records of one instant by their  *)
(* transitions, so the order the database returns them in does not matter.    *)
THEOREM HistoryGivesStatus == Spec => []StatusReplays
  <1>1. PeriodInv => StatusReplays
    <2> SUFFICES ASSUME PeriodInv, NEW a \in Actions, NEW t \in 0..period.now,
                        NEW p \in Perms(Len(period.action[a].checkins))
                 PROVE  status_as_of([i \in 1..Len(period.action[a].checkins) |->
                                        period.action[a].checkins[p[i]]], t) = period.was[a][t]
      BY DEF StatusReplays
    <2> DEFINE c == period.action[a].checkins
               q == [i \in 1..Len(c) |-> c[p[i]]]
    <2>0. PeriodType /\ Histories /\ NotedRight
      BY DEF PeriodInv
    <2>1. t \in Nat
      <3>1. MaxTime \in Nat
        BY ReportAssumption
      <3>2. QED
        BY <2>0, <3>1 DEF PeriodType
    <2>2. History(c) /\ p \in Perms(Len(c)) /\ q = [i \in 1..Len(c) |-> c[p[i]]]
      BY <2>0 DEF Histories
    <2>3. /\ c[1].at > t => period.was[a][t] = "Planned"
          /\ \A k \in 1..Len(c) : LatestAt(c, k, t) => period.was[a][t] = c[k].new
      BY <2>0 DEF NotedRight
    <2> SUFFICES status_as_of(q, t) = period.was[a][t]
      OBVIOUS
    <2> HIDE DEF c, q
    <2>4. CASE c[1].at > t
      BY <2>1, <2>2, <2>3, <2>4, StatusBefore
    <2>5. CASE ~ (c[1].at > t)
      <3>1. PICK h \in 1..Len(c) : LatestAt(c, h, t)
        BY <2>1, <2>2, <2>5, LatestExists
      <3>2. status_as_of(q, t) = c[h].new
        BY <2>1, <2>2, <3>1, StatusLatest
      <3>3. QED
        BY <2>3, <3>1, <3>2
    <2>6. QED
      BY <2>4, <2>5
  <1>2. QED
    BY <1>1, PeriodInvariantHolds, PTL

(* The status at an instant of a history read in its own order.               *)
LEMMA StatusInOrder ==
  ASSUME NEW c, History(c), NEW t \in Nat
  PROVE  /\ c[1].at > t => status_as_of(c, t) = "Planned"
         /\ \A h \in 1..Len(c) : LatestAt(c, h, t) => status_as_of(c, t) = c[h].new
  <1> DEFINE p == [i \in 1..Len(c) |-> i]
  <1>1. c \in Seq(CheckinRow) /\ Len(c) \in Nat
    BY DEF History
  <1>2. p \in Perms(Len(c)) /\ \A i \in 1..Len(c) : p[i] = i
    BY <1>1 DEF Perms
  <1> HIDE DEF p
  <1>3. c = [i \in 1..Len(c) |-> c[p[i]]]
    BY <1>1, <1>2
  <1>4. ASSUME c[1].at > t PROVE status_as_of(c, t) = "Planned"
    BY <1>2, <1>3, <1>4, StatusBefore
  <1>5. ASSUME NEW h \in 1..Len(c), LatestAt(c, h, t) PROVE status_as_of(c, t) = c[h].new
    BY <1>2, <1>3, <1>5, StatusLatest
  <1>6. QED
    BY <1>4, <1>5

(* A check-in made later changes no status of before.                         *)
LEMMA LaterUnseen ==
  ASSUME NEW c, History(c), NEW r \in CheckinRow, History(Append(c, r)), NEW t \in Nat, r.at > t
  PROVE  status_as_of(Append(c, r), t) = status_as_of(c, t)
  <1> DEFINE d == Append(c, r)
  <1>1. c \in Seq(CheckinRow) /\ Len(c) \in Nat /\ 1 \in 1..Len(c)
    BY DEF History
  <1>2. /\ Len(d) = Len(c) + 1 /\ d[Len(c) + 1] = r
        /\ \A k \in 1..Len(c) : d[k] = c[k] /\ k \in 1..Len(d)
    BY <1>1
  <1>3. History(d)
    OBVIOUS
  <1> HIDE DEF d
  <1>4. CASE c[1].at > t
    <2>1. d[1].at > t
      BY <1>1, <1>2, <1>4
    <2>2. QED
      BY <1>3, <1>4, <2>1, StatusInOrder DEF d
  <1>5. CASE ~ (c[1].at > t)
    <2>1. PICK h \in 1..Len(c) : LatestAt(c, h, t)
      BY <1>5, LatestExists
    <2>2. \A j \in 1..Len(d) : j = Len(c) + 1 \/ j \in 1..Len(c)
      BY <1>1, <1>2
    <2>3. h \in 1..Len(d) /\ d[h] = c[h] /\ LatestAt(d, h, t)
      BY <1>2, <2>1, <2>2 DEF LatestAt
    <2>4. status_as_of(d, t) = d[h].new /\ status_as_of(c, t) = c[h].new
      BY <1>3, <2>1, <2>3, StatusInOrder
    <2>5. QED
      BY <2>3, <2>4 DEF d
  <1>6. QED
    BY <1>4, <1>5

(* The actions that count for the closed period, and their statuses.          *)
CountedAs(act, x, s) ==
    Counted(act[x], 0, 0, PeriodEnd) /\ status_as_of(act[x].checkins, PeriodEnd) = s

(* A rate depends on these only.                                              *)
LEMMA SameRate ==
  ASSUME period.now \in Nat, period'.now \in Nat, period.now > PeriodEnd, period'.now > PeriodEnd,
         \A s \in Status : {x \in DOMAIN period'.action : CountedAs(period'.action, x, s)}
                           = {x \in DOMAIN period.action : CountedAs(period.action, x, s)}
  PROVE  completion_rate(period') = completion_rate(period)
  <1>1. PeriodEnd \in Nat
    BY ReportAssumption DEF PeriodEnd
  <1>2. AsOf(period.now, PeriodEnd) = PeriodEnd /\ AsOf(period'.now, PeriodEnd) = PeriodEnd
    BY <1>1 DEF AsOf
  <1>3. /\ completion_rate(period) = compute(period.action, 0, 0, PeriodEnd)
        /\ completion_rate(period') = compute(period'.action, 0, 0, PeriodEnd)
    BY <1>2 DEF completion_rate
  <1>4. \A act : compute(act, 0, 0, PeriodEnd)
                 = [s \in Status |-> Cardinality({x \in DOMAIN act : CountedAs(act, x, s)})]
    BY DEF compute, CountedAs
  <1>5. QED
    BY <1>3, <1>4

(* The clock and the actions are not noted.                                   *)
LEMMA NotedKeeps ==
  ASSUME NEW n, NEW act, NEW w
  PROVE  LET p == [now |-> n, action |-> act, was |-> w]
         IN  Noted(p).now = n /\ Noted(p).action = act
  <1> DEFINE p == [now |-> n, action |-> act, was |-> w]
             noted == [a \in DOMAIN p.action |->
                         [t \in 0..MaxTime |->
                            IF t < p.now /\ a \in DOMAIN p.was THEN p.was[a][t]
                            ELSE IF p.action[a].created <= p.now
                                 THEN Last(p.action[a].checkins).new ELSE "Planned"]]
  <1>1. p.now = n /\ p.action = act /\ p = [now |-> p.now, action |-> p.action, was |-> p.was]
    OBVIOUS
  <1> HIDE DEF p
  <1>2. Noted(p) = [now |-> p.now, action |-> p.action, was |-> noted]
    BY <1>1, NotedParts, Zenon
  <1> HIDE DEF noted
  <1>3. Noted(p).now = n /\ Noted(p).action = act
    BY <1>1, <1>2
  <1>4. QED
    BY <1>3 DEF p

(* What a step can do to an action once the period has closed: nothing, move  *)
(* it, add a check-in or cancel it at an instant after the period; or create  *)
(* it then.                                                                   *)
LEMMA ClosedStep ==
  ASSUME PeriodInv, NextPeriod, period.now > PeriodEnd
  PROVE  /\ period'.now \in Nat /\ period'.now > PeriodEnd
         /\ Actions \subseteq DOMAIN period'.action
         /\ \A x \in DOMAIN period'.action :
              \/ x \notin Actions /\ period'.action[x].created > PeriodEnd
              \/ x \in Actions /\ period'.action[x] = period.action[x]
              \/ x \in Actions /\ period'.action[x].date # period.action[x].date
              \/ /\ x \in Actions
                 /\ \E r \in CheckinRow : r.at > PeriodEnd /\
                      period'.action[x] = [period.action[x] EXCEPT !.checkins = Append(@, r)]
              \/ /\ x \in Actions /\ period.action[x].cancelled = NotYet
                 /\ \E t \in Nat : t > PeriodEnd /\
                      period'.action[x] = [period.action[x] EXCEPT !.cancelled = t]
  <1>0. PeriodType /\ Histories
    BY DEF PeriodInv
  <1>1. /\ period = [now |-> period.now, action |-> period.action, was |-> period.was]
        /\ period.now \in Nat /\ PeriodEnd \in Nat
        /\ period.action \in [Actions -> ActionRow] /\ DOMAIN period.action = Actions
    <2>1. MaxTime \in Nat /\ PeriodEnd \in Nat
      BY ReportAssumption DEF PeriodEnd
    <2>2. QED
      BY <1>0, <2>1 DEF PeriodType
  <1>2. ASSUME NEW a \in Action, NEW d \in {0, 1}, CreateAction(a, d)
        PROVE  /\ period'.now = period.now /\ DOMAIN period'.action = Actions \cup {a}
               /\ \A x \in Actions : period'.action[x] = period.action[x]
               /\ a \notin Actions /\ period'.action[a].created = period.now
    <2> DEFINE row == [date |-> d, created |-> period.now, cancelled |-> NotYet,
                       checkins |-> <<[at |-> period.now, previous |-> Nothing, new |-> "Planned"]>>]
               act == [x \in Actions \cup {a} |-> IF x = a THEN row ELSE period.action[x]]
    <2>1. a \notin Actions /\ period' = Noted([period EXCEPT !.action = act])
      BY <1>2 DEF CreateAction
    <2>2. row.created = period.now
      OBVIOUS
    <2>3. /\ DOMAIN act = Actions \cup {a} /\ act[a] = row
          /\ \A x \in Actions : act[x] = period.action[x]
      <3> HIDE DEF row
      <3>1. QED
        BY <2>1
    <2> HIDE DEF row, act
    <2>4. [period EXCEPT !.action = act] = [now |-> period.now, action |-> act, was |-> period.was]
      BY <1>1
    <2>5. period'.now = period.now /\ period'.action = act
      BY <2>1, <2>4, NotedKeeps
    <2>6. QED
      BY <2>1, <2>2, <2>3, <2>5
  <1>3. ASSUME NEW a \in Action, NEW new \in Status, checkin(a, new)
        PROVE  /\ period'.now = period.now /\ DOMAIN period'.action = Actions /\ a \in Actions
               /\ \A x \in Actions : x # a => period'.action[x] = period.action[x]
               /\ \E r \in CheckinRow : r.at = period.now /\
                    period'.action[a] = [period.action[a] EXCEPT !.checkins = Append(@, r)]
    <2> DEFINE r == [at |-> period.now, previous |-> StatusNow(a), new |-> new]
               act == [period.action EXCEPT ![a].checkins = Append(@, r)]
    <2>1. a \in Actions /\ period' = Noted([period EXCEPT !.action[a].checkins = Append(@, r)])
      BY <1>3 DEF checkin
    <2>2. r \in CheckinRow /\ r.at = period.now
      <3> DEFINE c == period.action[a].checkins
      <3>1. History(c)
        BY <1>0, <2>1 DEF Histories
      <3>2. c \in Seq(CheckinRow) /\ Len(c) \in 1..Len(c)
        BY <3>1 DEF History
      <3>3. c[Len(c)] \in CheckinRow
        BY <3>2
      <3>4. StatusNow(a) = c[Len(c)].new
        BY DEF StatusNow, Last
      <3>5. StatusNow(a) \in Status
        BY <3>3, <3>4 DEF CheckinRow
      <3>6. QED
        BY <1>1, <3>5 DEF CheckinRow
    <2> HIDE DEF r
    <2>3. /\ DOMAIN act = Actions /\ act[a] = [period.action[a] EXCEPT !.checkins = Append(@, r)]
          /\ \A x \in Actions : x # a => act[x] = period.action[x]
      BY <1>1, <2>1
    <2>4. [period EXCEPT !.action[a].checkins = Append(@, r)] = [period EXCEPT !.action = act]
      BY <1>1
    <2> HIDE DEF act
    <2>5. [period EXCEPT !.action[a].checkins = Append(@, r)]
          = [now |-> period.now, action |-> act, was |-> period.was]
      BY <1>1, <2>4
    <2>6. period'.now = period.now /\ period'.action = act
      BY <2>1, <2>5, NotedKeeps
    <2>7. QED
      BY <2>1, <2>2, <2>3, <2>6
  <1>4. ASSUME NEW a \in Action, cancel(a)
        PROVE  /\ period'.now = period.now /\ DOMAIN period'.action = Actions /\ a \in Actions
               /\ \A x \in Actions : x # a => period'.action[x] = period.action[x]
               /\ period.action[a].cancelled = NotYet
               /\ period'.action[a] = [period.action[a] EXCEPT !.cancelled = period.now]
    BY <1>1, <1>4 DEF cancel, Live
  <1>5. ASSUME NEW a \in Action, NEW d \in {0, 1}, reschedule(a, d)
        PROVE  /\ period'.now = period.now /\ DOMAIN period'.action = Actions /\ a \in Actions
               /\ \A x \in Actions : x # a => period'.action[x] = period.action[x]
               /\ period'.action[a].date # period.action[a].date
    <2>1. a \in Actions /\ period.action[a].date # d /\ period' = [period EXCEPT !.action[a].date = d]
      BY <1>5 DEF reschedule
    <2>2. /\ period'.now = period.now /\ DOMAIN period'.action = Actions
          /\ \A x \in Actions : x # a => period'.action[x] = period.action[x]
          /\ period'.action[a] = [period.action[a] EXCEPT !.date = d]
      BY <1>1, <2>1
    <2>3. period'.action[a].date = d
      BY <1>1, <2>1, <2>2 DEF ActionRow
    <2>4. QED
      BY <2>1, <2>2, <2>3
  <1>6. ASSUME Tick
        PROVE  period'.now = period.now + 1 /\ period'.action = period.action
    <2>1. [period EXCEPT !.now = @ + 1]
          = [now |-> period.now + 1, action |-> period.action, was |-> period.was]
      BY <1>1
    <2>2. period' = Noted([period EXCEPT !.now = @ + 1])
      BY <1>6 DEF Tick
    <2>3. QED
      BY <2>1, <2>2, NotedKeeps
  <1>7. ASSUME NEW a \in Action, NEW d \in {0, 1}, CreateAction(a, d) \/ reschedule(a, d)
        PROVE  /\ period'.now = period.now /\ Actions \subseteq DOMAIN period'.action
               /\ \A x \in DOMAIN period'.action :
                    \/ x \notin Actions /\ period'.action[x].created = period.now
                    \/ x \in Actions /\ period'.action[x] = period.action[x]
                    \/ x \in Actions /\ period'.action[x].date # period.action[x].date
    BY <1>2, <1>5, <1>7
  <1>8. CASE \E a \in Action : \E d \in {0, 1} : CreateAction(a, d) \/ reschedule(a, d)
    <2>1. PICK a \in Action, d \in {0, 1} : CreateAction(a, d) \/ reschedule(a, d)
      BY <1>8
    <2>2. QED
      BY <1>1, <1>7, <2>1
  <1>9. CASE \E a \in Action : \E new \in Status : checkin(a, new)
    <2>1. PICK a \in Action, new \in Status : checkin(a, new)
      BY <1>9
    <2>2. /\ period'.now = period.now /\ DOMAIN period'.action = Actions /\ a \in Actions
          /\ \A x \in Actions : x # a => period'.action[x] = period.action[x]
      BY <1>3, <2>1
    <2>3. PICK r \in CheckinRow : r.at = period.now /\
            period'.action[a] = [period.action[a] EXCEPT !.checkins = Append(@, r)]
      BY <1>3, <2>1
    <2>4. r.at > PeriodEnd
      BY <2>3
    <2>5. QED
      BY <1>1, <2>2, <2>3, <2>4
  <1>10. CASE \E a \in Action : cancel(a)
    <2>1. PICK a \in Action : cancel(a)
      BY <1>10
    <2>2. QED
      BY <1>1, <1>4, <2>1
  <1>11. CASE Tick
    BY <1>1, <1>6, <1>11
  <1>12. QED
    BY <1>8, <1>9, <1>10, <1>11 DEF NextPeriod

(* A closed period keeps its Completion Rate: it is evaluated as of its end,  *)
(* where no later check-in, cancellation or new action is visible.            *)
THEOREM RateIsFinal == Spec => ClosedPeriodKept
  <1> DEFINE Kept == subject = "period" /\ period.now > PeriodEnd
                       /\ (\A a \in Actions : period'.action[a].date = period.action[a].date) =>
                       completion_rate(period') = completion_rate(period)
  <1>1. PeriodInv /\ PeriodInv' /\ [Next]_vars => [Kept]_vars
    <2> SUFFICES ASSUME PeriodInv, PeriodInv', Next, subject = "period", period.now > PeriodEnd,
                        \A a \in Actions : period'.action[a].date = period.action[a].date
                 PROVE  completion_rate(period') = completion_rate(period)
      OBVIOUS
    <2>0. PeriodType /\ Histories /\ Histories'
      BY DEF PeriodInv
    <2>1. NextPeriod
      BY DEF Next
    <2>2. PeriodEnd \in Nat /\ MaxTime \in Nat
      BY ReportAssumption DEF PeriodEnd
    <2>3. period.now \in Nat /\ period.action \in [Actions -> ActionRow] /\ DOMAIN period.action = Actions
      BY <2>0, <2>2 DEF PeriodType
    <2>4. ASSUME NEW x \in DOMAIN period'.action, NEW s \in Status
          PROVE  CountedAs(period'.action, x, s) <=> x \in Actions /\ CountedAs(period.action, x, s)
      <3>1. CASE x \notin Actions
        <4>1. period'.action[x].created > PeriodEnd
          BY <2>1, <3>1, ClosedStep
        <4>2. period'.action[x].created \in Nat
          BY DEF PeriodInv, PeriodType, Actions, ActionRow
        <4>3. QED
          BY <2>2, <3>1, <4>1, <4>2 DEF CountedAs, Counted
      <3>2. CASE x \in Actions /\ period'.action[x] = period.action[x]
        BY <3>2 DEF CountedAs
      <3>3. ASSUME x \in Actions, NEW r \in CheckinRow, r.at > PeriodEnd,
                   period'.action[x] = [period.action[x] EXCEPT !.checkins = Append(@, r)]
            PROVE  CountedAs(period'.action, x, s) <=> CountedAs(period.action, x, s)
        <4> DEFINE old == period.action[x]
                   new == period'.action[x]
        <4>1. /\ new.date = old.date /\ new.created = old.created /\ new.cancelled = old.cancelled
              /\ new.checkins = Append(old.checkins, r)
          BY <2>3, <3>3 DEF ActionRow
        <4>2. History(old.checkins)
          BY <2>0, <3>3 DEF Histories
        <4>3. History(new.checkins)
          BY <2>0, <2>4 DEF Histories, Actions
        <4> HIDE DEF old, new
        <4>4. status_as_of(new.checkins, PeriodEnd) = status_as_of(old.checkins, PeriodEnd)
          BY <2>2, <3>3, <4>1, <4>2, <4>3, LaterUnseen
        <4>5. QED
          BY <4>1, <4>4 DEF CountedAs, Counted, old, new
      <3>4. ASSUME x \in Actions, period.action[x].cancelled = NotYet, NEW t \in Nat, t > PeriodEnd,
                   period'.action[x] = [period.action[x] EXCEPT !.cancelled = t]
            PROVE  CountedAs(period'.action, x, s) <=> CountedAs(period.action, x, s)
        <4> DEFINE old == period.action[x]
                   new == period'.action[x]
        <4>1. /\ new.date = old.date /\ new.created = old.created /\ new.checkins = old.checkins
              /\ new.cancelled = t /\ old.cancelled = NotYet
          BY <2>3, <3>4 DEF ActionRow
        <4> HIDE DEF old, new
        <4>2. Counted(new, 0, 0, PeriodEnd) <=> Counted(old, 0, 0, PeriodEnd)
          BY <2>2, <3>4, <4>1 DEF Counted
        <4>3. QED
          BY <4>1, <4>2 DEF CountedAs, old, new
      <3>5. QED
        BY <2>1, <2>4, <3>1, <3>2, <3>3, <3>4, ClosedStep
    <2>5. \A s \in Status : {x \in DOMAIN period'.action : CountedAs(period'.action, x, s)}
                            = {x \in DOMAIN period.action : CountedAs(period.action, x, s)}
      BY <2>1, <2>3, <2>4, ClosedStep
    <2>6. QED
      BY <2>1, <2>3, <2>5, ClosedStep, SameRate
  <1>2. QED
    BY <1>1, PeriodInvariantHolds, PTL DEF Spec, ClosedPeriodKept

-----------------------------------------------------------------------------
(* The streaks of a habit *)

(* The definition keeps its shape, the dates have results, and time goes on.  *)
HabitInv ==
    subject = "habit" =>
        /\ habit = [def |-> habit.def, records |-> habit.records, today |-> habit.today]
        /\ habit.def \in Definitions /\ habit.today \in Nat
        /\ habit.records \in [Date -> Outcome \cup {Nothing}]

LEMMA HabitStep ==
  ASSUME HabitInv, subject = "habit", NextHabit
  PROVE  /\ habit' = [def |-> habit'.def, records |-> habit'.records, today |-> habit'.today]
         /\ habit'.def \in Definitions /\ habit'.today \in Nat
         /\ habit'.records \in [Date -> Outcome \cup {Nothing}]
  <1>0. /\ habit = [def |-> habit.def, records |-> habit.records, today |-> habit.today]
        /\ habit.def \in Definitions /\ habit.today \in Nat /\ MaxDate \in Nat
        /\ habit.records \in [Date -> Outcome \cup {Nothing}]
    BY ReportAssumption DEF HabitInv
  <1>1. ASSUME NEW P, P \subseteq Int \X Int, habit' = [habit EXCEPT !.def.pauses = P]
        PROVE  /\ habit' = [def |-> habit'.def, records |-> habit'.records, today |-> habit'.today]
               /\ habit'.def \in Definitions /\ habit'.today \in Nat
               /\ habit'.records \in [Date -> Outcome \cup {Nothing}]
    <2>1. [habit.def EXCEPT !.pauses = P] \in Definitions
      BY <1>0, <1>1 DEF Definitions
    <2>2. habit' = [def |-> [habit.def EXCEPT !.pauses = P], records |-> habit.records, today |-> habit.today]
      BY <1>0, <1>1
    <2>3. QED
      BY <1>0, <2>1, <2>2
  <1>2. ASSUME NEW d, NEW result \in Outcome, record_occurrence(d, result)
        PROVE  /\ habit' = [def |-> habit'.def, records |-> habit'.records, today |-> habit'.today]
               /\ habit'.def \in Definitions /\ habit'.today \in Nat
               /\ habit'.records \in [Date -> Outcome \cup {Nothing}]
    <2>1. habit' = [def |-> habit.def, records |-> [habit.records EXCEPT ![d] = result],
                    today |-> habit.today]
      BY <1>0, <1>2 DEF record_occurrence
    <2>2. QED
      BY <1>0, <2>1
  <1>3. habit.def.pauses \subseteq Int \X Int
    BY <1>0 DEF Definitions
  <1>4. ASSUME NEW d \in 0..MaxDate, pause(d)
        PROVE  \E P \in SUBSET (Int \X Int) : habit' = [habit EXCEPT !.def.pauses = P]
    <2>1. <<d, Never>> \in Int \X Int
      BY <1>0 DEF Never
    <2>2. habit' = [habit EXCEPT !.def.pauses = habit.def.pauses \cup {<<d, Never>>}]
      BY <1>0, <1>4 DEF pause
    <2>3. QED
      BY <1>3, <2>1, <2>2
  <1>5. ASSUME resume
        PROVE  \E P \in SUBSET (Int \X Int) : habit' = [habit EXCEPT !.def.pauses = P]
    <2> DEFINE Ended(p) == (habit.def.pauses \ {p})
                             \cup (IF p[1] >= habit.today THEN {} ELSE {<<p[1], habit.today - 1>>})
    <2>1. PICK p \in OpenPauses : habit' = [habit EXCEPT !.def.pauses = Ended(p)]
      BY <1>0, <1>5 DEF resume
    <2>2. p \in Int \X Int
      BY <1>3 DEF OpenPauses
    <2>3. <<p[1], habit.today - 1>> \in Int \X Int
      BY <1>0, <2>2
    <2>4. Ended(p) \subseteq Int \X Int
      BY <1>3, <2>3
    <2>5. QED
      BY <2>1, <2>4
  <1>6. ASSUME NewDay
        PROVE  /\ habit' = [def |-> habit'.def, records |-> habit'.records, today |-> habit'.today]
               /\ habit'.def \in Definitions /\ habit'.today \in Nat
               /\ habit'.records \in [Date -> Outcome \cup {Nothing}]
    <2>1. habit' = [def |-> habit.def, records |-> habit.records, today |-> habit.today + 1]
      BY <1>0, <1>6 DEF NewDay
    <2>2. QED
      BY <1>0, <2>1
  <1>7. QED
    BY <1>1, <1>2, <1>4, <1>5, <1>6 DEF NextHabit

LEMMA HabitInvariantHolds == Spec => []HabitInv
  <1>1. Init => HabitInv
    <2> SUFFICES ASSUME Init, subject = "habit"
                 PROVE  /\ habit = [def |-> habit.def, records |-> habit.records, today |-> habit.today]
                        /\ habit.def \in Definitions /\ habit.today \in Nat
                        /\ habit.records \in [Date -> Outcome \cup {Nothing}]
      BY DEF HabitInv
    <2>1. PICK h \in Habits :
             habit = [def |-> h, records |-> [d \in Date |-> Nothing], today |-> h.first]
      BY DEF Init, InitHabit
    <2>2. h \in Definitions
      BY ReportAssumption
    <2>3. h.first \in Nat
      BY <2>2 DEF Definitions
    <2>4. QED
      BY <2>1, <2>2, <2>3
  <1>2. HabitInv /\ [Next]_vars => HabitInv'
    <2> SUFFICES ASSUME HabitInv, [Next]_vars PROVE HabitInv'
      OBVIOUS
    <2>1. CASE subject = "habit" /\ NextHabit /\ subject' = subject
      BY <2>1, HabitStep DEF HabitInv
    <2>2. CASE habit' = habit /\ subject' = subject
      BY <2>2 DEF HabitInv
    <2>3. CASE subject # "habit" /\ subject' = subject
      BY <2>3 DEF HabitInv
    <2>4. QED
      BY <2>1, <2>2, <2>3 DEF Next, vars
  <1>3. QED
    BY <1>1, <1>2, PTL DEF Spec

(* A set of naturals that is not empty has a least element.                   *)
LEMMA LeastOf ==
  ASSUME NEW T, T \subseteq Nat, T # {}
  PROVE  \E x \in T : \A y \in T : x <= y
  <1> DEFINE R == OpToRel(<, Nat)
  <1>1. \A a, b \in Nat : <<a, b>> \in R <=> a < b
    BY DEF OpToRel
  <1>2. IsWellFoundedOn(R, Nat)
    BY NatLessThanWellFounded
  <1> HIDE DEF R
  <1>3. PICK x \in T : \A y \in T : ~ (<<y, x>> \in R)
    BY <1>2, WFMin
  <1>4. \A y \in T : ~ (y < x) /\ y \in Nat /\ x \in Nat
    BY <1>1, <1>3
  <1>5. QED
    BY <1>4

(* The statistics of the periods up to today.                                 *)
StatSeq(s, today) ==
    /\ Len(s) \in Nat /\ DOMAIN s = 1..Len(s) /\ today \in Int
    /\ \A k \in 1..Len(s) :
         /\ s[k].completed \in Nat /\ s[k].required \in Nat /\ s[k].end \in Int
         /\ s[k].in_progress = (s[k].end >= today)

LEMMA StatsShape ==
  ASSUME NEW h \in Definitions, NEW records, NEW today \in Nat
  PROVE  StatSeq(Stats(h, records, today), today)
  <1> DEFINE p == _periods(h, today)
             start == IF period_kind(h) = "day" THEN h.first ELSE iso_week_start(h.first)
             n == (today - start) \div Step(h) + 1
  <1>1. h.first \in Nat /\ h.target \in Nat /\ Week \in Nat /\ Week > 0
    BY WeekAssumption DEF Definitions
  <1>2. Step(h) \in Nat /\ Step(h) > 0
    BY <1>1 DEF Step
  <1>3. start \in Int
    <2>1. iso_week_start(h.first) \in Int
      BY <1>1 DEF iso_week_start
    <2>2. QED
      BY <1>1, <2>1
  <1> HIDE DEF start
  <1>4. p \in Seq(Int)
    <2>1. CASE today < start
      <3>1. p = <<>>
        BY <2>1 DEF _periods, start
      <3>2. QED
        BY <3>1
    <2>2. CASE ~ (today < start)
      <3>1. n \in Nat
        BY <1>2, <1>3, <2>2
      <3>2. p = [i \in 1..n |-> start + (i - 1) * Step(h)]
        BY <2>2 DEF _periods, start
      <3>3. \A i \in 1..n : start + (i - 1) * Step(h) \in Int
        BY <1>2, <1>3
      <3> HIDE DEF p, n
      <3>4. QED
        BY <3>1, <3>2, <3>3
    <2>3. QED
      BY <2>1, <2>2
  <1>5. Stats(h, records, today) = [i \in 1..Len(p) |-> PeriodStat(h, records, today, p[i])]
    BY DEF Stats
  <1> HIDE DEF p
  <1>6. Len(p) \in Nat /\ \A i \in 1..Len(p) : p[i] \in Int
    BY <1>4
  <1>7. ASSUME NEW d \in Int
        PROVE  LET x == PeriodStat(h, records, today, d)
               IN  /\ x.completed \in Nat /\ x.required \in Nat /\ x.end \in Int
                   /\ x.in_progress = (x.end >= today)
    <2> DEFINE days == Days(h, d)
               done == {e \in days : e <= today /\ ~ is_paused(h, e) /\ records[e] = "completed"}
               due == {e \in days : is_scheduled(h, e)}
    <2>1. IsFiniteSet(days)
      BY <1>2, FS_Interval DEF Days
    <2>2. Cardinality(done) \in Nat /\ Cardinality(due) \in Nat
      <3> HIDE DEF days
      <3>1. IsFiniteSet(done) /\ IsFiniteSet(due)
        BY <2>1, FS_Subset
      <3>2. QED
        BY <3>1, FS_CardinalityType
    <2>3. PeriodStat(h, records, today, d)
          = [end |-> d + Step(h) - 1, completed |-> Cardinality(done),
             required |-> IF h.target <= Cardinality(due) THEN h.target ELSE Cardinality(due),
             in_progress |-> d + Step(h) - 1 >= today]
      BY DEF PeriodStat
    <2> HIDE DEF done, due
    <2>4. d + Step(h) - 1 \in Int
      BY <1>2
    <2>5. QED
      BY <1>1, <2>2, <2>3, <2>4
  <1>8. QED
    <2> DEFINE s == Stats(h, records, today)
    <2>1. Len(s) = Len(p) /\ DOMAIN s = 1..Len(p) /\ \A k \in 1..Len(p) : s[k] = PeriodStat(h, records, today, p[k])
      BY <1>5, <1>6
    <2> HIDE DEF s
    <2>2. \A k \in 1..Len(p) : /\ s[k].completed \in Nat /\ s[k].required \in Nat /\ s[k].end \in Int
                               /\ s[k].in_progress = (s[k].end >= today)
      BY <1>6, <1>7, <2>1
    <2>3. QED
      BY <1>6, <2>1, <2>2 DEF StatSeq, s

(* The met periods up to the i-th since the last one that broke a streak.     *)
Chain(s, i) ==
    {k \in 1..i : ~ Skipped(s[k]) /\ \A j \in k..i : Skipped(s[j]) \/ met(s[j])}

LEMMA ChainFinite ==
  ASSUME NEW s, NEW i \in Nat
  PROVE  /\ IsFiniteSet(Chain(s, i)) /\ Cardinality(Chain(s, i)) \in Nat
         /\ Chain(s, i) \subseteq 1..i
  <1>1. Chain(s, i) \subseteq 1..i
    BY DEF Chain
  <1>2. IsFiniteSet(1..i)
    BY FS_Interval
  <1>3. QED
    BY <1>1, <1>2, FS_Subset, FS_CardinalityType

(* What the loop of longest_streak() does with the i-th period.               *)
Looped(s, f, i) ==
    IF i = 0 THEN 0
    ELSE IF Skipped(s[i]) THEN f[i - 1]
    ELSE IF met(s[i]) THEN f[i - 1] + 1 ELSE 0

(* The loop counts the chain.                                                 *)
LEMMA ChainLoops ==
  ASSUME NEW s, NEW n \in Nat, NEW i \in 0..n,
         NEW f, \A j \in 0..n : f[j] = Cardinality(Chain(s, j))
  PROVE  Cardinality(Chain(s, i)) = Looped(s, f, i)
  <1>1. CASE i = 0
    <2>1. Chain(s, 0) = {}
      BY DEF Chain
    <2>2. QED
      BY <1>1, <2>1, FS_EmptySet DEF Looped
  <1>2. CASE i # 0
    <2>1. i - 1 \in 0..n /\ i - 1 \in Nat /\ i \in Nat /\ i \in i..i
      BY <1>2
    <2>2. f[i - 1] = Cardinality(Chain(s, i - 1))
      BY <2>1
    <2>3. \A k \in 1..i : k = i \/ k \in 1..(i - 1)
      BY <2>1
    <2>4. CASE Skipped(s[i])
      <3>1. Chain(s, i) = Chain(s, i - 1)
        <4>1. ASSUME NEW k \in Chain(s, i) PROVE k \in Chain(s, i - 1)
          <5>1. k \in 1..i /\ ~ Skipped(s[k]) /\ \A j \in k..i : Skipped(s[j]) \/ met(s[j])
            BY <4>1 DEF Chain
          <5>2. k \in 1..(i - 1)
            BY <2>3, <2>4, <5>1
          <5>3. \A j \in k..(i - 1) : j \in k..i
            BY <2>1, <5>2
          <5>4. QED
            BY <5>1, <5>2, <5>3 DEF Chain
        <4>2. ASSUME NEW k \in Chain(s, i - 1) PROVE k \in Chain(s, i)
          <5>1. k \in 1..(i - 1) /\ ~ Skipped(s[k]) /\ \A j \in k..(i - 1) : Skipped(s[j]) \/ met(s[j])
            BY <4>2 DEF Chain
          <5>2. k \in 1..i /\ \A j \in k..i : j = i \/ j \in k..(i - 1)
            BY <2>1, <5>1
          <5>3. QED
            BY <2>4, <5>1, <5>2 DEF Chain
        <4>3. QED
          BY <4>1, <4>2
      <3>2. QED
        BY <1>2, <2>2, <2>4, <3>1 DEF Looped
    <2>5. CASE ~ Skipped(s[i]) /\ met(s[i])
      <3>1. Chain(s, i) = Chain(s, i - 1) \cup {i}
        <4>1. ASSUME NEW k \in Chain(s, i) PROVE k \in Chain(s, i - 1) \cup {i}
          <5>1. k \in 1..i /\ ~ Skipped(s[k]) /\ \A j \in k..i : Skipped(s[j]) \/ met(s[j])
            BY <4>1 DEF Chain
          <5>2. CASE k \in 1..(i - 1)
            <6>1. \A j \in k..(i - 1) : j \in k..i
              BY <2>1, <5>2
            <6>2. QED
              BY <5>1, <5>2, <6>1 DEF Chain
          <5>3. QED
            BY <2>3, <5>1, <5>2
        <4>2. ASSUME NEW k \in Chain(s, i - 1) PROVE k \in Chain(s, i)
          <5>1. k \in 1..(i - 1) /\ ~ Skipped(s[k]) /\ \A j \in k..(i - 1) : Skipped(s[j]) \/ met(s[j])
            BY <4>2 DEF Chain
          <5>2. k \in 1..i /\ \A j \in k..i : j = i \/ j \in k..(i - 1)
            BY <2>1, <5>1
          <5>3. QED
            BY <2>5, <5>1, <5>2 DEF Chain
        <4>3. i \in Chain(s, i)
          <5>1. i \in 1..i /\ \A j \in i..i : j = i
            BY <2>1, <1>2
          <5>2. QED
            BY <2>5, <5>1 DEF Chain
        <4>4. QED
          BY <4>1, <4>2, <4>3
      <3>2. i \notin Chain(s, i - 1) /\ IsFiniteSet(Chain(s, i - 1))
        <4>1. i \notin 1..(i - 1)
          BY <2>1
        <4>2. QED
          BY <2>1, <4>1, ChainFinite
      <3>3. Cardinality(Chain(s, i)) = Cardinality(Chain(s, i - 1)) + 1
        BY <3>1, <3>2, FS_AddElement
      <3>4. QED
        BY <1>2, <2>2, <2>5, <3>3 DEF Looped
    <2>6. CASE ~ Skipped(s[i]) /\ ~ met(s[i])
      <3>1. Chain(s, i) = {}
        <4> SUFFICES ASSUME NEW k \in Chain(s, i) PROVE FALSE
          OBVIOUS
        <4>1. k \in 1..i /\ \A j \in k..i : Skipped(s[j]) \/ met(s[j])
          BY DEF Chain
        <4>2. i \in k..i
          BY <2>1, <4>1
        <4>3. QED
          BY <2>6, <4>1, <4>2
      <3>2. QED
        BY <1>2, <2>6, <3>1, FS_EmptySet DEF Looped
    <2>7. QED
      BY <2>4, <2>5, <2>6
  <1>3. QED
    BY <1>1, <1>2

(* So it computes that function and no other.                                 *)
LEMMA LoopIsChain ==
  ASSUME NEW s, Len(s) \in Nat, NEW f, f = [i \in 0..Len(s) |-> Looped(s, f, i)]
  PROVE  f = [i \in 0..Len(s) |-> Cardinality(Chain(s, i))]
  <1> DEFINE n == Len(s)
             g == [i \in 0..n |-> Cardinality(Chain(s, i))]
             T == {i \in 0..n : f[i] # g[i]}
  <1>1. \A j \in 0..n : g[j] = Cardinality(Chain(s, j))
    OBVIOUS
  <1>2. \A i \in 0..n : g[i] = Looped(s, g, i)
    <2> HIDE DEF g, n
    <2>1. n \in Nat
      BY DEF n
    <2>2. QED
      BY <1>1, <2>1, ChainLoops
  <1>3. \A i \in 0..n : f[i] = Looped(s, f, i)
    OBVIOUS
  <1>4. n \in Nat
    OBVIOUS
  <1>5. T = {}
    <2> HIDE DEF g, n
    <2> SUFFICES ASSUME T # {} PROVE FALSE
      OBVIOUS
    <2>1. T \subseteq Nat
      BY <1>4
    <2>2. PICK i \in T : \A j \in T : i <= j
      BY <2>1, LeastOf
    <2>3. i \in 0..n /\ f[i] # g[i]
      BY <2>2
    <2>4. CASE i = 0
      BY <1>2, <1>3, <2>3, <2>4 DEF Looped
    <2>5. CASE i # 0
      <3>1. i - 1 \in 0..n /\ ~ (i <= i - 1)
        BY <1>4, <2>3, <2>5
      <3>2. f[i - 1] = g[i - 1]
        BY <2>2, <3>1
      <3>3. QED
        BY <1>2, <1>3, <2>3, <3>2 DEF Looped
    <2>6. QED
      BY <2>4, <2>5
  <1>6. QED
    BY <1>5

(* longest_streak() is the length of the longest chain.                       *)
LEMMA LongestIsChain ==
  ASSUME NEW s, Len(s) \in Nat
  PROVE  /\ \E i \in 0..Len(s) : longest_streak(s) = Cardinality(Chain(s, i))
         /\ \A i \in 0..Len(s) : Cardinality(Chain(s, i)) <= longest_streak(s)
  <1> DEFINE n == Len(s)
             g == [i \in 0..n |-> Cardinality(Chain(s, i))]
             run == CHOOSE f : f = [i \in 0..n |-> Looped(s, f, i)]
  <1>1. \A j \in 0..n : g[j] = Cardinality(Chain(s, j))
    OBVIOUS
  <1>2. g = [i \in 0..n |-> Looped(s, g, i)]
    <2>1. \A i \in 0..n : Cardinality(Chain(s, i)) = Looped(s, g, i)
      <3> HIDE DEF g, n
      <3>1. n \in Nat
        BY DEF n
      <3>2. QED
        BY <1>1, <3>1, ChainLoops
    <2>2. QED
      BY <2>1
  <1>3. run = [i \in 0..n |-> Looped(s, run, i)]
    <2> HIDE DEF g
    <2>1. QED
      BY <1>2
  <1>4. longest_streak(s) = CHOOSE x \in Range(run) : \A i \in DOMAIN run : run[i] <= x
    BY DEF longest_streak, Looped
  <1> HIDE DEF run
  <1>5. run = g
    BY <1>3, LoopIsChain
  <1>6. n \in Nat /\ \A i \in 0..n : g[i] \in Nat /\ g[i] <= n
    <2>1. ASSUME NEW i \in 0..n PROVE Cardinality(Chain(s, i)) \in Nat /\ Cardinality(Chain(s, i)) <= n
      <3>1. i \in Nat /\ Chain(s, i) \subseteq 1..i
        BY ChainFinite
      <3>2. Chain(s, i) \subseteq 1..n /\ IsFiniteSet(1..n) /\ Cardinality(1..n) = n
        <4>1. 1..i \subseteq 1..n
          BY <3>1
        <4>2. IsFiniteSet(1..n) /\ Cardinality(1..n) = n
          <5> HIDE DEF n
          <5>1. n \in Nat
            BY DEF n
          <5>2. IsFiniteSet(1..n) /\ Cardinality(1..n) = IF 1 > n THEN 0 ELSE n - 1 + 1
            BY <5>1, FS_Interval
          <5>3. QED
            BY <5>1, <5>2
        <4>3. QED
          BY <3>1, <4>1, <4>2
      <3> HIDE DEF n
      <3>3. Cardinality(Chain(s, i)) <= n
        BY <3>2, FS_Subset
      <3>4. QED
        BY <3>1, <3>3, ChainFinite
    <2>2. QED
      BY <2>1
  <1> DEFINE D == {n - g[i] : i \in 0..n}
  <1>7. PICK m \in 0..n : \A i \in 0..n : g[i] <= g[m]
    <2> HIDE DEF n, g
    <2>1. D \subseteq Nat /\ D # {}
      <3>1. \A i \in 0..n : n - g[i] \in Nat
        BY <1>6
      <3>2. 0 \in 0..n
        BY <1>6
      <3>3. QED
        BY <3>1, <3>2
    <2>2. PICK x \in D : \A y \in D : x <= y
      BY <2>1, LeastOf
    <2>3. PICK m \in 0..n : x = n - g[m]
      BY <2>2
    <2>4. \A i \in 0..n : n - g[m] <= n - g[i]
      BY <2>2, <2>3
    <2>5. \A i \in 0..n : g[i] <= g[m]
      BY <1>6, <2>4
    <2>6. QED
      BY <2>5
  <1>8. Range(g) = {g[i] : i \in 0..n} /\ DOMAIN g = 0..n
    BY DEF Range
  <1> HIDE DEF g
  <1>9. \E x \in Range(g) : \A i \in DOMAIN g : g[i] <= x
    BY <1>7, <1>8
  <1>10. longest_streak(s) \in Range(g) /\ \A i \in DOMAIN g : g[i] <= longest_streak(s)
    BY <1>4, <1>5, <1>9
  <1>11. QED
    BY <1>1, <1>8, <1>10

(* The periods that count, and those of them that were met.                   *)
LEMMA CountedMet ==
  ASSUME NEW s, NEW today, StatSeq(s, today), NEW k \in 1..Len(s)
  PROVE  /\ s[k].required > 0 /\ (s[k].completed >= s[k].required \/ s[k].end < today)
              <=> ~ Skipped(s[k])
         /\ ~ Skipped(s[k]) => (met(s[k]) <=> s[k].completed >= s[k].required)
  <1>1. /\ s[k].completed \in Nat /\ s[k].required \in Nat /\ s[k].end \in Int /\ today \in Int
        /\ s[k].in_progress = (s[k].end >= today)
    BY DEF StatSeq
  <1>2. s[k].end < today <=> ~ (s[k].end >= today)
    BY <1>1
  <1>3. s[k].required > 0 <=> ~ (s[k].required = 0)
    BY <1>1
  <1>4. Skipped(s[k]) <=> \/ s[k].required = 0
                          \/ (s[k].end >= today) /\ ~ (s[k].completed >= s[k].required)
    BY <1>1, Zenon DEF Skipped, excluded, met
  <1>5. met(s[k]) <=> ~ (s[k].required = 0) /\ s[k].completed >= s[k].required
    BY DEF met, excluded
  <1>6. QED
    BY <1>2, <1>3, <1>4, <1>5, Zenon

(* current_streak() counts the chain at the end.                              *)
LEMMA CurrentIsChain ==
  ASSUME NEW s, Len(s) \in Nat, DOMAIN s = 1..Len(s)
  PROVE  current_streak(s) = Cardinality(Chain(s, Len(s)))
  <1> DEFINE n == Len(s)
             S == {i \in DOMAIN s : /\ met(s[i]) /\ ~ Skipped(s[i])
                                    /\ \A j \in i..n : met(s[j]) \/ Skipped(s[j])}
  <1>1. current_streak(s) = Cardinality(S)
    BY DEF current_streak
  <1>2. S = Chain(s, n)
    <2>1. ASSUME NEW k \in Chain(s, n) PROVE k \in S
      <3>1. k \in 1..n /\ ~ Skipped(s[k]) /\ \A j \in k..n : Skipped(s[j]) \/ met(s[j])
        BY <2>1 DEF Chain
      <3>2. k \in k..n
        BY <3>1
      <3>3. QED
        BY <3>1, <3>2
    <2>2. ASSUME NEW k \in S PROVE k \in Chain(s, n)
      BY <2>2 DEF Chain
    <2>3. QED
      BY <2>1, <2>2
  <1>3. QED
    BY <1>1, <1>2

(* The runs of met periods among those that count, and their lengths.         *)
CountedPlaces(s) == {k \in 1..Len(s) : ~ Skipped(s[k])}
PlacesBetween(s, i, j) == {k \in CountedPlaces(s) : i <= k /\ k <= j}
RunLengths(s, J) ==
    {0} \cup {Cardinality(PlacesBetween(s, x[1], x[2])) :
                x \in {x \in (1..Len(s)) \X J : \A k \in PlacesBetween(s, x[1], x[2]) : met(s[k])}}

(* A run that ends at j is part of the chain at j, which is a run.            *)
LEMMA RunsAreChains ==
  ASSUME NEW s, Len(s) \in Nat, NEW J, J \subseteq 1..Len(s)
  PROVE  /\ \A j \in J : Cardinality(Chain(s, j)) \in RunLengths(s, J)
         /\ \A y \in RunLengths(s, J) : y = 0 \/ \E j \in J : y <= Cardinality(Chain(s, j))
  <1> DEFINE n == Len(s)
  <1>1. ASSUME NEW j \in J PROVE Cardinality(Chain(s, j)) \in RunLengths(s, J)
    <2>0. j \in 1..n /\ j \in Nat
      OBVIOUS
    <2>1. CASE Chain(s, j) = {}
      BY <2>1, FS_EmptySet DEF RunLengths
    <2>2. CASE Chain(s, j) # {}
      <3>1. Chain(s, j) \subseteq 1..j /\ Chain(s, j) \subseteq Nat
        BY <2>0, ChainFinite
      <3>2. PICK i \in Chain(s, j) : \A k \in Chain(s, j) : i <= k
        BY <2>2, <3>1, LeastOf
      <3>3. i \in 1..j /\ i \in 1..n /\ \A k \in i..j : Skipped(s[k]) \/ met(s[k])
        BY <2>0, <3>2 DEF Chain
      <3>4. PlacesBetween(s, i, j) = Chain(s, j)
        <4>1. ASSUME NEW k \in Chain(s, j) PROVE k \in PlacesBetween(s, i, j)
          <5>1. k \in 1..j /\ ~ Skipped(s[k]) /\ i <= k
            BY <3>2, <4>1 DEF Chain
          <5>2. QED
            BY <2>0, <5>1 DEF PlacesBetween, CountedPlaces
        <4>2. ASSUME NEW k \in PlacesBetween(s, i, j) PROVE k \in Chain(s, j)
          <5>1. k \in 1..n /\ ~ Skipped(s[k]) /\ i <= k /\ k <= j
            BY <4>2 DEF PlacesBetween, CountedPlaces
          <5>2. k \in 1..j /\ \A l \in k..j : l \in i..j
            BY <2>0, <3>3, <5>1
          <5>3. QED
            BY <3>3, <5>1, <5>2 DEF Chain
        <4>3. QED
          BY <4>1, <4>2
      <3>5. \A k \in PlacesBetween(s, i, j) : met(s[k])
        <4> SUFFICES ASSUME NEW k \in PlacesBetween(s, i, j) PROVE met(s[k])
          OBVIOUS
        <4>1. k \in 1..n /\ ~ Skipped(s[k]) /\ i <= k /\ k <= j
          BY DEF PlacesBetween, CountedPlaces
        <4>2. k \in i..j
          BY <2>0, <3>3, <4>1
        <4>3. QED
          BY <3>3, <4>1, <4>2
      <3> DEFINE x == <<i, j>>
      <3>6. x \in (1..n) \X J /\ x[1] = i /\ x[2] = j
        BY <3>3
      <3> HIDE DEF x
      <3>7. Cardinality(PlacesBetween(s, x[1], x[2])) \in RunLengths(s, J)
        BY <3>5, <3>6 DEF RunLengths
      <3>8. QED
        BY <3>4, <3>6, <3>7
    <2>3. QED
      BY <2>1, <2>2
  <1>2. ASSUME NEW y \in RunLengths(s, J), y # 0
        PROVE  \E j \in J : y <= Cardinality(Chain(s, j))
    <2>1. PICK x \in (1..n) \X J : /\ y = Cardinality(PlacesBetween(s, x[1], x[2]))
                                   /\ \A k \in PlacesBetween(s, x[1], x[2]) : met(s[k])
      BY <1>2 DEF RunLengths
    <2> DEFINE i == x[1]
               j == x[2]
    <2>2. i \in 1..n /\ j \in J /\ j \in 1..n /\ j \in Nat
      <3>1. x[1] \in 1..n /\ x[2] \in J
        OBVIOUS
      <3>2. x[2] \in 1..n
        BY <3>1, Zenon
      <3>3. \A k \in 1..n : k \in Nat
        OBVIOUS
      <3>4. QED
        BY <3>1, <3>2, <3>3, Zenon
    <2>3. y = Cardinality(PlacesBetween(s, i, j)) /\ \A k \in PlacesBetween(s, i, j) : met(s[k])
      BY <2>1
    <2> HIDE DEF i, j
    <2>4. PlacesBetween(s, i, j) \subseteq Chain(s, j)
      <3> SUFFICES ASSUME NEW k \in PlacesBetween(s, i, j) PROVE k \in Chain(s, j)
        OBVIOUS
      <3>1. k \in 1..n /\ ~ Skipped(s[k]) /\ i <= k /\ k <= j
        BY DEF PlacesBetween, CountedPlaces
      <3>2. \A l \in k..j : l \in 1..n /\ i <= l /\ l <= j
        BY <2>2, <3>1
      <3>3. \A l \in k..j : Skipped(s[l]) \/ met(s[l])
        BY <2>3, <3>2 DEF PlacesBetween, CountedPlaces
      <3>4. k \in 1..j
        BY <2>2, <3>1
      <3>5. QED
        BY <3>1, <3>3, <3>4 DEF Chain
    <2>5. Cardinality(PlacesBetween(s, i, j)) <= Cardinality(Chain(s, j))
      BY <2>2, <2>4, ChainFinite, FS_Subset
    <2>6. QED
      BY <2>2, <2>3, <2>5
  <1>3. QED
    BY <1>1, <1>2

(* The greatest of a set is the member no other exceeds.                      *)
Top(S) == CHOOSE x \in S : \A y \in S : y <= x

LEMMA TopIs ==
  ASSUME NEW S, NEW m \in S, m \in Nat, S \subseteq Nat, \A y \in S : y <= m
  PROVE  Top(S) = m
  <1> DEFINE t == CHOOSE x \in S : \A y \in S : y <= x
  <1>1. t \in S /\ \A y \in S : y <= t
    OBVIOUS
  <1>2. t \in Nat /\ t <= m /\ m <= t
    BY <1>1
  <1> HIDE DEF t
  <1>3. t = m
    BY <1>2
  <1>4. QED
    BY <1>3 DEF t, Top

LEMMA RunLengthsNat ==
  ASSUME NEW s, Len(s) \in Nat, NEW J
  PROVE  RunLengths(s, J) \subseteq Nat
  <1>1. IsFiniteSet(1..Len(s))
    BY FS_Interval
  <1>2. \A i, j : Cardinality(PlacesBetween(s, i, j)) \in Nat
    <2> TAKE i, j
    <2>1. PlacesBetween(s, i, j) \subseteq 1..Len(s)
      BY DEF PlacesBetween, CountedPlaces
    <2>2. QED
      BY <1>1, <2>1, FS_Subset, FS_CardinalityType
  <1>3. QED
    BY <1>2 DEF RunLengths

LEMMA StreaksOf ==
  ASSUME NEW s, Len(s) \in Nat, DOMAIN s = 1..Len(s)
  PROVE  /\ current_streak(s) = Top(RunLengths(s, {Len(s)} \cap 1..Len(s)))
         /\ longest_streak(s) = Top(RunLengths(s, 1..Len(s)))
  <1> DEFINE n == Len(s)
             c(j) == Cardinality(Chain(s, j))
  <1>1. \A j \in 0..n : c(j) \in Nat
    BY ChainFinite
  <1>2. \A J : 0 \in RunLengths(s, J)
    BY DEF RunLengths
  <1>3. c(0) = 0
    <2>1. Chain(s, 0) = {}
      BY DEF Chain
    <2>2. QED
      BY <2>1, FS_EmptySet
  <1>4. current_streak(s) = Top(RunLengths(s, {n} \cap 1..n))
    <2> DEFINE J == {n} \cap 1..n
               S == RunLengths(s, J)
    <2>0. J \subseteq 1..n /\ S \subseteq Nat
      BY RunLengthsNat
    <2>1. current_streak(s) = c(n) /\ c(n) \in Nat
      BY <1>1, CurrentIsChain
    <2>2. c(n) \in S
      <3>1. CASE n = 0
        BY <1>2, <1>3, <3>1
      <3>2. CASE n # 0
        <4>1. n \in J
          BY <3>2
        <4>2. QED
          BY <2>0, <4>1, RunsAreChains
      <3>3. QED
        BY <3>1, <3>2
    <2>3. \A y \in S : y <= c(n)
      <3> SUFFICES ASSUME NEW y \in S PROVE y <= c(n)
        OBVIOUS
      <3>1. y = 0 \/ \E j \in J : y <= c(j)
        BY <2>0, RunsAreChains
      <3>2. \A j \in J : j = n
        OBVIOUS
      <3> HIDE DEF J, S, c
      <3>3. QED
        BY <2>1, <3>1, <3>2
    <2> HIDE DEF S, c
    <2>4. Top(S) = c(n)
      BY <2>0, <2>1, <2>2, <2>3, TopIs
    <2>5. QED
      BY <2>1, <2>4 DEF S
  <1>5. longest_streak(s) = Top(RunLengths(s, 1..n))
    <2> DEFINE S == RunLengths(s, 1..n)
               m == longest_streak(s)
    <2>0. S \subseteq Nat
      BY RunLengthsNat
    <2>1. PICK i \in 0..n : m = c(i)
      BY LongestIsChain
    <2>2. \A j \in 0..n : c(j) <= m
      BY LongestIsChain
    <2>3. m \in Nat
      BY <1>1, <2>1
    <2>4. m \in S
      <3>1. CASE i = 0
        BY <1>2, <1>3, <2>1, <3>1
      <3>2. CASE i # 0
        <4>1. i \in 1..n
          BY <3>2
        <4>2. c(i) \in S
          BY <4>1, RunsAreChains
        <4>3. QED
          BY <2>1, <4>2
      <3>3. QED
        BY <3>1, <3>2
    <2>5. \A y \in S : y <= m
      <3> SUFFICES ASSUME NEW y \in S PROVE y <= m
        OBVIOUS
      <3>1. y = 0 \/ \E j \in 1..n : y <= c(j)
        BY RunsAreChains
      <3>2. \A j \in 1..n : j \in 0..n
        OBVIOUS
      <3>3. y \in Nat
        BY <2>0
      <3> HIDE DEF S, m, c, n
      <3>4. QED
        BY <1>1, <2>2, <2>3, <3>1, <3>2, <3>3
    <2> HIDE DEF S, m, c
    <2>6. Top(S) = m
      BY <2>0, <2>3, <2>4, <2>5, TopIs
    <2>7. QED
      BY <2>6 DEF S, m
  <1>6. QED
    BY <1>4, <1>5

(* The lengths as the property has them.                                      *)
LengthsOf(s, today, J) ==
    LET n == Len(s)
        Met(k) == s[k].completed >= s[k].required
        counted == {k \in 1..n : s[k].required > 0 /\ (Met(k) \/ s[k].end < today)}
        Between(i, j) == {k \in counted : i <= k /\ k <= j}
    IN  {0} \cup {Cardinality(Between(x[1], x[2])) :
                    x \in {x \in (1..n) \X J : \A k \in Between(x[1], x[2]) : Met(k)}}

LEMMA LengthsAre ==
  ASSUME NEW s, NEW today, StatSeq(s, today), NEW J
  PROVE  LengthsOf(s, today, J) = RunLengths(s, J)
  <1> DEFINE n == Len(s)
             Met(k) == s[k].completed >= s[k].required
             counted == {k \in 1..n : s[k].required > 0 /\ (Met(k) \/ s[k].end < today)}
             Between(i, j) == {k \in counted : i <= k /\ k <= j}
  <1>1. counted = CountedPlaces(s)
    BY CountedMet DEF CountedPlaces
  <1> HIDE DEF counted
  <1>2. \A i, j : Between(i, j) = PlacesBetween(s, i, j)
    BY <1>1 DEF PlacesBetween
  <1>3. \A i, j : \A k \in PlacesBetween(s, i, j) : met(s[k]) <=> Met(k)
    <2> TAKE i, j
    <2> TAKE k \in PlacesBetween(s, i, j)
    <2>1. k \in 1..Len(s) /\ ~ Skipped(s[k])
      BY DEF PlacesBetween, CountedPlaces
    <2>2. QED
      BY <2>1, CountedMet
  <1> HIDE DEF Between, Met
  <1>4. {x \in (1..n) \X J : \A k \in Between(x[1], x[2]) : Met(k)}
        = {x \in (1..n) \X J : \A k \in PlacesBetween(s, x[1], x[2]) : met(s[k])}
    BY <1>2, <1>3
  <1>5. RunLengths(s, J) =
          {0} \cup {Cardinality(Between(x[1], x[2])) :
                      x \in {x \in (1..n) \X J : \A k \in Between(x[1], x[2]) : Met(k)}}
    BY <1>2, <1>4 DEF RunLengths
  <1>6. QED
    BY <1>5 DEF Between, Met, counted, LengthsOf

(* The streaks compute_metrics() reports are what they are called: among the  *)
(* periods that count, the longest run of met ones and the run at the end.    *)
THEOREM StreaksHold == Spec => []StreaksAreRuns
  <1>1. HabitInv => StreaksAreRuns
    <2> SUFFICES ASSUME HabitInv, subject = "habit" PROVE StreaksAreRuns
      BY DEF StreaksAreRuns
    <2> DEFINE s == Stats(habit.def, habit.records, habit.today)
    <2>1. StatSeq(s, habit.today)
      BY StatsShape DEF HabitInv
    <2>2. metrics(habit).current = current_streak(s) /\ metrics(habit).longest = longest_streak(s)
      BY DEF metrics, compute_metrics
    <2> DEFINE n == Len(s)
    <2>3. StreaksAreRuns <=>
            /\ metrics(habit).current = Top(LengthsOf(s, habit.today, {n} \cap 1..n))
            /\ metrics(habit).longest = Top(LengthsOf(s, habit.today, 1..n))
      BY DEF StreaksAreRuns, Top, LengthsOf
    <2> HIDE DEF s
    <2>4. \A J : LengthsOf(s, habit.today, J) = RunLengths(s, J)
      BY <2>1, LengthsAre
    <2>5. /\ current_streak(s) = Top(RunLengths(s, {n} \cap 1..n))
          /\ longest_streak(s) = Top(RunLengths(s, 1..n))
      <3>1. Len(s) \in Nat /\ DOMAIN s = 1..Len(s)
        BY <2>1 DEF StatSeq
      <3>2. QED
        BY <3>1, StreaksOf
    <2>6. QED
      BY <2>2, <2>3, <2>4, <2>5
  <1>2. QED
    BY <1>1, HabitInvariantHolds, PTL

(* The first period begins at First, and the last one holds today.            *)
First(h) == IF period_kind(h) = "day" THEN h.first ELSE iso_week_start(h.first)

LEMMA Product ==
  ASSUME NEW x \in Int, NEW y \in Int, x <= y, NEW b \in Nat
  PROVE  x * b <= y * b
  <1>1. (y - x) * b >= 0
    OBVIOUS
  <1>2. y * b = x * b + (y - x) * b
    OBVIOUS
  <1>3. x * b \in Int /\ y * b \in Int /\ (y - x) * b \in Int
    OBVIOUS
  <1>4. QED
    BY <1>1, <1>2, <1>3

LEMMA Quotient ==
  ASSUME NEW a \in Nat, NEW b \in Nat, b > 0
  PROVE  a \div b \in Nat /\ (a \div b) * b <= a /\ a < (a \div b + 1) * b
  OBVIOUS

LEMMA PeriodsShape ==
  ASSUME NEW h \in Definitions, NEW t \in Nat
  PROVE  /\ Step(h) \in Nat /\ Step(h) > 0 /\ First(h) \in Int /\ First(h) + Step(h) > 0
         /\ Len(_periods(h, t)) \in Nat /\ _periods(h, t) \in Seq(Int)
         /\ \A k \in 1..Len(_periods(h, t)) :
              _periods(h, t)[k] = First(h) + (k - 1) * Step(h) /\ _periods(h, t)[k] <= t
         /\ First(h) + Len(_periods(h, t)) * Step(h) > t
  <1> DEFINE p == _periods(h, t)
             f == First(h)
             b == Step(h)
             q == (t - f) \div b
  <1>1. h.first \in Nat /\ Week \in Nat /\ Week > 0
    BY WeekAssumption DEF Definitions
  <1>2. b \in Nat /\ b > 0
    BY <1>1 DEF Step
  <1>3. f \in Int /\ f + b > 0
    <2>1. CASE period_kind(h) = "day"
      <3>1. f = h.first
        BY <2>1 DEF First
      <3>2. QED
        BY <1>1, <1>2, <3>1
    <2>2. CASE period_kind(h) # "day"
      <3>1. f = h.first - (h.first % Week) /\ b = Week
        BY <2>2 DEF First, iso_week_start, Step
      <3>2. h.first % Week \in Int /\ h.first % Week < Week
        BY <1>1
      <3>3. QED
        BY <1>1, <3>1, <3>2
    <2>3. QED
      BY <2>1, <2>2
  <1> HIDE DEF f, b
  <1>4. CASE t < f
    <2>1. p = <<>>
      BY <1>4 DEF _periods, First, f
    <2> HIDE DEF p
    <2>2. p \in Seq(Int) /\ Len(p) = 0
      BY <2>1
    <2>3. f + Len(p) * b > t
      BY <1>2, <1>3, <1>4, <2>2
    <2>4. QED
      BY <1>2, <1>3, <2>2, <2>3 DEF f, b, p
  <1>5. CASE ~ (t < f)
    <2>1. p = [i \in 1..(q + 1) |-> f + (i - 1) * b]
      BY <1>5 DEF _periods, First, f, b
    <2>2. t - f \in Nat
      BY <1>3, <1>5
    <2>3. q \in Nat /\ q * b <= t - f /\ t - f < (q + 1) * b
      BY <1>2, <2>2, Quotient
    <2> HIDE DEF q, p
    <2>4. \A i \in 1..(q + 1) : f + (i - 1) * b \in Int
      BY <1>2, <1>3
    <2>5. p \in Seq(Int) /\ Len(p) = q + 1 /\ \A i \in 1..(q + 1) : p[i] = f + (i - 1) * b
      BY <2>1, <2>3, <2>4
    <2>6. ASSUME NEW i \in 1..(q + 1) PROVE p[i] <= t
      <3>1. i - 1 \in Int /\ i - 1 <= q /\ q \in Int
        BY <2>3
      <3>2. (i - 1) * b <= q * b
        BY <1>2, <3>1, Product
      <3>3. (i - 1) * b \in Int /\ q * b \in Int
        BY <1>2, <3>1
      <3>4. QED
        BY <1>3, <2>3, <2>5, <3>2, <3>3
    <2>7. f + Len(p) * b > t
      <3>1. (q + 1) * b \in Int
        BY <1>2, <2>3
      <3>2. QED
        BY <1>3, <2>3, <2>5, <3>1
    <2>8. QED
      BY <1>2, <1>3, <2>3, <2>5, <2>6, <2>7 DEF f, b, p
  <1>6. QED
    BY <1>4, <1>5

LEMMA MetIsNotSkipped ==
  ASSUME NEW x, met(x)
  PROVE  ~ Skipped(x)
  BY Zenon DEF met, Skipped

(* A period is as good with y as with x: met if it was, and it breaks no      *)
(* streak if it did not.                                                      *)
AsGood(x, y) ==
    /\ met(x) => met(y)
    /\ Skipped(x) => Skipped(y) \/ met(y)

(* A chain keeps its periods outside X when those in X break no streak.       *)
LEMMA ChainKept ==
  ASSUME NEW r, NEW s, NEW i \in Nat, NEW X,
         \A j \in 1..i : j \notin X => AsGood(r[j], s[j]),
         \A j \in 1..i : j \in X => Skipped(s[j]) \/ met(s[j])
  PROVE  Chain(r, i) \ X \subseteq Chain(s, i)
  <1> SUFFICES ASSUME NEW k \in Chain(r, i), k \notin X PROVE k \in Chain(s, i)
    OBVIOUS
  <1>1. k \in 1..i /\ ~ Skipped(r[k]) /\ \A j \in k..i : Skipped(r[j]) \/ met(r[j])
    BY DEF Chain
  <1>2. k \in k..i /\ \A j \in k..i : j \in 1..i
    BY <1>1
  <1>3. met(s[k])
    BY <1>1, <1>2 DEF AsGood
  <1>4. \A j \in k..i : Skipped(s[j]) \/ met(s[j])
    BY <1>1, <1>2 DEF AsGood
  <1>5. QED
    BY <1>1, <1>3, <1>4, MetIsNotSkipped DEF Chain

LEMMA ChainGoesOn ==
  ASSUME NEW s, NEW i \in Nat, NEW n \in Nat, i <= n,
         \A j \in (i + 1)..n : Skipped(s[j]) \/ met(s[j])
  PROVE  Chain(s, i) \subseteq Chain(s, n)
  <1> SUFFICES ASSUME NEW k \in Chain(s, i) PROVE k \in Chain(s, n)
    OBVIOUS
  <1>1. k \in 1..i /\ ~ Skipped(s[k]) /\ \A j \in k..i : Skipped(s[j]) \/ met(s[j])
    BY DEF Chain
  <1>2. k \in 1..n /\ \A j \in k..n : j \in k..i \/ j \in (i + 1)..n
    BY <1>1
  <1>3. QED
    BY <1>1, <1>2 DEF Chain

(* As good everywhere: no streak is shorter.                                  *)
LEMMA StreaksKept ==
  ASSUME NEW r, NEW s, Len(r) \in Nat, Len(s) \in Nat, Len(r) <= Len(s),
         DOMAIN r = 1..Len(r), DOMAIN s = 1..Len(s),
         \A j \in 1..Len(r) : AsGood(r[j], s[j]),
         \A j \in (Len(r) + 1)..Len(s) : Skipped(s[j]) \/ met(s[j])
  PROVE  current_streak(s) >= current_streak(r) /\ longest_streak(s) >= longest_streak(r)
  <1> DEFINE n == Len(r)
             m == Len(s)
  <1>1. \A i \in 0..n : Chain(r, i) \subseteq Chain(s, i)
    <2> SUFFICES ASSUME NEW i \in 0..n PROVE Chain(r, i) \subseteq Chain(s, i)
      OBVIOUS
    <2>1. i \in Nat /\ \A j \in 1..i : j \in 1..n
      OBVIOUS
    <2>2. Chain(r, i) \ {} \subseteq Chain(s, i)
      BY <2>1, ChainKept
    <2>3. QED
      BY <2>2
  <1>2. \A i \in 0..n : Cardinality(Chain(r, i)) <= Cardinality(Chain(s, i))
    <2> SUFFICES ASSUME NEW i \in 0..n PROVE Cardinality(Chain(r, i)) <= Cardinality(Chain(s, i))
      OBVIOUS
    <2>1. IsFiniteSet(Chain(s, i))
      BY ChainFinite
    <2>2. QED
      BY <1>1, <2>1, FS_Subset
  <1>3. \A i \in 0..n : Cardinality(Chain(r, i)) \in Nat /\ Cardinality(Chain(s, i)) \in Nat
    BY ChainFinite
  <1>4. current_streak(s) >= current_streak(r)
    <2>1. Chain(r, n) \subseteq Chain(s, m)
      <3>1. Chain(s, n) \subseteq Chain(s, m)
        BY ChainGoesOn
      <3>2. n \in 0..n
        OBVIOUS
      <3>3. QED
        BY <1>1, <3>1, <3>2
    <2>2. IsFiniteSet(Chain(s, m)) /\ Cardinality(Chain(s, m)) \in Nat /\ Cardinality(Chain(r, n)) \in Nat
      BY ChainFinite
    <2>3. Cardinality(Chain(r, n)) <= Cardinality(Chain(s, m))
      BY <2>1, <2>2, FS_Subset
    <2>4. current_streak(s) = Cardinality(Chain(s, m)) /\ current_streak(r) = Cardinality(Chain(r, n))
      BY CurrentIsChain
    <2>5. QED
      BY <2>2, <2>3, <2>4
  <1>5. longest_streak(s) >= longest_streak(r)
    <2>1. PICK i \in 0..n : longest_streak(r) = Cardinality(Chain(r, i))
      BY LongestIsChain
    <2>2. i \in 0..m
      OBVIOUS
    <2>3. Cardinality(Chain(s, i)) <= longest_streak(s)
      BY <2>2, LongestIsChain
    <2>4. longest_streak(s) \in Nat
      BY LongestIsChain, ChainFinite
    <2>5. QED
      BY <1>2, <1>3, <2>1, <2>3, <2>4
  <1>6. QED
    BY <1>4, <1>5

(* As good everywhere but in the last period, which breaks no streak: a       *)
(* streak is shorter by one at most.                                          *)
LEMMA StreaksButLast ==
  ASSUME NEW r, NEW s, Len(r) \in Nat, Len(s) = Len(r), DOMAIN r = 1..Len(r), DOMAIN s = 1..Len(r),
         \A j \in 1..(Len(r) - 1) : AsGood(r[j], s[j]),
         Len(r) > 0 => Skipped(s[Len(r)]) \/ met(s[Len(r)])
  PROVE  current_streak(s) >= current_streak(r) - 1 /\ longest_streak(s) >= longest_streak(r) - 1
  <1> DEFINE n == Len(r)
             X == {n}
  <1>1. ASSUME NEW i \in 0..n
        PROVE  /\ Cardinality(Chain(r, i)) \in Nat /\ Cardinality(Chain(s, i)) \in Nat
               /\ Cardinality(Chain(s, i)) >= Cardinality(Chain(r, i)) - 1
    <2> DEFINE C == Chain(r, i)
               D == Chain(s, i)
    <2>1. IsFiniteSet(C) /\ IsFiniteSet(D) /\ Cardinality(C) \in Nat /\ Cardinality(D) \in Nat
      BY ChainFinite
    <2>2. \A j \in 1..i : j \notin X => AsGood(r[j], s[j])
      <3> SUFFICES ASSUME NEW j \in 1..i, j # n PROVE AsGood(r[j], s[j])
        OBVIOUS
      <3>1. n \in Nat
        OBVIOUS
      <3>2. j \in 1..(n - 1)
        <4> HIDE DEF n
        <4>1. QED
          BY <1>1, <3>1
      <3>3. QED
        BY <3>2
    <2>3. \A j \in 1..i : j \in X => Skipped(s[j]) \/ met(s[j])
      <3> SUFFICES ASSUME NEW j \in 1..i, j = n PROVE Skipped(s[j]) \/ met(s[j])
        OBVIOUS
      <3>1. n > 0
        BY <1>1
      <3>2. QED
        BY <3>1
    <2>4. C \ X \subseteq D
      <3> HIDE DEF X
      <3>1. QED
        BY <2>2, <2>3, ChainKept
    <2> HIDE DEF C, D
    <2>5. Cardinality(C \ X) >= Cardinality(C) - 1 /\ Cardinality(C \ X) \in Nat
      <3>1. CASE n \in C
        <4>1. IsFiniteSet(C \ {n}) /\ Cardinality(C \ {n}) = Cardinality(C) - 1
          BY <2>1, <3>1, FS_RemoveElement
        <4>2. Cardinality(C \ {n}) \in Nat
          BY <4>1, FS_CardinalityType
        <4>3. QED
          BY <2>1, <4>1, <4>2
      <3>2. CASE n \notin C
        <4>1. C \ X = C
          BY <3>2
        <4>2. Cardinality(C \ X) = Cardinality(C)
          BY <4>1
        <4> HIDE DEF X
        <4>3. QED
          BY <2>1, <4>2
      <3>3. QED
        BY <3>1, <3>2
    <2>6. Cardinality(C \ X) <= Cardinality(D)
      BY <2>1, <2>4, FS_Subset
    <2>7. Cardinality(D) >= Cardinality(C) - 1
      BY <2>1, <2>5, <2>6
    <2>8. QED
      BY <2>1, <2>7 DEF C, D
  <1>2. current_streak(s) >= current_streak(r) - 1
    <2>1. current_streak(s) = Cardinality(Chain(s, n)) /\ current_streak(r) = Cardinality(Chain(r, n))
      BY CurrentIsChain
    <2>2. n \in 0..n
      OBVIOUS
    <2>3. QED
      BY <1>1, <2>1, <2>2
  <1>3. longest_streak(s) >= longest_streak(r) - 1
    <2>1. PICK i \in 0..n : longest_streak(r) = Cardinality(Chain(r, i))
      BY LongestIsChain
    <2>2. Cardinality(Chain(s, i)) <= longest_streak(s)
      BY LongestIsChain
    <2>3. PICK k \in 0..n : longest_streak(s) = Cardinality(Chain(s, k))
      BY LongestIsChain
    <2>4. longest_streak(s) \in Nat
      BY <1>1, <2>3
    <2>5. QED
      BY <1>1, <2>1, <2>2, <2>4
  <1>4. QED
    BY <1>2, <1>3

LEMMA Remainder ==
  ASSUME NEW a \in Nat, NEW b \in Nat, b > 0
  PROVE  a % b \in Nat /\ a % b <= a
  OBVIOUS

LEMMA FirstIsDate ==
  ASSUME NEW h \in Definitions
  PROVE  First(h) \in Nat
  <1>1. h.first \in Nat /\ Week \in Nat /\ Week > 0
    BY WeekAssumption DEF Definitions
  <1>2. h.first % Week \in Nat /\ h.first % Week <= h.first
    BY <1>1, Remainder
  <1>3. iso_week_start(h.first) \in Nat
    BY <1>1, <1>2 DEF iso_week_start
  <1>4. QED
    BY <1>1, <1>3 DEF First

LEMMA StatsOf ==
  ASSUME NEW h \in Definitions, NEW R, NEW t \in Nat
  PROVE  LET s == Stats(h, R, t)
             p == _periods(h, t)
         IN  /\ Len(s) = Len(p) /\ Len(s) \in Nat /\ DOMAIN s = 1..Len(s)
             /\ \A k \in 1..Len(s) : s[k] = PeriodStat(h, R, t, p[k]) /\ p[k] \in Nat
  <1> DEFINE p == _periods(h, t)
             s == Stats(h, R, t)
  <1>1. p \in Seq(Int) /\ Len(p) \in Nat
    BY PeriodsShape
  <1>2. s = [i \in 1..Len(p) |-> PeriodStat(h, R, t, p[i])]
    BY DEF Stats
  <1>3. \A k \in 1..Len(p) : p[k] \in Nat
    <2> SUFFICES ASSUME NEW k \in 1..Len(p) PROVE p[k] \in Nat
      OBVIOUS
    <2>1. p[k] = First(h) + (k - 1) * Step(h) /\ Step(h) \in Nat
      BY PeriodsShape
    <2>2. (k - 1) * Step(h) \in Nat
      BY <1>1, <2>1
    <2> HIDE DEF p
    <2>3. QED
      BY <2>1, <2>2, FirstIsDate
  <1> HIDE DEF s, p
  <1>4. Len(s) = Len(p) /\ DOMAIN s = 1..Len(p) /\ \A k \in 1..Len(p) : s[k] = PeriodStat(h, R, t, p[k])
    BY <1>1, <1>2
  <1>5. QED
    BY <1>1, <1>3, <1>4 DEF s, p

(* The statistics of a period.                                                *)
Due(h, start) == Cardinality({d \in Days(h, start) : is_scheduled(h, d)})
Done(h, R, t, start) == {d \in Days(h, start) : d <= t /\ ~ is_paused(h, d) /\ R[d] = "completed"}

LEMMA StatFields ==
  ASSUME NEW h \in Definitions, NEW R, NEW t \in Nat, NEW start \in Nat
  PROVE  LET x == PeriodStat(h, R, t, start)
         IN  /\ x.end = start + Step(h) - 1 /\ x.end \in Int
             /\ x.completed = Cardinality(Done(h, R, t, start)) /\ x.completed \in Nat
             /\ IsFiniteSet(Done(h, R, t, start))
             /\ x.required = (IF h.target <= Due(h, start) THEN h.target ELSE Due(h, start))
             /\ x.required \in Nat
             /\ met(x) <=> x.required # 0 /\ x.completed >= x.required
             /\ Skipped(x) <=> x.required = 0 \/ (x.end >= t /\ ~ (x.completed >= x.required))
  <1> DEFINE x == PeriodStat(h, R, t, start)
             done == Done(h, R, t, start)
             due == Due(h, start)
  <1>1. Step(h) \in Nat
    BY PeriodsShape
  <1>2. IsFiniteSet(Days(h, start))
    BY <1>1, FS_Interval DEF Days
  <1>3. IsFiniteSet(done) /\ Cardinality(done) \in Nat
    <2>1. done \subseteq Days(h, start)
      BY DEF Done
    <2>2. QED
      BY <1>2, <2>1, FS_Subset, FS_CardinalityType
  <1>4. due \in Nat
    <2> DEFINE S == {d \in Days(h, start) : is_scheduled(h, d)}
    <2>1. S \subseteq Days(h, start)
      OBVIOUS
    <2> HIDE DEF S
    <2>2. Cardinality(S) \in Nat
      BY <1>2, <2>1, FS_Subset, FS_CardinalityType
    <2>3. QED
      BY <2>2 DEF S, Due
  <1>5. x = [end |-> start + Step(h) - 1, completed |-> Cardinality(done),
             required |-> IF h.target <= due THEN h.target ELSE due,
             in_progress |-> start + Step(h) - 1 >= t]
    BY DEF PeriodStat, Done, Due
  <1> HIDE DEF x, done, due
  <1>6. /\ x.end = start + Step(h) - 1 /\ x.completed = Cardinality(done)
        /\ x.required = (IF h.target <= due THEN h.target ELSE due)
        /\ x.in_progress = (start + Step(h) - 1 >= t)
    BY <1>5
  <1>7. x.in_progress = (x.end >= t)
    BY <1>6
  <1>8. x.required \in Nat
    <2>1. h.target \in Nat
      BY DEF Definitions
    <2>2. QED
      BY <1>4, <1>6, <2>1
  <1>9. met(x) <=> x.required # 0 /\ x.completed >= x.required
    BY DEF met, excluded
  <1>10. Skipped(x) <=> x.required = 0 \/ (x.end >= t /\ ~ (x.completed >= x.required))
    BY <1>7, <1>9, Zenon DEF Skipped, excluded
  <1>11. x.end \in Int
    BY <1>1, <1>6
  <1>12. QED
    BY <1>3, <1>6, <1>8, <1>9, <1>10, <1>11 DEF x, done, due

(* More results, or a later date that does not close the period unmet.        *)
LEMMA StatAsGood ==
  ASSUME NEW h \in Definitions, NEW R, NEW S, NEW t \in Nat, NEW u \in Nat, NEW start \in Nat, t <= u,
         \A d \in Days(h, start) : R[d] = "completed" => S[d] = "completed",
         LET y == PeriodStat(h, S, u, start)
         IN  y.end < u => y.end < t \/ ~ (y.required > 0 /\ y.completed < y.required)
  PROVE  AsGood(PeriodStat(h, R, t, start), PeriodStat(h, S, u, start))
  <1> DEFINE x == PeriodStat(h, R, t, start)
             y == PeriodStat(h, S, u, start)
             C == Done(h, R, t, start)
             D == Done(h, S, u, start)
  <1>1. /\ x.end = start + Step(h) - 1 /\ x.end \in Int
        /\ x.completed = Cardinality(C) /\ x.completed \in Nat
        /\ x.required = (IF h.target <= Due(h, start) THEN h.target ELSE Due(h, start))
        /\ x.required \in Nat
        /\ met(x) <=> x.required # 0 /\ x.completed >= x.required
        /\ Skipped(x) <=> x.required = 0 \/ (x.end >= t /\ ~ (x.completed >= x.required))
    BY StatFields
  <1>2. /\ y.end = start + Step(h) - 1 /\ y.completed = Cardinality(D) /\ y.completed \in Nat
        /\ IsFiniteSet(D)
        /\ y.required = (IF h.target <= Due(h, start) THEN h.target ELSE Due(h, start))
        /\ met(y) <=> y.required # 0 /\ y.completed >= y.required
        /\ Skipped(y) <=> y.required = 0 \/ (y.end >= u /\ ~ (y.completed >= y.required))
    BY StatFields
  <1>3. C \subseteq D
    <2> SUFFICES ASSUME NEW d \in C PROVE d \in D
      OBVIOUS
    <2>1. d \in Days(h, start) /\ d <= t /\ ~ is_paused(h, d) /\ R[d] = "completed"
      BY DEF Done
    <2>2. d \in Int
      BY <2>1, PeriodsShape DEF Days
    <2>3. d <= u
      BY <2>1, <2>2
    <2>4. QED
      BY <2>1, <2>3 DEF Done
  <1>4. y.end < u => y.end < t \/ ~ (y.required > 0 /\ y.completed < y.required)
    OBVIOUS
  <1> HIDE DEF C, D, x, y
  <1>5. x.completed <= y.completed
    BY <1>1, <1>2, <1>3, FS_Subset
  <1>6. x.end = y.end /\ x.required = y.required
    BY <1>1, <1>2
  <1>7. met(x) => met(y)
    BY <1>1, <1>2, <1>5, <1>6
  <1>8. Skipped(x) => Skipped(y) \/ met(y)
    BY <1>1, <1>2, <1>4, <1>6
  <1>9. QED
    BY <1>7, <1>8 DEF AsGood, x, y

(* Results that only improve lose no streak.                                  *)
LEMMA ResultsKeepStreaks ==
  ASSUME NEW h \in Definitions, NEW R, NEW S, NEW t \in Nat,
         \A d : R[d] = "completed" => S[d] = "completed"
  PROVE  /\ current_streak(Stats(h, S, t)) >= current_streak(Stats(h, R, t))
         /\ longest_streak(Stats(h, S, t)) >= longest_streak(Stats(h, R, t))
  <1> DEFINE p == _periods(h, t)
             r == Stats(h, R, t)
             s == Stats(h, S, t)
  <1>1. /\ Len(r) = Len(p) /\ Len(r) \in Nat /\ DOMAIN r = 1..Len(r)
        /\ \A k \in 1..Len(r) : r[k] = PeriodStat(h, R, t, p[k]) /\ p[k] \in Nat
    BY StatsOf
  <1>2. /\ Len(s) = Len(p) /\ Len(s) \in Nat /\ DOMAIN s = 1..Len(s)
        /\ \A k \in 1..Len(s) : s[k] = PeriodStat(h, S, t, p[k])
    BY StatsOf
  <1> HIDE DEF p, r, s
  <1>3. \A j \in 1..Len(r) : AsGood(r[j], s[j])
    <2> SUFFICES ASSUME NEW j \in 1..Len(r) PROVE AsGood(r[j], s[j])
      OBVIOUS
    <2> DEFINE y == PeriodStat(h, S, t, p[j])
    <2>1. p[j] \in Nat /\ t <= t
      BY <1>1
    <2>2. y.end < t => y.end < t \/ ~ (y.required > 0 /\ y.completed < y.required)
      OBVIOUS
    <2>3. AsGood(PeriodStat(h, R, t, p[j]), PeriodStat(h, S, t, p[j]))
      BY <2>1, <2>2, StatAsGood
    <2>4. QED
      BY <1>1, <1>2, <2>3
  <1>4. (Len(r) + 1)..Len(s) = {} /\ Len(r) <= Len(s)
    BY <1>1, <1>2
  <1>5. current_streak(s) >= current_streak(r) /\ longest_streak(s) >= longest_streak(r)
    BY <1>1, <1>2, <1>3, <1>4, StreaksKept
  <1>6. QED
    BY <1>5 DEF r, s

(* Midnight loses none, unless it closes a period that was due and not met.   *)
LEMMA MidnightKeepsStreaks ==
  ASSUME NEW h \in Definitions, NEW R, NEW t \in Nat,
         \A k \in DOMAIN Stats(h, R, t + 1) :
            LET y == Stats(h, R, t + 1)[k]
            IN  y.end = t => ~ (y.required > 0 /\ y.completed < y.required)
  PROVE  current_streak(Stats(h, R, t + 1)) >= current_streak(Stats(h, R, t))
  <1> DEFINE u == t + 1
             p == _periods(h, t)
             q == _periods(h, u)
             r == Stats(h, R, t)
             s == Stats(h, R, u)
             b == Step(h)
             f == First(h)
  <1>0. u \in Nat /\ t <= u
    OBVIOUS
  <1>1. /\ Len(r) = Len(p) /\ Len(r) \in Nat /\ DOMAIN r = 1..Len(r)
        /\ \A k \in 1..Len(r) : r[k] = PeriodStat(h, R, t, p[k]) /\ p[k] \in Nat
    BY StatsOf
  <1>2. /\ Len(s) = Len(q) /\ Len(s) \in Nat /\ DOMAIN s = 1..Len(s)
        /\ \A k \in 1..Len(s) : s[k] = PeriodStat(h, R, u, q[k]) /\ q[k] \in Nat
    BY <1>0, StatsOf
  <1>3. /\ b \in Nat /\ b > 0 /\ f \in Int
        /\ \A k \in 1..Len(p) : p[k] = f + (k - 1) * b /\ p[k] <= t
    BY PeriodsShape
  <1>4. f + Len(p) * b > t
    BY PeriodsShape
  <1>5. \A k \in 1..Len(q) : q[k] = f + (k - 1) * b
    BY <1>0, PeriodsShape
  <1>6. f + Len(q) * b > u
    BY <1>0, PeriodsShape
  <1>7. \A k \in 1..Len(s) : s[k].end = t => ~ (s[k].required > 0 /\ s[k].completed < s[k].required)
    BY <1>2
  <1> DEFINE n == Len(p)
             m == Len(q)
  <1>8. n \in Nat /\ m \in Nat
    BY <1>1, <1>2
  <1> HIDE DEF p, q, r, s, b, f, n, m
  <1>9. n <= m
    <2> SUFFICES ASSUME m < n PROVE FALSE
      BY <1>8
    <2>1. m + 1 \in 1..n /\ (m + 1) - 1 = m
      BY <1>8
    <2>2. f + m * b <= t
      BY <1>3, <2>1 DEF n
    <2>3. m * b \in Int
      BY <1>3, <1>8
    <2>4. QED
      BY <1>3, <1>6, <2>2, <2>3 DEF m
  <1>10. \A j \in 1..Len(r) : AsGood(r[j], s[j])
    <2> SUFFICES ASSUME NEW j \in 1..Len(r) PROVE AsGood(r[j], s[j])
      OBVIOUS
    <2> DEFINE y == PeriodStat(h, R, u, p[j])
    <2>1. j \in 1..n /\ j \in 1..m
      BY <1>1, <1>8, <1>9 DEF n
    <2>2. p[j] = q[j]
      BY <1>3, <1>5, <2>1 DEF n, m
    <2>3. s[j] = y /\ r[j] = PeriodStat(h, R, t, p[j]) /\ p[j] \in Nat
      BY <1>1, <1>2, <2>1, <2>2 DEF m
    <2>4. y.end \in Int
      BY <1>0, <2>3, StatFields
    <2>5. y.end = t => ~ (y.required > 0 /\ y.completed < y.required)
      BY <1>2, <1>7, <2>1, <2>3 DEF m
    <2> HIDE DEF y
    <2>6. y.end < u => y.end < t \/ ~ (y.required > 0 /\ y.completed < y.required)
      BY <2>4, <2>5
    <2>7. AsGood(PeriodStat(h, R, t, p[j]), PeriodStat(h, R, u, p[j]))
      <3> HIDE DEF u
      <3>1. QED
        BY <1>0, <2>3, <2>6, StatAsGood DEF y
    <2>8. QED
      BY <2>3, <2>7 DEF y
  <1>11. \A j \in (Len(r) + 1)..Len(s) : Skipped(s[j]) \/ met(s[j])
    <2> SUFFICES ASSUME NEW j \in (Len(r) + 1)..Len(s) PROVE Skipped(s[j]) \/ met(s[j])
      OBVIOUS
    <2>1. j \in 1..m /\ n <= j - 1 /\ j - 1 \in Int /\ j \in 1..Len(s)
      BY <1>1, <1>2, <1>8 DEF n, m
    <2>2. n * b <= (j - 1) * b
      BY <1>3, <1>8, <2>1, Product
    <2>3. n * b \in Int /\ (j - 1) * b \in Int
      BY <1>3, <1>8, <2>1
    <2>4. q[j] >= u /\ q[j] \in Nat
      BY <1>2, <1>3, <1>4, <1>5, <2>1, <2>2, <2>3 DEF n, m
    <2>5. /\ s[j].end = q[j] + b - 1
          /\ met(s[j]) <=> s[j].required # 0 /\ s[j].completed >= s[j].required
          /\ Skipped(s[j]) <=> s[j].required = 0 \/ (s[j].end >= u /\ ~ (s[j].completed >= s[j].required))
      BY <1>0, <1>2, <2>1, <2>4, StatFields DEF b
    <2>6. s[j].end >= u
      BY <1>3, <2>4, <2>5
    <2>7. QED
      BY <2>5, <2>6
  <1>12. current_streak(s) >= current_streak(r)
    <2>1. Len(r) <= Len(s)
      BY <1>1, <1>2, <1>9 DEF n, m
    <2>2. QED
      BY <1>1, <1>2, <1>10, <1>11, <2>1, StreaksKept
  <1>13. QED
    BY <1>12 DEF r, s

(* Pauses that agree on the dates before today cost the period of today at    *)
(* most, and no miss.                                                         *)
LEMMA PausesKeepStreaks ==
  ASSUME NEW h \in Definitions, NEW g \in Definitions, NEW R, NEW t \in Nat,
         NEW P, g = [h EXCEPT !.pauses = P],
         \A d \in Nat : d < t => (is_paused(g, d) <=> is_paused(h, d))
  PROVE  /\ current_streak(Stats(g, R, t)) >= current_streak(Stats(h, R, t)) - 1
         /\ longest_streak(Stats(g, R, t)) >= longest_streak(Stats(h, R, t)) - 1
         /\ missed(g, R, t) <= missed(h, R, t)
  <1> DEFINE p == _periods(h, t)
             r == Stats(h, R, t)
             s == Stats(g, R, t)
             b == Step(h)
             f == First(h)
             n == Len(p)
  <1>0. /\ g.daily = h.daily /\ g.days = h.days /\ g.target = h.target
        /\ g.first = h.first /\ g.last = h.last
    BY DEF Definitions
  <1>1. Step(g) = b /\ period_kind(g) = period_kind(h)
    BY <1>0 DEF Step, period_kind
  <1>2. _periods(g, t) = p
    <2> DEFINE From(x, y) == IF t < x THEN <<>> ELSE [i \in 1..((t - x) \div y + 1) |-> x + (i - 1) * y]
    <2>1. _periods(g, t) = From(First(g), Step(g))
      BY DEF _periods, First
    <2>2. p = From(First(h), Step(h))
      BY DEF _periods, First
    <2>3. First(g) = First(h)
      BY <1>0, <1>1 DEF First
    <2> HIDE DEF From, p
    <2>4. QED
      BY <1>1, <2>1, <2>2, <2>3
  <1>3. \A d \in Nat : d < t => (is_scheduled(g, d) <=> is_scheduled(h, d))
    BY <1>0 DEF is_scheduled
  <1>4. /\ Len(r) = n /\ n \in Nat /\ DOMAIN r = 1..n
        /\ \A k \in 1..n : r[k] = PeriodStat(h, R, t, p[k]) /\ p[k] \in Nat
    BY StatsOf
  <1>5. /\ Len(s) = n /\ DOMAIN s = 1..n
        /\ \A k \in 1..n : s[k] = PeriodStat(g, R, t, p[k])
    <2> DEFINE q == _periods(g, t)
    <2>1. /\ Len(s) = Len(q) /\ DOMAIN s = 1..Len(s)
          /\ \A k \in 1..Len(s) : s[k] = PeriodStat(g, R, t, q[k])
      BY StatsOf
    <2> HIDE DEF q, s, p
    <2>2. q = p
      BY <1>2 DEF q
    <2>3. QED
      BY <2>1, <2>2
  <1>6. b \in Nat /\ b > 0 /\ f \in Int /\ \A k \in 1..n : p[k] = f + (k - 1) * b /\ p[k] <= t
    BY PeriodsShape
  <1>7. f + n * b > t
    BY PeriodsShape
  <1>8. missed(g, R, t) <= missed(h, R, t)
    <2> DEFINE U == UNION {Days(h, d) : d \in ToSet(p)}
               M(x) == {d \in U : /\ d < t /\ is_scheduled(x, d)
                                  /\ R[d] \notin {"completed", "partial"}}
    <2>1. missed(h, R, t) = Cardinality(M(h))
      BY DEF missed
    <2>2. \A d : Days(g, d) = Days(h, d)
      BY <1>1 DEF Days
    <2>3. missed(g, R, t) = Cardinality(M(g))
      BY <1>2, <2>2 DEF missed
    <2>4. \A d \in U : d \in Int
      BY DEF Days
    <2>5. ASSUME NEW d \in U, d < t, is_scheduled(h, d) \/ is_scheduled(g, d) PROVE d \in 0..(t - 1)
      <3>1. h.first \in Nat /\ h.first <= d
        BY <1>0, <2>5 DEF is_scheduled, Definitions
      <3>2. QED
        BY <2>4, <2>5, <3>1
    <2>6. M(g) = M(h)
      <3> HIDE DEF U
      <3>1. \A d \in U : d < t => (is_scheduled(g, d) <=> is_scheduled(h, d))
        BY <1>3, <2>5
      <3>2. QED
        BY <3>1
    <2>7. Cardinality(M(h)) \in Nat
      <3> DEFINE S == M(h)
                 I == 0..(t - 1)
      <3>1. IsFiniteSet(I)
        BY FS_Interval
      <3>2. S \subseteq I
        BY <2>5
      <3> HIDE DEF S, I
      <3>3. Cardinality(S) \in Nat
        BY <3>1, <3>2, FS_Subset, FS_CardinalityType
      <3>4. QED
        BY <3>3 DEF S
    <2> HIDE DEF M
    <2>8. QED
      BY <2>1, <2>3, <2>6, <2>7
  <1> HIDE DEF p, r, s, n, f
  <1>9. ASSUME NEW j \in 1..(n - 1) PROVE s[j] = r[j]
    <2>1. j \in 1..n /\ n \in 1..n /\ j <= n - 1 /\ j \in Int /\ n - 1 \in Int
      BY <1>4
    <2>2. p[j] + b <= t
      <3>1. j * b <= (n - 1) * b
        BY <1>6, <2>1, Product
      <3>2. p[j] = f + (j - 1) * b /\ p[n] = f + (n - 1) * b /\ p[n] <= t
        BY <1>6, <2>1
      <3>3. (j - 1) * b + b = j * b /\ (j - 1) * b \in Int /\ j * b \in Int /\ (n - 1) * b \in Int
        BY <1>6, <2>1
      <3>4. QED
        BY <1>6, <3>1, <3>2, <3>3
    <2>3. p[j] \in Nat
      BY <1>4, <2>1
    <2>4. Days(h, p[j]) = Days(g, p[j]) /\ \A d \in Days(h, p[j]) : d \in Nat /\ d < t
      <3>1. Days(h, p[j]) = p[j]..(p[j] + b - 1)
        BY DEF Days
      <3>2. \A d \in p[j]..(p[j] + b - 1) : d \in Nat /\ d < t
        BY <1>6, <2>2, <2>3
      <3>3. QED
        BY <1>1, <3>1, <3>2 DEF Days
    <2>5. {d \in Days(g, p[j]) : is_scheduled(g, d)} = {d \in Days(h, p[j]) : is_scheduled(h, d)}
      BY <1>3, <2>4
    <2>6. Done(g, R, t, p[j]) = Done(h, R, t, p[j])
      BY <2>4 DEF Done
    <2>7. PeriodStat(g, R, t, p[j]) = PeriodStat(h, R, t, p[j])
      BY <1>0, <1>1, <2>5, <2>6 DEF PeriodStat, Done
    <2>8. QED
      BY <1>4, <1>5, <2>1, <2>7
  <1>10. \A j \in 1..(n - 1) : AsGood(r[j], s[j])
    BY <1>9 DEF AsGood
  <1>11. n > 0 => Skipped(s[n]) \/ met(s[n])
    <2> SUFFICES ASSUME n > 0 PROVE Skipped(s[n]) \/ met(s[n])
      OBVIOUS
    <2>1. n \in 1..n
      BY <1>4
    <2>2. p[n] \in Nat /\ s[n] = PeriodStat(g, R, t, p[n])
      BY <1>4, <1>5, <2>1
    <2>3. /\ s[n].end = p[n] + b - 1
          /\ met(s[n]) <=> s[n].required # 0 /\ s[n].completed >= s[n].required
          /\ Skipped(s[n]) <=> s[n].required = 0 \/ (s[n].end >= t /\ ~ (s[n].completed >= s[n].required))
      BY <1>1, <2>2, StatFields
    <2>4. p[n] + b > t
      <3>1. p[n] = f + (n - 1) * b
        BY <1>6, <2>1
      <3>2. (n - 1) * b + b = n * b /\ (n - 1) * b \in Int /\ n * b \in Int
        BY <1>4, <1>6
      <3>3. QED
        BY <1>6, <1>7, <3>1, <3>2
    <2>5. s[n].end >= t
      BY <1>6, <2>2, <2>3, <2>4
    <2>6. QED
      BY <2>3, <2>5
  <1>12. current_streak(s) >= current_streak(r) - 1 /\ longest_streak(s) >= longest_streak(r) - 1
    BY <1>4, <1>5, <1>10, <1>11, StreaksButLast
  <1>13. QED
    BY <1>8, <1>12 DEF r, s

(* A step of a habit: a result, a pause or its end, or midnight.              *)
LEMMA HabitMoves ==
  ASSUME HabitInv, subject = "habit", NextHabit
  PROVE  \/ habit'.def = habit.def /\ habit'.today = habit.today
         \/ /\ habit'.records = habit.records /\ habit'.today = habit.today
            /\ \E P : habit'.def = [habit.def EXCEPT !.pauses = P]
            /\ \A d \in Nat : d < habit.today => (is_paused(habit'.def, d) <=> is_paused(habit.def, d))
         \/ /\ habit'.records = habit.records /\ habit'.def = habit.def
            /\ habit'.today = habit.today + 1
  <1> DEFINE Q == habit.def.pauses
             t == habit.today
  <1>0. /\ habit = [def |-> habit.def, records |-> habit.records, today |-> habit.today]
        /\ habit.def \in Definitions /\ t \in Nat /\ MaxDate \in Nat
    BY ReportAssumption DEF HabitInv
  <1>1. Q \subseteq Int \X Int
    BY <1>0 DEF Definitions
  <1>2. ASSUME NEW P, habit' = [habit EXCEPT !.def.pauses = P]
        PROVE  /\ habit'.records = habit.records /\ habit'.today = habit.today
               /\ habit'.def = [habit.def EXCEPT !.pauses = P] /\ habit'.def.pauses = P
    <2>1. habit' = [def |-> [habit.def EXCEPT !.pauses = P], records |-> habit.records, today |-> habit.today]
      BY <1>0, <1>2
    <2>2. [habit.def EXCEPT !.pauses = P].pauses = P
      BY <1>0 DEF Definitions
    <2>3. QED
      BY <2>1, <2>2
  <1> DEFINE At(p, d) == p[1] <= d /\ (p[2] = Never \/ d <= p[2])
  <1>3. ASSUME NEW P, habit' = [habit EXCEPT !.def.pauses = P],
               \A d \in Nat : d < t => ((\E p \in P : At(p, d)) <=> (\E p \in Q : At(p, d)))
        PROVE  /\ habit'.records = habit.records /\ habit'.today = habit.today
               /\ \E X : habit'.def = [habit.def EXCEPT !.pauses = X]
               /\ \A d \in Nat : d < t => (is_paused(habit'.def, d) <=> is_paused(habit.def, d))
    BY <1>2, <1>3 DEF is_paused
  <1>4. ASSUME NEW from \in 0..MaxDate, pause(from)
        PROVE  \E P : /\ habit' = [habit EXCEPT !.def.pauses = P]
                      /\ \A d \in Nat : d < t => ((\E p \in P : At(p, d)) <=> (\E p \in Q : At(p, d)))
    <2> DEFINE new == <<from, Never>>
               P == Q \cup {new}
    <2>1. habit' = [habit EXCEPT !.def.pauses = P] /\ from >= t
      BY <1>0, <1>4 DEF pause
    <2>2. \A d \in Nat : d < t => ~ At(new, d)
      BY <1>0, <2>1
    <2> HIDE DEF new, At
    <2>3. \A d \in Nat : d < t => ((\E p \in P : At(p, d)) <=> (\E p \in Q : At(p, d)))
      BY <2>2
    <2>4. QED
      BY <2>1, <2>3
  <1>5. ASSUME resume
        PROVE  \E P : /\ habit' = [habit EXCEPT !.def.pauses = P]
                      /\ \A d \in Nat : d < t => ((\E p \in P : At(p, d)) <=> (\E p \in Q : At(p, d)))
    <2> DEFINE Closed(p) == IF p[1] >= t THEN {} ELSE {<<p[1], t - 1>>}
               Ended(p) == (Q \ {p}) \cup Closed(p)
    <2>1. PICK p \in OpenPauses : habit' = [habit EXCEPT !.def.pauses = Ended(p)]
      BY <1>0, <1>5 DEF resume
    <2>2. p \in Q /\ p[2] = Never /\ p[1] \in Int
      BY <1>1 DEF OpenPauses
    <2>3. ASSUME NEW d \in Nat, d < t PROVE (\E x \in Closed(p) : At(x, d)) <=> At(p, d)
      <3>1. CASE p[1] >= t
        BY <1>0, <2>2, <2>3, <3>1
      <3>2. CASE ~ (p[1] >= t)
        <4> DEFINE x == <<p[1], t - 1>>
        <4>1. Closed(p) = {x}
          BY <3>2
        <4>2. x[1] = p[1] /\ x[2] = t - 1
          OBVIOUS
        <4>3. At(x, d) <=> At(p, d)
          BY <1>0, <2>2, <2>3, <4>2
        <4> HIDE DEF At, Closed, x
        <4>4. QED
          BY <4>1, <4>3
      <3>3. QED
        BY <3>1, <3>2
    <2> HIDE DEF At, Closed
    <2>4. \A d \in Nat : d < t => ((\E x \in Ended(p) : At(x, d)) <=> (\E x \in Q : At(x, d)))
      <3> SUFFICES ASSUME NEW d \in Nat, d < t
                   PROVE  (\E x \in Ended(p) : At(x, d)) <=> (\E x \in Q : At(x, d))
        OBVIOUS
      <3>1. (\E x \in Closed(p) : At(x, d)) <=> At(p, d)
        BY <2>3
      <3>2. QED
        BY <2>2, <3>1
    <2> HIDE DEF Ended
    <2>5. QED
      BY <2>1, <2>4
  <1>6. ASSUME NEW d, NEW result, record_occurrence(d, result)
        PROVE  habit'.def = habit.def /\ habit'.today = habit.today
    <2>1. habit' = [def |-> habit.def, records |-> [habit.records EXCEPT ![d] = result],
                    today |-> habit.today]
      BY <1>0, <1>6 DEF record_occurrence
    <2>2. QED
      BY <2>1
  <1>7. ASSUME NewDay
        PROVE  /\ habit'.records = habit.records /\ habit'.def = habit.def
               /\ habit'.today = habit.today + 1
    <2>1. habit' = [def |-> habit.def, records |-> habit.records, today |-> habit.today + 1]
      BY <1>0, <1>7 DEF NewDay
    <2>2. QED
      BY <2>1
  <1> HIDE DEF At
  <1>8. QED
    BY <1>3, <1>4, <1>5, <1>6, <1>7 DEF NextHabit

(* A pause or its end costs a streak one period at most and adds no miss;     *)
(* midnight shortens the current streak only when it closes a period that was *)
(* due and not met; a completion shortens none.                               *)
THEOREM StreaksLostByMissing == Spec => StreakLostByMissing
  <1> DEFINE before == metrics(habit)
             after == metrics(habit')
             completes(d) == /\ habit.records[d] # "completed"
                             /\ habit'.records = [habit.records EXCEPT ![d] = "completed"]
             A1 == habit'.def # habit.def =>
                     /\ after.current >= before.current - 1 /\ after.longest >= before.longest - 1
                     /\ after.missed <= before.missed
             A2 == habit'.today # habit.today /\ after.current < before.current =>
                     \E stat \in ToSet(Stats(habit'.def, habit'.records, habit'.today)) :
                       stat.end = habit.today /\ stat.required > 0 /\ stat.completed < stat.required
             A3 == (\E d \in Date : completes(d)) =>
                     after.current >= before.current /\ after.longest >= before.longest
  <1>1. ASSUME HabitInv, subject = "habit", NextHabit
        PROVE  A1 /\ A2 /\ A3
    <2> DEFINE h == habit.def
               R == habit.records
               t == habit.today
               r == Stats(h, R, t)
               s == Stats(habit'.def, habit'.records, habit'.today)
    <2>1. h \in Definitions /\ t \in Nat /\ R \in [Date -> Outcome \cup {Nothing}]
      BY <1>1 DEF HabitInv
    <2>2. habit'.def \in Definitions /\ habit'.today \in Nat
      BY <1>1, HabitStep
    <2>3. /\ before.current = current_streak(r) /\ before.longest = longest_streak(r)
          /\ before.missed = missed(h, R, t)
      BY DEF metrics, compute_metrics
    <2>4. /\ after.current = current_streak(s) /\ after.longest = longest_streak(s)
          /\ after.missed = missed(habit'.def, habit'.records, habit'.today)
      BY DEF metrics, compute_metrics
    <2>5. ASSUME habit'.records = habit.records PROVE \A d \in Date : ~ completes(d)
      <3> SUFFICES ASSUME NEW d \in Date, completes(d) PROVE FALSE
        OBVIOUS
      <3>1. R = [R EXCEPT ![d] = "completed"] /\ R[d] # "completed"
        BY <2>5
      <3>2. [R EXCEPT ![d] = "completed"][d] = "completed"
        BY <2>1
      <3> HIDE DEF R
      <3>3. QED
        BY <3>1, <3>2, Zenon
    <2>6. CASE habit'.def = habit.def /\ habit'.today = habit.today
      <3>1. ASSUME NEW d \in Date, completes(d)
            PROVE  after.current >= before.current /\ after.longest >= before.longest
        <4> DEFINE S == [R EXCEPT ![d] = "completed"]
        <4>1. habit'.records = S
          BY <3>1
        <4>2. \A e : R[e] = "completed" => S[e] = "completed"
          BY <2>1
        <4> HIDE DEF S
        <4>3. s = Stats(h, S, t)
          BY <2>6, <4>1
        <4>4. /\ current_streak(Stats(h, S, t)) >= current_streak(Stats(h, R, t))
              /\ longest_streak(Stats(h, S, t)) >= longest_streak(Stats(h, R, t))
          BY <2>1, <4>2, ResultsKeepStreaks
        <4>5. QED
          BY <2>3, <2>4, <4>3, <4>4
      <3> HIDE DEF completes, before, after
      <3>2. QED
        BY <2>6, <3>1
    <2>7. ASSUME habit'.records = habit.records, habit'.today = habit.today,
                 NEW P, habit'.def = [habit.def EXCEPT !.pauses = P],
                 \A d \in Nat : d < t => (is_paused(habit'.def, d) <=> is_paused(habit.def, d))
          PROVE  A1 /\ A2 /\ A3
      <3> DEFINE g == habit'.def
      <3>1. s = Stats(g, R, t) /\ after.missed = missed(g, R, t)
        BY <2>4, <2>7
      <3>2. /\ current_streak(Stats(g, R, t)) >= current_streak(Stats(h, R, t)) - 1
            /\ longest_streak(Stats(g, R, t)) >= longest_streak(Stats(h, R, t)) - 1
            /\ missed(g, R, t) <= missed(h, R, t)
        BY <2>1, <2>2, <2>7, PausesKeepStreaks
      <3>3. A1
        BY <2>3, <2>4, <3>1, <3>2
      <3> HIDE DEF completes, before, after
      <3>4. QED
        BY <2>5, <2>7, <3>3
    <2>8. CASE habit'.records = habit.records /\ habit'.def = habit.def /\ habit'.today = habit.today + 1
      <3>1. s = Stats(h, R, t + 1)
        BY <2>8
      <3>2. ASSUME ~ \E stat \in ToSet(s) :
                       stat.end = t /\ stat.required > 0 /\ stat.completed < stat.required
            PROVE  ~ (after.current < before.current)
        <4>1. \A k \in DOMAIN Stats(h, R, t + 1) :
                LET y == Stats(h, R, t + 1)[k]
                IN  y.end = t => ~ (y.required > 0 /\ y.completed < y.required)
          BY <3>1, <3>2 DEF ToSet
        <4>2. current_streak(Stats(h, R, t + 1)) >= current_streak(Stats(h, R, t))
          BY <2>1, <4>1, MidnightKeepsStreaks
        <4>3. current_streak(r) \in Nat /\ current_streak(s) \in Nat
          <5>1. Len(r) \in Nat /\ DOMAIN r = 1..Len(r)
            BY <2>1, StatsOf
          <5>2. Len(s) \in Nat /\ DOMAIN s = 1..Len(s)
            BY <2>2, StatsOf
          <5> HIDE DEF r, s
          <5>3. QED
            BY <5>1, <5>2, CurrentIsChain, ChainFinite
        <4>4. QED
          BY <2>3, <2>4, <3>1, <4>2, <4>3
      <3>3. A2
        BY <3>2
      <3> HIDE DEF completes, before, after
      <3>4. QED
        BY <2>5, <2>8, <3>3
    <2> HIDE DEF A1, A2, A3
    <2>9. QED
      BY <1>1, <2>6, <2>7, <2>8, HabitMoves
  <1>2. HabitInv /\ [Next]_vars => [subject = "habit" => A1 /\ A2 /\ A3]_vars
    <2> HIDE DEF A1, A2, A3
    <2>1. QED
      BY <1>1 DEF Next, vars
  <1>3. QED
    BY <1>2, HabitInvariantHolds, PTL DEF Spec, StreakLostByMissing

-----------------------------------------------------------------------------
(* The findings about a day *)

(* What holds at 0 and goes on from each place to the next holds up to n.     *)
LEMMA UpTo ==
  ASSUME NEW n \in Nat, NEW T, 0 \in T, \A i \in 1..n : i - 1 \in T => i \in T
  PROVE  0..n \subseteq T
  <1> DEFINE U == {i \in 0..n : i \notin T}
  <1> SUFFICES ASSUME U # {} PROVE FALSE
    OBVIOUS
  <1>1. U \subseteq Nat
    OBVIOUS
  <1>2. PICK i \in U : \A j \in U : i <= j
    BY <1>1, LeastOf
  <1>3. i \in 1..n /\ i - 1 \in 0..n /\ ~ (i <= i - 1)
    BY <1>2
  <1>4. i - 1 \in T
    BY <1>2, <1>3
  <1>5. QED
    BY <1>2, <1>3, <1>4

(* A loop over n places from a first value has its values.                    *)
HasLoop(A, first, n, G) ==
    \E f \in [0..n -> A] : f[0] = first /\ \A i \in 1..n : f[i] = G[<<f[i - 1], i>>]

LEMMA LoopExists ==
  ASSUME NEW A, NEW first \in A, NEW n \in Nat, NEW G \in [A \X (1..n) -> A]
  PROVE  HasLoop(A, first, n, G)
  <1> DEFINE Loop(k, f) == f[0] = first /\ \A i \in 1..k : f[i] = G[<<f[i - 1], i>>]
             T == {k \in 0..n : \E f \in [0..k -> A] : Loop(k, f)}
  <1>1. 0 \in T
    <2> DEFINE f == [i \in 0..0 |-> first]
    <2>1. f \in [0..0 -> A] /\ f[0] = first /\ 1..0 = {}
      OBVIOUS
    <2> HIDE DEF f
    <2>2. QED
      BY <2>1
  <1>2. ASSUME NEW k \in 1..n, k - 1 \in T PROVE k \in T
    <2>1. PICK f \in [0..(k - 1) -> A] : Loop(k - 1, f)
      BY <1>2
    <2> DEFINE x == G[<<f[k - 1], k>>]
               g == [i \in 0..k |-> IF i = k THEN x ELSE f[i]]
    <2>2. k - 1 \in 0..(k - 1) /\ f[k - 1] \in A
      BY <2>1
    <2>3. x \in A
      BY <2>2
    <2> HIDE DEF x
    <2>4. g \in [0..k -> A]
      BY <2>1, <2>3
    <2>5. g[k] = x /\ \A i \in 0..(k - 1) : g[i] = f[i]
      OBVIOUS
    <2> HIDE DEF g
    <2>6. ASSUME NEW i \in 1..k PROVE g[i] = G[<<g[i - 1], i>>]
      <3>1. CASE i = k
        <4>1. g[i - 1] = f[k - 1]
          BY <2>2, <2>5, <3>1
        <4>2. QED
          BY <2>5, <3>1, <4>1 DEF x
      <3>2. CASE i # k
        <4>1. i \in 1..(k - 1) /\ i \in 0..(k - 1) /\ i - 1 \in 0..(k - 1)
          BY <3>2
        <4>2. f[i] = G[<<f[i - 1], i>>]
          BY <2>1, <4>1
        <4>3. QED
          BY <2>5, <4>1, <4>2
      <3>3. QED
        BY <3>1, <3>2
    <2>7. g[0] = first
      <3>1. 0 \in 0..(k - 1)
        OBVIOUS
      <3>2. QED
        BY <2>1, <2>5, <3>1
    <2>8. QED
      BY <2>4, <2>6, <2>7
  <1>3. 0..n \subseteq T
    <2> HIDE DEF T
    <2>1. QED
      BY <1>1, <1>2, UpTo
  <1>4. n \in T
    <2> HIDE DEF T
    <2>1. n \in 0..n
      OBVIOUS
    <2>2. QED
      BY <1>3, <2>1
  <1>5. QED
    BY <1>4 DEF HasLoop

(* The blocks of a day: each has its id, and ends after it starts.            *)
BlockRecord == {b \in [id : Nat, start : Nat, end : Nat] : b.start < b.end}
BlockSet(B) ==
    /\ IsFiniteSet(B) /\ B \subseteq BlockRecord
    /\ \A a, b \in B : a.id = b.id => a = b

Booked == {x \in Nat \X Nat : x[1] < x[2]}
DayInv == blocks \in [Block -> Booked \cup {<<>>}]

LEMMA DayInvariantHolds == Spec => []DayInv
  <1>1. Init => DayInv
    BY DEF Init, DayInv
  <1>2. DayInv /\ [Next]_vars => DayInv'
    <2> SUFFICES ASSUME DayInv, [Next]_vars PROVE DayInv'
      OBVIOUS
    <2>1. ASSUME NEW b \in Block, NEW s \in 0..Minute, NEW e \in 0..Minute, Book(b, s, e)
          PROVE  DayInv'
      <3>1. Minute \in Nat
        BY ReportAssumption
      <3>2. <<s, e>> \in Booked
        BY <2>1, <3>1 DEF Booked, Book
      <3>3. blocks' = [blocks EXCEPT ![b] = <<s, e>>]
        BY <2>1 DEF Book
      <3>4. QED
        BY <3>2, <3>3 DEF DayInv
    <2>2. CASE blocks' = blocks
      BY <2>2 DEF DayInv
    <2>3. QED
      BY <2>1, <2>2 DEF Next, vars
  <1>3. QED
    BY <1>1, <1>2, PTL DEF Spec

LEMMA BlocksOfDay ==
  ASSUME DayInv
  PROVE  BlockSet(Blocks)
  <1> DEFINE S == {b \in Block : blocks[b] # <<>>}
             rec(b) == [id |-> b, start |-> blocks[b][1], end |-> blocks[b][2]]
  <1>1. Blocks = {rec(b) : b \in S}
    BY DEF Blocks
  <1>2. IsFiniteSet(S)
    <2>1. IsFiniteSet(Block) /\ S \subseteq Block
      BY ReportAssumption
    <2>2. QED
      BY <2>1, FS_Subset
  <1>3. IsFiniteSet(Blocks)
    <2> DEFINE f == [b \in S |-> rec(b)]
    <2> HIDE DEF S, rec
    <2>1. f \in Surjection(S, Blocks)
      BY <1>1 DEF Surjection
    <2>2. QED
      BY <1>2, <2>1, FS_Surjection
  <1>4. \A b \in S : rec(b) \in BlockRecord /\ rec(b).id = b
    <2> SUFFICES ASSUME NEW b \in S PROVE rec(b) \in BlockRecord /\ rec(b).id = b
      OBVIOUS
    <2>1. blocks[b] \in Booked /\ b \in Nat
      BY ReportAssumption DEF DayInv
    <2>2. blocks[b][1] \in Nat /\ blocks[b][2] \in Nat /\ blocks[b][1] < blocks[b][2]
      BY <2>1 DEF Booked
    <2>3. QED
      BY <2>1, <2>2 DEF BlockRecord
  <1>5. QED
    <2> HIDE DEF S, rec
    <2>1. QED
      BY <1>1, <1>3, <1>4 DEF BlockSet

(* Before is a strict order in which two blocks differ.                       *)
LEMMA BlockOrder ==
  ASSUME NEW B, BlockSet(B), NEW a \in B, NEW b \in B
  PROVE  /\ ~ Before(a, a)
         /\ a # b => Before(a, b) \/ Before(b, a)
         /\ \A c \in B : Before(a, b) /\ Before(b, c) => Before(a, c)
  <1>1. \A x \in B : x.id \in Nat /\ x.start \in Nat /\ x.end \in Nat
    BY DEF BlockSet, BlockRecord
  <1>2. a # b => a.id # b.id
    BY DEF BlockSet
  <1>3. a # b => Before(a, b) \/ Before(b, a)
    BY <1>1, <1>2 DEF Before
  <1>4. \A c \in B : Before(a, b) /\ Before(b, c) => Before(a, c)
    BY <1>1 DEF Before
  <1>5. QED
    BY <1>1, <1>3, <1>4 DEF Before

(* The place of a block.                                                      *)
Earlier(B, b) == {a \in B : Before(a, b)}
PlaceOf(B, b) == Cardinality(Earlier(B, b))

LEMMA PlaceRises ==
  ASSUME NEW B, BlockSet(B), NEW a \in B, NEW b \in B, Before(a, b)
  PROVE  PlaceOf(B, a) < PlaceOf(B, b)
  <1> DEFINE S == Earlier(B, a)
             T == Earlier(B, b)
  <1>1. S \in SUBSET T /\ a \in T /\ a \notin S
    BY BlockOrder DEF Earlier
  <1>2. T \in SUBSET B /\ S \in SUBSET B /\ IsFiniteSet(B)
    BY DEF Earlier, BlockSet
  <1>3. IsFiniteSet(T) /\ IsFiniteSet(S)
    BY <1>2, FS_Subset
  <1> HIDE DEF S, T
  <1>4. Cardinality(S) <= Cardinality(T) /\ (Cardinality(T) = Cardinality(S) => T = S)
    BY <1>1, <1>3, FS_Subset
  <1>5. Cardinality(S) \in Nat /\ Cardinality(T) \in Nat
    BY <1>3, FS_CardinalityType
  <1>6. Cardinality(S) < Cardinality(T)
    BY <1>1, <1>4, <1>5
  <1>7. QED
    BY <1>6 DEF PlaceOf, S, T

LEMMA PlaceOnto ==
  ASSUME NEW B, BlockSet(B)
  PROVE  /\ Cardinality(B) \in Nat
         /\ \A b \in B : PlaceOf(B, b) \in 0..(Cardinality(B) - 1)
         /\ \A k \in 1..Cardinality(B) : \E b \in B : PlaceOf(B, b) = k - 1
  <1> DEFINE n == Cardinality(B)
             f == [b \in B |-> PlaceOf(B, b)]
  <1>0. IsFiniteSet(B)
    BY DEF BlockSet
  <1>1. n \in Nat
    BY <1>0, FS_CardinalityType
  <1>2. ASSUME NEW b \in B PROVE PlaceOf(B, b) \in 0..(n - 1)
    <2> DEFINE E == Earlier(B, b)
    <2>1. E \in SUBSET B /\ b \notin E
      BY BlockOrder DEF Earlier
    <2>2. IsFiniteSet(E) /\ Cardinality(E) <= n /\ (n = Cardinality(E) => B = E)
      BY <1>0, <2>1, FS_Subset
    <2>3. Cardinality(E) \in Nat
      BY <2>2, FS_CardinalityType
    <2>4. Cardinality(E) # n
      BY <2>1, <2>2
    <2> HIDE DEF E
    <2>5. Cardinality(E) \in 0..(n - 1)
      BY <1>1, <2>2, <2>3, <2>4
    <2>6. QED
      BY <2>5 DEF E, PlaceOf
  <1>3. \A a, b \in B : f[a] = f[b] => a = b
    <2> SUFFICES ASSUME NEW a \in B, NEW b \in B, f[a] = f[b], a # b PROVE FALSE
      OBVIOUS
    <2>1. PlaceOf(B, a) < PlaceOf(B, b) \/ PlaceOf(B, b) < PlaceOf(B, a)
      BY BlockOrder, PlaceRises
    <2>2. QED
      BY <1>1, <1>2, <2>1
  <1>4. f \in Injection(B, 0..(n - 1))
    <2>1. f \in [B -> 0..(n - 1)] /\ DOMAIN f = B
      BY <1>2
    <2> HIDE DEF f
    <2>2. QED
      BY <1>3, <2>1 DEF Injection, IsInjective
  <1>5. IsFiniteSet(0..(n - 1)) /\ Cardinality(0..(n - 1)) = n
    BY <1>1, Places
  <1>6. f \in Surjection(B, 0..(n - 1))
    BY <1>4, <1>5, FS_Injection
  <1>7. \A t \in 0..(n - 1) : \E b \in B : f[b] = t
    BY <1>6 DEF Surjection
  <1>8. \A k \in 1..n : k - 1 \in 0..(n - 1)
    BY <1>1
  <1>9. QED
    BY <1>1, <1>2, <1>7, <1>8

(* A list of blocks by their starts.                                          *)
ByStart(o, B) ==
    /\ Len(o) \in Nat /\ o \in Seq(BlockRecord)
    /\ \A i \in 1..Len(o) : o[i] \in B /\ o[i].start \in Nat /\ o[i].end \in Nat /\ o[i].start < o[i].end
    /\ \A b \in B : \E i \in 1..Len(o) : o[i] = b
    /\ \A i, j \in 1..Len(o) : i <= j => o[i].start <= o[j].start

LEMMA OrderedByStart ==
  ASSUME NEW B, BlockSet(B)
  PROVE  ByStart(Ordered(B), B)
  <1> DEFINE n == Cardinality(B)
             o == Ordered(B)
  <1>1. n \in Nat /\ \A k \in 1..n : \E b \in B : PlaceOf(B, b) = k - 1
    BY PlaceOnto
  <1>2. o = [k \in 1..n |-> CHOOSE b \in B : PlaceOf(B, b) = k - 1]
    BY DEF Ordered, PlaceOf, Earlier
  <1> HIDE DEF n, o
  <1>3. \A k \in 1..n : o[k] \in B /\ PlaceOf(B, o[k]) = k - 1
    BY <1>1, <1>2
  <1>4. \A b \in B : b \in BlockRecord /\ b.start \in Nat /\ b.end \in Nat /\ b.start < b.end
    BY DEF BlockSet, BlockRecord
  <1>5. o \in Seq(BlockRecord) /\ Len(o) = n
    <2>1. \A k \in 1..n : o[k] \in BlockRecord
      BY <1>3, <1>4
    <2>2. QED
      BY <1>1, <1>2, <2>1
  <1>6. \A b \in B : \E i \in 1..n : o[i] = b
    <2> SUFFICES ASSUME NEW b \in B PROVE \E i \in 1..n : o[i] = b
      OBVIOUS
    <2>1. PlaceOf(B, b) \in 0..(n - 1)
      BY PlaceOnto DEF n
    <2>2. PlaceOf(B, b) + 1 \in 1..n /\ PlaceOf(B, b) + 1 - 1 = PlaceOf(B, b)
      BY <1>1, <2>1
    <2> DEFINE i == PlaceOf(B, b) + 1
    <2>3. o[i] \in B /\ PlaceOf(B, o[i]) = i - 1
      BY <1>3, <2>2
    <2>4. PlaceOf(B, o[i]) = PlaceOf(B, b)
      BY <2>1, <2>3
    <2> HIDE DEF i
    <2>5. ~ Before(o[i], b) /\ ~ Before(b, o[i])
      BY <2>1, <2>3, <2>4, PlaceRises
    <2>6. o[i] = b
      BY <2>3, <2>5, BlockOrder
    <2>7. QED
      BY <2>2, <2>6 DEF i
  <1>7. \A i, j \in 1..n : i <= j => o[i].start <= o[j].start
    <2> SUFFICES ASSUME NEW i \in 1..n, NEW j \in 1..n, i <= j PROVE o[i].start <= o[j].start
      OBVIOUS
    <2>1. o[i] \in B /\ o[j] \in B /\ PlaceOf(B, o[i]) = i - 1 /\ PlaceOf(B, o[j]) = j - 1
      BY <1>3
    <2>2. ~ Before(o[j], o[i])
      BY <2>1, PlaceRises
    <2>3. o[i].start \in Nat /\ o[j].start \in Nat
      BY <1>4, <2>1
    <2>4. QED
      BY <2>2, <2>3 DEF Before
  <1>8. \A i \in 1..n : o[i] \in B /\ o[i].start \in Nat /\ o[i].end \in Nat /\ o[i].start < o[i].end
    BY <1>3, <1>4
  <1>9. QED
    BY <1>1, <1>5, <1>6, <1>7, <1>8 DEF ByStart, o

(* Breaking off the inner loop loses no conflict: later blocks start later.   *)
LEMMA ConflictsAreShared ==
  ASSUME NEW B, NEW o, o = Ordered(B), ByStart(o, B)
  PROVE  conflicts(B) = {x \in (1..Len(o)) \X (1..Len(o)) :
                           x[1] < x[2] /\ MinutesOf(o[x[1]]) \cap MinutesOf(o[x[2]]) # {}}
  <1> DEFINE n == Len(o)
  <1>1. n \in Nat
    BY DEF ByStart
  <1>2. ASSUME NEW i \in 1..n, NEW j \in 1..n, i < j
        PROVE  (\A k \in (i + 1)..j : ~ Cut(o[i], o[k])) <=> MinutesOf(o[i]) \cap MinutesOf(o[j]) # {}
    <2>1. /\ o[i].start \in Nat /\ o[i].end \in Nat /\ o[j].start \in Nat /\ o[j].end \in Nat
          /\ o[i].start < o[i].end /\ o[j].start < o[j].end /\ o[i].start <= o[j].start
      BY <1>2 DEF ByStart
    <2>2. ASSUME \A k \in (i + 1)..j : ~ Cut(o[i], o[k])
          PROVE  MinutesOf(o[i]) \cap MinutesOf(o[j]) # {}
      <3>1. j \in (i + 1)..j
        BY <1>1, <1>2
      <3>2. o[j].start < o[i].end
        BY <2>1, <2>2, <3>1 DEF Cut
      <3>3. o[j].start \in MinutesOf(o[i]) /\ o[j].start \in MinutesOf(o[j])
        BY <2>1, <3>2 DEF MinutesOf
      <3>4. QED
        BY <3>3
    <2>3. ASSUME NEW t \in MinutesOf(o[i]) \cap MinutesOf(o[j]), NEW k \in (i + 1)..j
          PROVE  ~ Cut(o[i], o[k])
      <3>1. k \in 1..n /\ k <= j
        BY <1>1, <2>3
      <3>2. o[k].start \in Nat /\ o[k].start <= o[j].start
        BY <3>1 DEF ByStart
      <3>3. o[j].start <= t /\ t < o[i].end /\ t \in Int
        BY <2>1, <2>3 DEF MinutesOf
      <3>4. QED
        BY <2>1, <3>2, <3>3 DEF Cut
    <2>4. QED
      BY <2>2, <2>3
  <1>3. conflicts(B) = {x \in (1..n) \X (1..n) :
                          x[1] < x[2] /\ \A k \in (x[1] + 1)..x[2] : ~ Cut(o[x[1]], o[k])}
    BY DEF conflicts
  <1>4. \A x \in (1..n) \X (1..n) : x[1] \in 1..n /\ x[2] \in 1..n
    OBVIOUS
  <1> HIDE DEF n
  <1>5. \A x \in (1..n) \X (1..n) : x[1] < x[2] =>
          ((\A k \in (x[1] + 1)..x[2] : ~ Cut(o[x[1]], o[k]))
             <=> MinutesOf(o[x[1]]) \cap MinutesOf(o[x[2]]) # {})
    BY <1>2, <1>4
  <1>6. conflicts(B) = {x \in (1..n) \X (1..n) :
                          x[1] < x[2] /\ MinutesOf(o[x[1]]) \cap MinutesOf(o[x[2]]) # {}}
    BY <1>3, <1>5
  <1>7. QED
    BY <1>6 DEF n

-----------------------------------------------------------------------------
(* Merging the blocks of a day.                                               *)

Pairs == Int \X Int
LastOf(m) == m[Len(m)]

(* What the loop of merge() does with a block.                                *)
Merging(m, b) ==
    IF Len(m) > 0 /\ b.start <= LastOf(m)[2]
    THEN [m EXCEPT ![Len(m)] = <<LastOf(m)[1], Higher(LastOf(m)[2], b.end)>>]
    ELSE Append(m, <<b.start, b.end>>)

LEMMA MergingShape ==
  ASSUME NEW m \in Seq(Pairs), NEW b, b.start \in Int, b.end \in Int
  PROVE  /\ Merging(m, b) \in Seq(Pairs)
         /\ Len(m) > 0 /\ b.start <= LastOf(m)[2] =>
              /\ Len(Merging(m, b)) = Len(m)
              /\ Merging(m, b)[Len(m)] = <<LastOf(m)[1], Higher(LastOf(m)[2], b.end)>>
              /\ \A k \in 1..(Len(m) - 1) : Merging(m, b)[k] = m[k]
         /\ ~ (Len(m) > 0 /\ b.start <= LastOf(m)[2]) =>
              /\ Len(Merging(m, b)) = Len(m) + 1
              /\ Merging(m, b)[Len(m) + 1] = <<b.start, b.end>>
              /\ \A k \in 1..Len(m) : Merging(m, b)[k] = m[k]
  <1> DEFINE last == Len(m)
  <1>1. last \in Nat /\ \A k \in 1..last : m[k] \in Pairs
    OBVIOUS
  <1>2. CASE Len(m) > 0 /\ b.start <= LastOf(m)[2]
    <2> DEFINE p == <<LastOf(m)[1], Higher(LastOf(m)[2], b.end)>>
               g == [m EXCEPT ![last] = p]
    <2>1. last \in 1..last
      BY <1>1, <1>2
    <2>2. LastOf(m) \in Pairs
      BY <1>1, <2>1 DEF LastOf
    <2>3. p \in Pairs
      BY <2>2 DEF Pairs, Higher
    <2> HIDE DEF p
    <2>4. g \in [1..last -> Pairs] /\ g[last] = p /\ \A k \in 1..(last - 1) : g[k] = m[k]
      BY <1>1, <2>1, <2>3
    <2> HIDE DEF g
    <2>5. g \in Seq(Pairs) /\ Len(g) = last
      BY <1>1, <2>4
    <2>6. Merging(m, b) = g
      BY <1>2 DEF Merging, g, p
    <2>7. QED
      BY <1>2, <2>4, <2>5, <2>6 DEF p
  <1>3. CASE ~ (Len(m) > 0 /\ b.start <= LastOf(m)[2])
    <2> DEFINE p == <<b.start, b.end>>
               g == Append(m, p)
    <2>1. p \in Pairs
      BY DEF Pairs
    <2> HIDE DEF p
    <2>2. g \in Seq(Pairs) /\ Len(g) = last + 1 /\ g[last + 1] = p /\ \A k \in 1..last : g[k] = m[k]
      BY <2>1
    <2> HIDE DEF g
    <2>3. Merging(m, b) = g
      BY <1>3 DEF Merging, g, p
    <2>4. QED
      BY <1>3, <2>2, <2>3 DEF p
  <1>4. QED
    BY <1>2, <1>3

LEMMA MergeLoop ==
  ASSUME NEW B, NEW o, o = Ordered(B), ByStart(o, B)
  PROVE  \E f \in [0..Len(o) -> Seq(Pairs)] :
            /\ f[0] = <<>> /\ \A i \in 1..Len(o) : f[i] = Merging(f[i - 1], o[i])
            /\ merge(B) = f[Len(o)]
  <1> DEFINE n == Len(o)
             A == Seq(Pairs)
             G == [x \in A \X (1..n) |-> Merging(x[1], o[x[2]])]
             Loops(f) == f = [i \in 0..n |-> IF i = 0 THEN <<>> ELSE Merging(f[i - 1], o[i])]
  <1>1. n \in Nat /\ \A i \in 1..n : o[i].start \in Int /\ o[i].end \in Int
    BY DEF ByStart
  <1>2. merge(B) = (CHOOSE f : Loops(f))[n]
    BY DEF merge, Merging, LastOf
  <1> HIDE DEF n
  <1>3. \A m \in A : \A i \in 1..n : Merging(m, o[i]) \in A
    BY <1>1, MergingShape
  <1> HIDE DEF A
  <1>4. G \in [A \X (1..n) -> A]
    BY <1>3
  <1>5. \A m \in A : \A i \in 1..n : G[<<m, i>>] = Merging(m, o[i])
    OBVIOUS
  <1> HIDE DEF G
  <1>6. <<>> \in A
    BY DEF A
  <1>7. PICK f \in [0..n -> A] : f[0] = <<>> /\ \A i \in 1..n : f[i] = G[<<f[i - 1], i>>]
    <2>1. HasLoop(A, <<>>, n, G)
      BY <1>1, <1>4, <1>6, LoopExists
    <2>2. QED
      BY <2>1 DEF HasLoop
  <1>8. \A i \in 1..n : i - 1 \in 0..n
    BY <1>1
  <1>9. \A i \in 1..n : f[i] = Merging(f[i - 1], o[i])
    BY <1>5, <1>7, <1>8
  <1>10. Loops(f)
    <2>1. \A i \in 0..n : f[i] = IF i = 0 THEN <<>> ELSE Merging(f[i - 1], o[i])
      <3> SUFFICES ASSUME NEW i \in 0..n PROVE f[i] = IF i = 0 THEN <<>> ELSE Merging(f[i - 1], o[i])
        OBVIOUS
      <3>1. CASE i = 0
        BY <1>7, <3>1
      <3>2. CASE i # 0
        <4>1. i \in 1..n
          BY <1>1, <3>2
        <4>2. QED
          BY <1>9, <3>2, <4>1
      <3>3. QED
        BY <3>1, <3>2
    <2>2. QED
      BY <1>7, <2>1
  <1>11. \A g : Loops(g) => g[0] = <<>> /\ DOMAIN g = 0..n /\ \A i \in 1..n : g[i] = Merging(g[i - 1], o[i])
    <2> SUFFICES ASSUME NEW g, Loops(g)
                 PROVE  g[0] = <<>> /\ DOMAIN g = 0..n /\ \A i \in 1..n : g[i] = Merging(g[i - 1], o[i])
      OBVIOUS
    <2>1. 0 \in 0..n /\ \A i \in 1..n : i \in 0..n /\ i # 0
      BY <1>1
    <2>2. QED
      BY <2>1
  <1> DEFINE g == CHOOSE h : Loops(h)
  <1>12. Loops(g)
    <2> HIDE DEF Loops
    <2>1. QED
      BY <1>10
  <1> HIDE DEF Loops
  <1>13. g[0] = <<>> /\ DOMAIN g = 0..n /\ \A i \in 1..n : g[i] = Merging(g[i - 1], o[i])
    BY <1>11, <1>12
  <1>14. merge(B) = g[n]
    BY <1>2
  <1>15. g = [i \in 0..n |-> g[i]]
    BY <1>12 DEF Loops
  <1> HIDE DEF g
  <1>16. g \in [0..n -> A]
    <2> DEFINE T == {i \in 0..n : g[i] \in A}
    <2>1. 0 \in T
      BY <1>1, <1>6, <1>13
    <2>2. \A i \in 1..n : i - 1 \in T => i \in T
      BY <1>1, <1>3, <1>13
    <2>3. 0..n \subseteq T
      <3> HIDE DEF T
      <3>1. QED
        BY <1>1, <2>1, <2>2, UpTo
    <2>4. \A i \in 0..n : g[i] \in A
      BY <2>3
    <2>5. QED
      BY <1>15, <2>4
  <1>17. QED
    BY <1>13, <1>14, <1>16 DEF n, A

(* Intervals apart from each other and in order, and the minutes they cover.  *)
Apart(m) ==
    /\ m \in Seq(Pairs)
    /\ \A k \in 1..Len(m) : m[k][1] \in Int /\ m[k][2] \in Int /\ m[k][1] < m[k][2]
    /\ \A k, l \in 1..Len(m) : k < l => m[k][2] < m[l][1]
InInterval(m, t) == \E k \in 1..Len(m) : m[k][1] <= t /\ t < m[k][2]
InBlock(o, i, t) == \E j \in 1..i : o[j].start <= t /\ t < o[j].end

(* The loop after i blocks.                                                   *)
MergedTo(m, o, i) ==
    /\ Apart(m)
    /\ \A t \in Int : InInterval(m, t) <=> InBlock(o, i, t)
    /\ \A k \in 1..Len(m) : \A j \in 1..Len(o) : i < j => m[k][1] <= o[j].start

LEMMA MergeStep ==
  ASSUME NEW B, NEW o, ByStart(o, B), NEW i \in 1..Len(o), NEW m, MergedTo(m, o, i - 1)
  PROVE  MergedTo(Merging(m, o[i]), o, i)
  <1> DEFINE b == o[i]
             s == b.start
             e == b.end
             L == Len(m)
             g == Merging(m, b)
             p == LastOf(m)
  <1>1. s \in Int /\ e \in Int /\ s < e
    BY DEF ByStart
  <1>2. /\ m \in Seq(Pairs) /\ L \in Nat
        /\ \A k \in 1..L : m[k][1] \in Int /\ m[k][2] \in Int /\ m[k][1] < m[k][2]
        /\ \A k, l \in 1..L : k < l => m[k][2] < m[l][1]
    BY DEF MergedTo, Apart
  <1>3. i \in Nat /\ i - 1 \in Nat /\ 1..i = (1..(i - 1)) \cup {i}
    BY DEF ByStart
  <1>4. \A t \in Int : InBlock(o, i, t) <=> InInterval(m, t) \/ (s <= t /\ t < e)
    <2>1. \A t \in Int : InBlock(o, i, t) <=> InBlock(o, i - 1, t) \/ (s <= t /\ t < e)
      BY <1>3 DEF InBlock
    <2>2. QED
      BY <2>1 DEF MergedTo
  <1>5. \A j \in 1..Len(o) : i < j => s <= o[j].start
    BY DEF ByStart
  <1>6. \A k \in 1..L : m[k][1] <= s
    BY <1>3 DEF MergedTo
  <1>7. \A k \in 1..L : \A j \in 1..Len(o) : i < j => m[k][1] <= o[j].start
    BY <1>3 DEF MergedTo
  <1>8. CASE L > 0 /\ s <= p[2]
    <2> DEFINE h == Higher(p[2], e)
    <2>1. /\ g \in Seq(Pairs) /\ Len(g) = L /\ g[L] = <<p[1], h>>
          /\ \A k \in 1..(L - 1) : g[k] = m[k]
      BY <1>1, <1>2, <1>8, MergingShape
    <2>2. L \in 1..L /\ p = m[L] /\ p[1] \in Int /\ p[2] \in Int /\ p[1] < p[2] /\ p[1] <= s
      BY <1>2, <1>6, <1>8 DEF LastOf
    <2>3. h \in Int /\ p[2] <= h /\ e <= h /\ (h = p[2] \/ h = e)
      BY <1>1, <2>2 DEF Higher
    <2> HIDE DEF h, p, g
    <2>4. g[L][1] = p[1] /\ g[L][2] = h
      BY <2>1
    <2>5. \A k \in 1..L : k = L \/ (k \in 1..(L - 1) /\ g[k] = m[k] /\ k < L)
      BY <1>2, <2>1
    <2> HIDE DEF L, s, e
    <2>6. \A k \in 1..L : g[k][1] = m[k][1] /\ g[k][1] \in Int /\ g[k][2] \in Int /\ g[k][1] < g[k][2]
      <3> SUFFICES ASSUME NEW k \in 1..L
                   PROVE  g[k][1] = m[k][1] /\ g[k][1] \in Int /\ g[k][2] \in Int /\ g[k][1] < g[k][2]
        OBVIOUS
      <3>1. CASE k = L
        <4>1. g[k][1] = p[1] /\ g[k][2] = h /\ m[k][1] = p[1]
          BY <2>2, <2>4, <3>1
        <4>2. p[1] < h
          BY <2>2, <2>3
        <4>3. QED
          BY <2>2, <2>3, <4>1, <4>2
      <3>2. CASE k # L
        BY <1>2, <2>5, <3>2
      <3>3. QED
        BY <3>1, <3>2
    <2>7. \A k, l \in 1..L : k < l => g[k][2] < g[l][1]
      <3> SUFFICES ASSUME NEW k \in 1..L, NEW l \in 1..L, k < l PROVE g[k][2] < g[l][1]
        OBVIOUS
      <3>1. k # L
        BY <1>2
      <3>2. g[k][2] = m[k][2] /\ g[l][1] = m[l][1]
        BY <2>5, <2>6, <3>1
      <3>3. QED
        BY <1>2, <3>2
    <2>8. \A t \in Int : InInterval(g, t) <=> InInterval(m, t) \/ (s <= t /\ t < e)
      <3> SUFFICES ASSUME NEW t \in Int PROVE InInterval(g, t) <=> InInterval(m, t) \/ (s <= t /\ t < e)
        OBVIOUS
      <3>1. InInterval(g, t) <=> \E k \in 1..L : g[k][1] <= t /\ t < g[k][2]
        BY <2>1 DEF InInterval
      <3>2. InInterval(m, t) <=> \E k \in 1..L : m[k][1] <= t /\ t < m[k][2]
        BY DEF InInterval, L
      <3>3. p[1] <= t /\ t < h <=> (p[1] <= t /\ t < p[2]) \/ (s <= t /\ t < e)
        BY <1>1, <1>8, <2>2, <2>3
      <3>4. ASSUME InInterval(g, t) PROVE InInterval(m, t) \/ (s <= t /\ t < e)
        <4>1. PICK k \in 1..L : g[k][1] <= t /\ t < g[k][2]
          BY <3>1, <3>4
        <4>2. CASE k = L
          BY <2>2, <2>4, <3>2, <3>3, <4>1, <4>2
        <4>3. CASE k # L
          BY <2>5, <3>2, <4>1, <4>3
        <4>4. QED
          BY <4>2, <4>3
      <3>5. ASSUME InInterval(m, t) PROVE InInterval(g, t)
        <4>1. PICK k \in 1..L : m[k][1] <= t /\ t < m[k][2]
          BY <3>2, <3>5
        <4>2. CASE k = L
          BY <2>2, <2>4, <3>1, <3>3, <4>1, <4>2
        <4>3. CASE k # L
          BY <2>5, <3>1, <4>1, <4>3
        <4>4. QED
          BY <4>2, <4>3
      <3>6. ASSUME s <= t, t < e PROVE InInterval(g, t)
        BY <2>2, <2>4, <3>1, <3>3, <3>6
      <3>7. QED
        BY <3>4, <3>5, <3>6
    <2>9. \A t \in Int : InInterval(g, t) <=> InBlock(o, i, t)
      BY <1>4, <2>8
    <2>10. QED
      BY <1>7, <2>1, <2>6, <2>7, <2>9 DEF MergedTo, Apart, g
  <1>9. CASE ~ (L > 0 /\ s <= p[2])
    <2>1. /\ g \in Seq(Pairs) /\ Len(g) = L + 1 /\ g[L + 1] = <<s, e>>
          /\ \A k \in 1..L : g[k] = m[k]
      BY <1>1, <1>2, <1>9, MergingShape
    <2>2. \A k \in 1..L : m[k][2] < s
      <3> SUFFICES ASSUME NEW k \in 1..L PROVE m[k][2] < s
        OBVIOUS
      <3>1. L \in 1..L /\ p = m[L] /\ L > 0
        BY <1>2 DEF LastOf
      <3>2. p[1] \in Int /\ p[2] \in Int /\ p[1] < p[2] /\ p[2] < s
        BY <1>1, <1>2, <1>9, <3>1
      <3>3. k = L \/ k < L
        BY <1>2
      <3>4. CASE k = L
        BY <3>1, <3>2, <3>4
      <3>5. CASE k < L
        <4>1. m[k][2] < p[1] /\ m[k][2] \in Int
          BY <1>2, <3>1, <3>5
        <4> HIDE DEF p, s
        <4>2. QED
          BY <1>1, <3>2, <4>1
      <3>6. QED
        BY <3>3, <3>4, <3>5
    <2> HIDE DEF g
    <2>3. g[L + 1][1] = s /\ g[L + 1][2] = e
      BY <2>1
    <2>4. \A k \in 1..(L + 1) : k = L + 1 \/ (k \in 1..L /\ g[k] = m[k])
      BY <1>2, <2>1
    <2>5. L + 1 \in 1..(L + 1) /\ \A k \in 1..L : k \in 1..(L + 1)
      BY <1>2
    <2> HIDE DEF L, s, e
    <2>6. \A k \in 1..(L + 1) : g[k][1] \in Int /\ g[k][2] \in Int /\ g[k][1] < g[k][2]
      BY <1>1, <1>2, <2>3, <2>4
    <2>7. \A k, l \in 1..(L + 1) : k < l => g[k][2] < g[l][1]
      <3> SUFFICES ASSUME NEW k \in 1..(L + 1), NEW l \in 1..(L + 1), k < l PROVE g[k][2] < g[l][1]
        OBVIOUS
      <3>1. k \in 1..L /\ g[k] = m[k]
        BY <1>2, <2>4
      <3>2. CASE l = L + 1
        BY <2>2, <2>3, <3>1, <3>2
      <3>3. CASE l # L + 1
        BY <1>2, <2>4, <3>1, <3>3
      <3>4. QED
        BY <3>2, <3>3
    <2>8. \A t \in Int : InInterval(g, t) <=> InInterval(m, t) \/ (s <= t /\ t < e)
      <3> SUFFICES ASSUME NEW t \in Int PROVE InInterval(g, t) <=> InInterval(m, t) \/ (s <= t /\ t < e)
        OBVIOUS
      <3>1. InInterval(g, t) <=> \E k \in 1..(L + 1) : g[k][1] <= t /\ t < g[k][2]
        BY <2>1 DEF InInterval
      <3>2. InInterval(m, t) <=> \E k \in 1..L : m[k][1] <= t /\ t < m[k][2]
        BY DEF InInterval, L
      <3>3. \A k \in 1..L : g[k] = m[k]
        BY <2>1
      <3>4. QED
        BY <2>3, <2>4, <2>5, <3>1, <3>2, <3>3
    <2>9. \A t \in Int : InInterval(g, t) <=> InBlock(o, i, t)
      BY <1>4, <2>8
    <2>10. \A k \in 1..(L + 1) : \A j \in 1..Len(o) : i < j => g[k][1] <= o[j].start
      BY <1>5, <1>7, <2>3, <2>4
    <2>11. QED
      BY <2>1, <2>6, <2>7, <2>9, <2>10 DEF MergedTo, Apart, g
  <1>10. QED
    BY <1>8, <1>9

(* merge() gives the minutes of the blocks, as intervals apart.               *)
LEMMA MergeCovers ==
  ASSUME NEW B, NEW o, o = Ordered(B), ByStart(o, B)
  PROVE  /\ Apart(merge(B))
         /\ \A t \in Int : InInterval(merge(B), t) <=> \E b \in B : b.start <= t /\ t < b.end
  <1> DEFINE n == Len(o)
  <1>1. PICK f \in [0..n -> Seq(Pairs)] :
            /\ f[0] = <<>> /\ \A i \in 1..n : f[i] = Merging(f[i - 1], o[i])
            /\ merge(B) = f[n]
    BY MergeLoop
  <1>2. n \in Nat
    BY DEF ByStart
  <1> DEFINE T == {i \in 0..n : MergedTo(f[i], o, i)}
  <1>3. 0 \in T
    <2>1. f[0] \in Seq(Pairs) /\ Len(f[0]) = 0 /\ 1..0 = {}
      BY <1>1
    <2>2. QED
      BY <1>2, <2>1 DEF MergedTo, Apart, InInterval, InBlock
  <1>4. \A i \in 1..n : i - 1 \in T => i \in T
    <2> SUFFICES ASSUME NEW i \in 1..n, i - 1 \in T PROVE i \in T
      OBVIOUS
    <2>1. MergedTo(Merging(f[i - 1], o[i]), o, i)
      BY MergeStep
    <2>2. QED
      BY <1>1, <1>2, <2>1
  <1>5. 0..n \subseteq T
    <2> HIDE DEF T, n
    <2>1. QED
      BY <1>2, <1>3, <1>4, UpTo
  <1>6. MergedTo(merge(B), o, n)
    BY <1>1, <1>2, <1>5
  <1>7. \A t \in Int : InBlock(o, n, t) <=> \E b \in B : b.start <= t /\ t < b.end
    BY DEF InBlock, ByStart
  <1>8. QED
    BY <1>6, <1>7 DEF MergedTo

-----------------------------------------------------------------------------
(* The booked minutes.                                                        *)

(* The minutes of the first i intervals.                                      *)
CoveredBy(m, i) == {t \in Int : \E k \in 1..i : m[k][1] <= t /\ t < m[k][2]}

LEMMA SumLoop ==
  ASSUME NEW B, Apart(merge(B))
  PROVE  \E f \in [0..Len(merge(B)) -> Int] :
            /\ f[0] = 0
            /\ \A i \in 1..Len(merge(B)) : f[i] = f[i - 1] + merge(B)[i][2] - merge(B)[i][1]
            /\ booked_minutes(B) = f[Len(merge(B))]
  <1> DEFINE m == merge(B)
             n == Len(m)
             G == [x \in Int \X (1..n) |-> x[1] + m[x[2]][2] - m[x[2]][1]]
             Loops(f) == f = [i \in 0..n |-> IF i = 0 THEN 0 ELSE f[i - 1] + m[i][2] - m[i][1]]
  <1>1. n \in Nat /\ \A i \in 1..n : m[i][1] \in Int /\ m[i][2] \in Int
    BY DEF Apart
  <1>2. booked_minutes(B) = (CHOOSE f : Loops(f))[n]
    BY DEF booked_minutes
  <1> HIDE DEF n, m
  <1>3. G \in [Int \X (1..n) -> Int]
    BY <1>1
  <1>4. \A x \in Int : \A i \in 1..n : G[<<x, i>>] = x + m[i][2] - m[i][1]
    OBVIOUS
  <1> HIDE DEF G
  <1>5. PICK f \in [0..n -> Int] : f[0] = 0 /\ \A i \in 1..n : f[i] = G[<<f[i - 1], i>>]
    <2>1. 0 \in Int
      OBVIOUS
    <2>2. HasLoop(Int, 0, n, G)
      BY <1>1, <1>3, <2>1, LoopExists
    <2>3. QED
      BY <2>2 DEF HasLoop
  <1>6. \A i \in 1..n : i - 1 \in 0..n /\ i \in 0..n /\ i # 0
    BY <1>1
  <1>7. \A i \in 1..n : f[i] = f[i - 1] + m[i][2] - m[i][1]
    BY <1>4, <1>5, <1>6
  <1>8. Loops(f)
    <2>1. \A i \in 0..n : f[i] = IF i = 0 THEN 0 ELSE f[i - 1] + m[i][2] - m[i][1]
      <3> SUFFICES ASSUME NEW i \in 0..n
                   PROVE  f[i] = IF i = 0 THEN 0 ELSE f[i - 1] + m[i][2] - m[i][1]
        OBVIOUS
      <3>1. i = 0 \/ i \in 1..n
        BY <1>1
      <3>2. QED
        BY <1>5, <1>6, <1>7, <3>1
    <2>2. QED
      BY <1>5, <2>1
  <1> DEFINE g == CHOOSE h : Loops(h)
  <1>9. Loops(g)
    <2> HIDE DEF Loops
    <2>1. QED
      BY <1>8
  <1>10. booked_minutes(B) = g[n]
    BY <1>2
  <1> HIDE DEF g
  <1>11. g[0] = 0 /\ \A i \in 1..n : g[i] = g[i - 1] + m[i][2] - m[i][1]
    BY <1>1, <1>6, <1>9
  <1>12. g = [i \in 0..n |-> g[i]]
    BY <1>9
  <1> HIDE DEF Loops
  <1>13. g \in [0..n -> Int]
    <2> DEFINE T == {i \in 0..n : g[i] \in Int}
    <2>1. 0 \in T
      BY <1>1, <1>11
    <2>2. \A i \in 1..n : i - 1 \in T => i \in T
      <3> SUFFICES ASSUME NEW i \in 1..n, g[i - 1] \in Int PROVE i \in 0..n /\ g[i] \in Int
        OBVIOUS
      <3>1. g[i] = g[i - 1] + m[i][2] - m[i][1]
        BY <1>11
      <3>2. m[i][1] \in Int /\ m[i][2] \in Int
        BY <1>1
      <3>3. QED
        BY <1>6, <3>1, <3>2
    <2>3. 0..n \subseteq T
      <3> HIDE DEF T
      <3>1. QED
        BY <1>1, <2>1, <2>2, UpTo
    <2>4. QED
      BY <1>12, <2>3
  <1>14. QED
    BY <1>10, <1>11, <1>13 DEF n, m

(* The lengths of intervals apart add up to the minutes they cover.           *)
LEMMA BookedIsCovered ==
  ASSUME NEW B, Apart(merge(B))
  PROVE  booked_minutes(B) = Cardinality({t \in Int : InInterval(merge(B), t)})
  <1> DEFINE m == merge(B)
             n == Len(m)
             C(i) == CoveredBy(m, i)
  <1>1. PICK f \in [0..n -> Int] :
            /\ f[0] = 0 /\ \A i \in 1..n : f[i] = f[i - 1] + m[i][2] - m[i][1]
            /\ booked_minutes(B) = f[n]
    BY SumLoop
  <1>2. /\ n \in Nat /\ \A i \in 1..n : m[i][1] \in Int /\ m[i][2] \in Int /\ m[i][1] < m[i][2]
        /\ \A k, l \in 1..n : k < l => m[k][2] < m[l][1]
    BY DEF Apart
  <1>3. C(n) = {t \in Int : InInterval(m, t)}
    BY DEF CoveredBy, InInterval
  <1> HIDE DEF n, m
  <1> DEFINE T == {i \in 0..n : IsFiniteSet(C(i)) /\ f[i] = Cardinality(C(i))}
  <1>4. 0 \in T
    <2>1. C(0) = {}
      BY DEF CoveredBy
    <2>2. QED
      <3>1. IsFiniteSet({}) /\ Cardinality({}) = 0
        BY FS_EmptySet
      <3>2. 0 \in 0..n
        BY <1>2
      <3> HIDE DEF C
      <3>3. QED
        BY <1>1, <2>1, <3>1, <3>2
  <1>5. ASSUME NEW i \in 1..n, i - 1 \in T PROVE i \in T
    <2> DEFINE D == m[i][1]..(m[i][2] - 1)
               P == C(i - 1)
    <2>1. IsFiniteSet(P) /\ f[i - 1] = Cardinality(P)
      BY <1>5
    <2>2. m[i][1] \in Int /\ m[i][2] \in Int /\ m[i][1] < m[i][2]
      BY <1>2
    <2>3. C(i) = P \cup D
      <3>1. 1..i = (1..(i - 1)) \cup {i}
        BY <1>2
      <3>2. D = {t \in Int : m[i][1] <= t /\ t < m[i][2]}
        BY <2>2
      <3> HIDE DEF D
      <3>3. QED
        BY <3>1, <3>2 DEF CoveredBy
    <2>4. P \cap D = {}
      <3> SUFFICES ASSUME NEW t \in P, t \in D PROVE FALSE
        OBVIOUS
      <3>1. PICK k \in 1..(i - 1) : m[k][1] <= t /\ t < m[k][2]
        BY DEF CoveredBy
      <3>2. k \in 1..n /\ k < i
        BY <1>2
      <3>3. m[k][2] < m[i][1] /\ m[k][2] \in Int
        BY <1>2, <3>2
      <3>4. t \in Int /\ m[i][1] <= t
        BY <2>2
      <3>5. QED
        BY <2>2, <3>1, <3>3, <3>4
    <2>5. IsFiniteSet(D) /\ Cardinality(D) = m[i][2] - m[i][1]
      <3> DEFINE a == m[i][1]
                 b == m[i][2] - 1
      <3>1. a \in Int /\ b \in Int /\ ~ (a > b) /\ b - a + 1 = m[i][2] - m[i][1]
        BY <2>2
      <3> HIDE DEF a, b
      <3>2. IsFiniteSet(a..b) /\ Cardinality(a..b) = b - a + 1
        BY <3>1, FS_Interval
      <3>3. QED
        BY <3>1, <3>2 DEF a, b
    <2> HIDE DEF D, P
    <2>6. /\ IsFiniteSet(P \cup D)
          /\ Cardinality(P \cup D) = Cardinality(P) + Cardinality(D) - Cardinality(P \cap D)
      BY <2>1, <2>5, FS_Union
    <2>7. Cardinality(P \cap D) = 0 /\ Cardinality(P) \in Nat
      BY <2>1, <2>4, FS_EmptySet, FS_CardinalityType
    <2>8. Cardinality(P \cup D) = Cardinality(P) + m[i][2] - m[i][1]
      BY <2>2, <2>5, <2>6, <2>7
    <2>9. f[i] = Cardinality(C(i)) /\ IsFiniteSet(C(i))
      BY <1>1, <2>1, <2>3, <2>6, <2>8
    <2>10. i \in 0..n
      BY <1>2
    <2>11. QED
      BY <2>9, <2>10
  <1>6. n \in T
    <2> HIDE DEF T
    <2>1. 0..n \subseteq T
      BY <1>2, <1>4, <1>5, UpTo
    <2>2. n \in 0..n
      BY <1>2
    <2>3. QED
      BY <2>1, <2>2
  <1>7. QED
    BY <1>1, <1>3, <1>6 DEF m

-----------------------------------------------------------------------------
(* The longest free stretch.                                                  *)

Seen == [gap : Int, cursor : Int]

(* What the loop of largest_gap() does with the interval [a, b).              *)
Passing(x, a, b, s, e) ==
    IF b <= s \/ a >= e THEN x
    ELSE [gap |-> Higher(x.gap, Lower(a, e) - x.cursor), cursor |-> Higher(x.cursor, Lower(b, e))]

GapRun(f, m, s, e) ==
    /\ f \in [0..Len(m) -> Seen] /\ f[0] = [gap |-> 0, cursor |-> s]
    /\ \A i \in 1..Len(m) : f[i] = Passing(f[i - 1], m[i][1], m[i][2], s, e)
    /\ largest_gap(m, s, e) = Higher(f[Len(m)].gap, e - f[Len(m)].cursor)

LEMMA GapLoop ==
  ASSUME NEW m, Apart(m), NEW s \in Int, NEW e \in Int
  PROVE  \E f : GapRun(f, m, s, e)
  <1> DEFINE n == Len(m)
             A == Seen
             first == [gap |-> 0, cursor |-> s]
             P(x, i) == Passing(x, m[i][1], m[i][2], s, e)
             G == [x \in A \X (1..n) |-> P(x[1], x[2])]
             Loops(f) == f = [i \in 0..n |-> IF i = 0 THEN first ELSE P(f[i - 1], i)]
  <1>1. n \in Nat
    BY DEF Apart
  <1>2. \A i \in 1..n : m[i][1] \in Int /\ m[i][2] \in Int
    BY DEF Apart
  <1>3. largest_gap(m, s, e) = Higher((CHOOSE f : Loops(f))[n].gap, e - (CHOOSE f : Loops(f))[n].cursor)
    BY DEF largest_gap, Passing
  <1> HIDE DEF n
  <1>4. \A x \in A : \A i \in 1..n : P(x, i) \in A
    BY <1>2 DEF Seen, Passing, Higher, Lower
  <1>5. first \in A
    BY DEF Seen
  <1> HIDE DEF A, P, first
  <1>6. G \in [A \X (1..n) -> A]
    BY <1>4
  <1>7. \A x \in A : \A i \in 1..n : G[<<x, i>>] = P(x, i)
    OBVIOUS
  <1> HIDE DEF G
  <1>8. PICK f \in [0..n -> A] : f[0] = first /\ \A i \in 1..n : f[i] = G[<<f[i - 1], i>>]
    <2>1. HasLoop(A, first, n, G)
      BY <1>1, <1>5, <1>6, LoopExists
    <2>2. QED
      BY <2>1 DEF HasLoop
  <1>9. \A i \in 1..n : i - 1 \in 0..n /\ i \in 0..n /\ i # 0
    BY <1>1
  <1>10. \A i \in 1..n : f[i] = P(f[i - 1], i)
    BY <1>7, <1>8, <1>9
  <1>11. Loops(f)
    <2>1. \A i \in 0..n : f[i] = IF i = 0 THEN first ELSE P(f[i - 1], i)
      <3> SUFFICES ASSUME NEW i \in 0..n PROVE f[i] = IF i = 0 THEN first ELSE P(f[i - 1], i)
        OBVIOUS
      <3>1. i = 0 \/ i \in 1..n
        BY <1>1
      <3>2. QED
        BY <1>8, <1>9, <1>10, <3>1
    <2>2. QED
      BY <1>8, <2>1
  <1> DEFINE g == CHOOSE h : Loops(h)
  <1>12. Loops(g)
    <2> HIDE DEF Loops
    <2>1. QED
      BY <1>11
  <1>13. largest_gap(m, s, e) = Higher(g[n].gap, e - g[n].cursor)
    BY <1>3
  <1> HIDE DEF g
  <1>14. g[0] = first /\ \A i \in 1..n : g[i] = P(g[i - 1], i)
    BY <1>1, <1>9, <1>12
  <1>15. g = [i \in 0..n |-> g[i]]
    BY <1>12
  <1> HIDE DEF Loops
  <1>16. g \in [0..n -> A]
    <2> DEFINE T == {i \in 0..n : g[i] \in A}
    <2>1. 0 \in T
      BY <1>1, <1>5, <1>14
    <2>2. \A i \in 1..n : i - 1 \in T => i \in T
      BY <1>4, <1>9, <1>14
    <2>3. 0..n \subseteq T
      <3> HIDE DEF T
      <3>1. QED
        BY <1>1, <2>1, <2>2, UpTo
    <2>4. QED
      BY <1>15, <2>3
  <1>17. QED
    BY <1>13, <1>14, <1>16 DEF n, A, P, first, GapRun

(* No minute of [u, v) is in an interval.                                     *)
FreeOf(m, u, v) == \A t \in Int : u <= t /\ t < v => ~ InInterval(m, t)

(* The loop after i intervals: the gap is a free stretch's, the cursor is     *)
(* past the intervals seen, and a longer free stretch starts after it.        *)
PassedTo(x, m, s, e, i) ==
    /\ x.cursor \in s..e /\ x.gap \in Nat
    /\ x.gap = 0 \/ \E u, v \in s..e : u < v /\ FreeOf(m, u, v) /\ x.gap = v - u
    /\ \A u, v \in s..e : u < v /\ FreeOf(m, u, v) => v - u <= x.gap \/ x.cursor <= u
    /\ \A k \in 1..i : m[k][2] <= x.cursor \/ m[k][1] >= e \/ x.cursor = e

LEMMA PassStep ==
  ASSUME NEW m, Apart(m), NEW s \in Int, NEW e \in Int, s < e, NEW i \in 1..Len(m),
         NEW x \in Seen, PassedTo(x, m, s, e, i - 1)
  PROVE  PassedTo(Passing(x, m[i][1], m[i][2], s, e), m, s, e, i)
  <1> DEFINE a == m[i][1]
             b == m[i][2]
             c == x.cursor
             y == Passing(x, a, b, s, e)
             n == Len(m)
  <1>1. /\ n \in Nat /\ i \in Nat /\ a \in Int /\ b \in Int /\ a < b
        /\ \A k \in 1..n : m[k][1] \in Int /\ m[k][2] \in Int /\ m[k][1] < m[k][2]
        /\ \A k, l \in 1..n : k < l => m[k][2] < m[l][1]
    BY DEF Apart
  <1>2. /\ c \in Int /\ s <= c /\ c <= e /\ x.gap \in Nat
        /\ x.gap = 0 \/ \E u, v \in s..e : u < v /\ FreeOf(m, u, v) /\ x.gap = v - u
        /\ \A u, v \in s..e : u < v /\ FreeOf(m, u, v) => v - u <= x.gap \/ c <= u
        /\ \A k \in 1..(i - 1) : m[k][2] <= c \/ m[k][1] >= e \/ c = e
    BY DEF PassedTo
  <1>3. \A k \in 1..i : k = i \/ k \in 1..(i - 1)
    BY <1>1
  <1>4. CASE b <= s \/ a >= e
    <2>1. y = x
      BY <1>4 DEF Passing
    <2> HIDE DEF y, a, b, c
    <2>2. \A k \in 1..i : m[k][2] <= c \/ m[k][1] >= e \/ c = e
      <3>1. b <= c \/ a >= e
        BY <1>1, <1>2, <1>4
      <3>2. QED
        BY <1>2, <1>3, <3>1 DEF a, b
    <2>3. PassedTo(x, m, s, e, i)
      BY <1>2, <2>2 DEF PassedTo, c
    <2>4. QED
      BY <2>1, <2>3 DEF y, a, b
  <1>5. CASE b > s /\ a < e
    <2> DEFINE d == Lower(b, e)
               g == Higher(x.gap, a - c)
               q == Higher(c, d)
    <2>1. y.gap = g /\ y.cursor = q
      <3>1. Lower(a, e) = a
        BY <1>1, <1>5 DEF Lower
      <3>2. y = [gap |-> Higher(x.gap, Lower(a, e) - c), cursor |-> Higher(c, Lower(b, e))]
        BY <1>1, <1>5 DEF Passing
      <3>3. QED
        BY <3>1, <3>2
    <2>2. d \in Int /\ d <= b /\ s <= d /\ d <= e /\ (d = b \/ d = e)
      BY <1>1, <1>5 DEF Lower
    <2> HIDE DEF d, a, b, c
    <2>3. g \in Nat /\ x.gap <= g /\ a - c <= g /\ (g = x.gap \/ g = a - c)
      BY <1>1, <1>2 DEF Higher
    <2>4. q \in Int /\ c <= q /\ d <= q /\ q <= e /\ (q = c \/ q = d)
      BY <1>2, <2>2 DEF Higher
    <2> HIDE DEF g, q, y
    <2>5. \A k \in 1..i : m[k][2] <= q \/ m[k][1] >= e \/ q = e
      <3>1. b <= q \/ q = e
        BY <1>1, <2>2, <2>4
      <3>2. ASSUME NEW k \in 1..(i - 1) PROVE m[k][2] <= q \/ m[k][1] >= e \/ q = e
        <4>1. k \in 1..n
          BY <1>1
        <4>2. QED
          BY <1>1, <1>2, <2>4, <4>1
      <3>3. QED
        BY <1>3, <3>1, <3>2 DEF b
    <2>6. g = 0 \/ \E u, v \in s..e : u < v /\ FreeOf(m, u, v) /\ g = v - u
      <3>1. CASE g = x.gap
        BY <1>2, <3>1
      <3>2. CASE g # x.gap
        <4>1. g = a - c /\ c < a
          BY <1>1, <1>2, <2>3, <3>2
        <4>2. c \in s..e /\ a \in s..e
          BY <1>1, <1>2, <1>5, <4>1
        <4>3. FreeOf(m, c, a)
          <5> SUFFICES ASSUME NEW t \in Int, c <= t, t < a, NEW k \in 1..n, m[k][1] <= t, t < m[k][2]
                       PROVE  FALSE
            BY DEF FreeOf, InInterval
          <5>1. k < i \/ k = i \/ k > i
            BY <1>1
          <5>2. CASE k < i
            <6>1. k \in 1..(i - 1)
              BY <1>1, <5>2
            <6>2. QED
              BY <1>1, <1>2, <1>5, <4>1, <6>1
          <5>3. CASE k = i
            BY <1>1, <5>3 DEF a
          <5>4. CASE k > i
            <6>1. b < m[k][1]
              BY <1>1, <5>4 DEF b
            <6>2. QED
              BY <1>1, <6>1
          <5>5. QED
            BY <5>1, <5>2, <5>3, <5>4
        <4>4. QED
          BY <4>1, <4>2, <4>3
      <3>3. QED
        BY <3>1, <3>2
    <2>7. ASSUME NEW u \in s..e, NEW v \in s..e, u < v, FreeOf(m, u, v)
          PROVE  v - u <= g \/ q <= u
      <3>1. v - u <= x.gap \/ c <= u
        BY <1>2, <2>7
      <3>2. v <= a \/ b <= u
        <4> SUFFICES ASSUME a < v, u < b PROVE FALSE
          BY <1>1
        <4>1. PICK t \in Int : u <= t /\ t < v /\ a <= t /\ t < b
          <5>1. CASE u <= a
            <6>1. a \in Int /\ u <= a /\ a < v /\ a <= a /\ a < b
              BY <1>1, <5>1
            <6>2. QED
              BY <6>1
          <5>2. CASE a < u
            <6>1. u \in Int /\ u <= u /\ u < v /\ a <= u /\ u < b
              BY <1>1, <2>7, <5>2
            <6>2. QED
              BY <6>1
          <5>3. QED
            BY <1>1, <5>1, <5>2
        <4>2. InInterval(m, t)
          BY <4>1 DEF InInterval, a, b
        <4>3. QED
          BY <2>7, <4>1, <4>2 DEF FreeOf
      <3>3. CASE v - u <= x.gap
        BY <1>2, <2>3, <3>3
      <3>4. CASE c <= u /\ v <= a
        BY <1>1, <1>2, <2>3, <3>4
      <3>5. CASE c <= u /\ b <= u
        BY <1>1, <1>2, <2>2, <2>4, <3>5
      <3>6. QED
        BY <3>1, <3>2, <3>3, <3>4, <3>5
    <2>8. q \in s..e
      BY <1>2, <2>4
    <2>9. PassedTo(y, m, s, e, i)
      BY <2>1, <2>3, <2>5, <2>6, <2>7, <2>8 DEF PassedTo
    <2>10. QED
      BY <2>9 DEF y, a, b
  <1>6. QED
    BY <1>1, <1>4, <1>5

(* largest_gap() is the length of the longest free stretch of a window.       *)
LEMMA GapIsLongest ==
  ASSUME NEW m, Apart(m), NEW s \in Int, NEW e \in Int, s < e
  PROVE  /\ largest_gap(m, s, e) \in Nat
         /\ \/ largest_gap(m, s, e) = 0
            \/ \E u, v \in s..e : u < v /\ FreeOf(m, u, v) /\ largest_gap(m, s, e) = v - u
         /\ \A u, v \in s..e : u < v /\ FreeOf(m, u, v) => v - u <= largest_gap(m, s, e)
  <1> DEFINE n == Len(m)
             r == largest_gap(m, s, e)
  <1>1. PICK f :
            /\ f \in [0..n -> Seen] /\ f[0] = [gap |-> 0, cursor |-> s]
            /\ \A i \in 1..n : f[i] = Passing(f[i - 1], m[i][1], m[i][2], s, e)
            /\ r = Higher(f[n].gap, e - f[n].cursor)
    <2>1. \E f : GapRun(f, m, s, e)
      BY GapLoop
    <2>2. QED
      BY <2>1 DEF GapRun
  <1>2. n \in Nat /\ \A k \in 1..n : m[k][1] \in Int /\ m[k][2] \in Int /\ m[k][1] < m[k][2]
    BY DEF Apart
  <1> HIDE DEF r
  <1> DEFINE T == {i \in 0..n : PassedTo(f[i], m, s, e, i)}
  <1>3. 0 \in T
    <2>1. f[0].gap = 0 /\ f[0].cursor = s /\ 1..0 = {} /\ s \in s..e
      BY <1>1
    <2>2. \A u \in s..e : s <= u
      OBVIOUS
    <2>3. QED
      BY <1>2, <2>1, <2>2 DEF PassedTo
  <1>4. \A i \in 1..n : i - 1 \in T => i \in T
    <2> SUFFICES ASSUME NEW i \in 1..n, i - 1 \in T PROVE i \in T
      OBVIOUS
    <2>1. f[i - 1] \in Seen /\ PassedTo(f[i - 1], m, s, e, i - 1) /\ i \in 0..n
      <3>1. i \in 0..n /\ i - 1 \in 0..n
        BY <1>2
      <3>2. f[i - 1] \in Seen
        BY <1>1, <3>1
      <3>3. PassedTo(f[i - 1], m, s, e, i - 1)
        OBVIOUS
      <3>4. QED
        BY <3>1, <3>2, <3>3
    <2>2. PassedTo(Passing(f[i - 1], m[i][1], m[i][2], s, e), m, s, e, i)
      BY <2>1, PassStep
    <2>3. f[i] = Passing(f[i - 1], m[i][1], m[i][2], s, e)
      BY <1>1
    <2>4. PassedTo(f[i], m, s, e, i)
      BY <2>2, <2>3
    <2>5. QED
      BY <2>1, <2>4
  <1>5. 0..n \subseteq T
    <2> HIDE DEF T, n
    <2>1. QED
      BY <1>2, <1>3, <1>4, UpTo
  <1>6. PassedTo(f[n], m, s, e, n)
    BY <1>2, <1>5
  <1> DEFINE c == f[n].cursor
             g == f[n].gap
  <1>7. /\ c \in Int /\ s <= c /\ c <= e /\ g \in Nat
        /\ g = 0 \/ \E u, v \in s..e : u < v /\ FreeOf(m, u, v) /\ g = v - u
        /\ \A u, v \in s..e : u < v /\ FreeOf(m, u, v) => v - u <= g \/ c <= u
        /\ \A k \in 1..n : m[k][2] <= c \/ m[k][1] >= e \/ c = e
    BY <1>6 DEF PassedTo
  <1>8. r = Higher(g, e - c)
    BY <1>1
  <1> HIDE DEF c, g
  <1>9. r \in Nat /\ g <= r /\ e - c <= r /\ (r = g \/ r = e - c)
    BY <1>7, <1>8 DEF Higher
  <1>10. r = 0 \/ \E u, v \in s..e : u < v /\ FreeOf(m, u, v) /\ r = v - u
    <2>1. CASE r = g
      BY <1>7, <2>1
    <2>2. CASE r # g
      <3>1. r = e - c /\ c < e
        BY <1>7, <1>9, <2>2
      <3>2. FreeOf(m, c, e)
        <4> SUFFICES ASSUME NEW t \in Int, c <= t, t < e, NEW k \in 1..n, m[k][1] <= t, t < m[k][2]
                     PROVE  FALSE
          BY DEF FreeOf, InInterval
        <4>1. QED
          BY <1>2, <1>7, <3>1
      <3>3. c \in s..e /\ e \in s..e
        BY <1>7
      <3>4. QED
        BY <3>1, <3>2, <3>3
    <2>3. QED
      BY <2>1, <2>2
  <1>11. ASSUME NEW u \in s..e, NEW v \in s..e, u < v, FreeOf(m, u, v)
         PROVE  v - u <= r
    <2>1. v - u <= g \/ c <= u
      BY <1>7, <1>11
    <2>2. QED
      BY <1>7, <1>9, <2>1
  <1>12. QED
    BY <1>9, <1>10, <1>11 DEF r

(* The same of the blocks of the day: the lengths FreeLengths names.          *)
LEMMA GapOfDay ==
  ASSUME Apart(merge(Blocks)), NEW s \in Int, NEW e \in Int, s < e,
         \A t \in Int : InInterval(merge(Blocks), t) <=> t \in Busy
  PROVE  /\ largest_gap(merge(Blocks), s, e) \in FreeLengths(s, e)
         /\ \A n \in FreeLengths(s, e) : n <= largest_gap(merge(Blocks), s, e)
         /\ largest_gap(merge(Blocks), s, e) \in Nat /\ FreeLengths(s, e) \subseteq Int
  <1> DEFINE m == merge(Blocks)
             r == largest_gap(m, s, e)
             Z == {z \in (s..e) \X (s..e) : z[1] < z[2] /\ z[1]..(z[2] - 1) \cap Busy = {}}
  <1>1. FreeLengths(s, e) = {0} \cup {z[2] - z[1] : z \in Z}
    BY DEF FreeLengths
  <1> HIDE DEF m
  <1>2. \A u, v \in s..e : u..(v - 1) \cap Busy = {} <=> FreeOf(m, u, v)
    <2> SUFFICES ASSUME NEW u \in s..e, NEW v \in s..e PROVE u..(v - 1) \cap Busy = {} <=> FreeOf(m, u, v)
      OBVIOUS
    <2>1. \A t \in Int : t \in u..(v - 1) <=> u <= t /\ t < v
      OBVIOUS
    <2>2. \A t \in Int : InInterval(m, t) <=> t \in Busy
      BY DEF m
    <2>3. \A t \in u..(v - 1) : t \in Int
      OBVIOUS
    <2>4. QED
      BY <2>1, <2>2, <2>3 DEF FreeOf
  <1>3. /\ r \in Nat
        /\ r = 0 \/ \E u, v \in s..e : u < v /\ FreeOf(m, u, v) /\ r = v - u
        /\ \A u, v \in s..e : u < v /\ FreeOf(m, u, v) => v - u <= r
    BY GapIsLongest DEF m
  <1> HIDE DEF r
  <1>4. r \in FreeLengths(s, e)
    <2>1. CASE r = 0
      BY <1>1, <2>1
    <2>2. CASE r # 0
      <3>1. PICK u \in s..e, v \in s..e : u < v /\ FreeOf(m, u, v) /\ r = v - u
        BY <1>3, <2>2
      <3>2. <<u, v>> \in Z
        BY <1>2, <3>1
      <3>3. r = <<u, v>>[2] - <<u, v>>[1]
        BY <3>1
      <3> HIDE DEF Z
      <3>4. QED
        BY <1>1, <3>2, <3>3
    <2>3. QED
      BY <2>1, <2>2
  <1>5. ASSUME NEW z \in Z PROVE z[2] - z[1] <= r /\ z[2] - z[1] \in Int
    <2>1. z[1] \in s..e /\ z[2] \in s..e /\ z[1] < z[2] /\ z[1]..(z[2] - 1) \cap Busy = {}
      OBVIOUS
    <2>2. FreeOf(m, z[1], z[2])
      BY <1>2, <2>1
    <2>3. QED
      BY <1>3, <2>1, <2>2
  <1>6. \A n \in FreeLengths(s, e) : n <= r /\ n \in Int
    <2> SUFFICES ASSUME NEW n \in FreeLengths(s, e) PROVE n <= r /\ n \in Int
      OBVIOUS
    <2>1. n = 0 \/ \E z \in Z : n = z[2] - z[1]
      BY <1>1
    <2> HIDE DEF Z
    <2>2. QED
      BY <1>3, <1>5, <2>1
  <1>7. QED
    BY <1>3, <1>4, <1>6 DEF r, m

(* For every day, window and break: the booked minutes count each minute      *)
(* once, a conflict is a shared minute, the gap is the longest free stretch   *)
(* and the windows without a break are those reported at a block's start.     *)
THEOREM AnalysisHolds == Spec => []AnalysisByTheMinute
  <1>1. DayInv => AnalysisByTheMinute
    <2> SUFFICES ASSUME DayInv PROVE AnalysisByTheMinute
      OBVIOUS
    <2> DEFINE o == Ordered(Blocks)
               m == merge(Blocks)
    <2>1. BlockSet(Blocks)
      BY BlocksOfDay
    <2>2. ByStart(o, Blocks)
      BY <2>1, OrderedByStart
    <2>3. Apart(m) /\ \A t \in Int : InInterval(m, t) <=> \E b \in Blocks : b.start <= t /\ t < b.end
      BY <2>2, MergeCovers
    <2>4. \A b \in Blocks : b.start \in Nat /\ b.end \in Nat
      BY <2>1 DEF BlockSet, BlockRecord
    <2>5. Busy = {t \in Int : \E b \in Blocks : b.start <= t /\ t < b.end}
      <3>1. \A b \in Blocks : MinutesOf(b) = {t \in Int : b.start <= t /\ t < b.end}
        BY <2>4 DEF MinutesOf
      <3>2. QED
        BY <3>1 DEF Busy
    <2>6. \A t \in Int : InInterval(m, t) <=> t \in Busy
      BY <2>3, <2>5
    <2>7. booked_minutes(Blocks) = Cardinality(Busy)
      <3>1. booked_minutes(Blocks) = Cardinality({t \in Int : InInterval(m, t)})
        BY <2>3, BookedIsCovered
      <3>2. {t \in Int : InInterval(m, t)} = Busy
        BY <2>5, <2>6
      <3>3. QED
        BY <3>1, <3>2
    <2>8. conflicts(Blocks) = {x \in (1..Len(o)) \X (1..Len(o)) :
                                 x[1] < x[2] /\ MinutesOf(o[x[1]]) \cap MinutesOf(o[x[2]]) # {}}
      BY <2>2, ConflictsAreShared
    <2>9. \A s, e \in Int : s < e =>
            /\ largest_gap(m, s, e) \in FreeLengths(s, e)
            /\ \A n \in FreeLengths(s, e) : n <= largest_gap(m, s, e)
            /\ largest_gap(m, s, e) \in Nat /\ FreeLengths(s, e) \subseteq Int
      BY <2>3, <2>6, GapOfDay
    <2> HIDE DEF m, o
    <2>10. overloaded_windows(Blocks) =
             {b.start : b \in {b \in Blocks : \A n \in FreeLengths(b.start, b.start + WINDOW) : n < MIN_GAP}}
      <3>1. ASSUME NEW b \in Blocks
            PROVE  largest_gap(m, b.start, b.start + WINDOW) < MIN_GAP
                     <=> \A n \in FreeLengths(b.start, b.start + WINDOW) : n < MIN_GAP
        <4> DEFINE s == b.start
                   e == b.start + WINDOW
        <4>1. s \in Int /\ e \in Int /\ s < e /\ MIN_GAP \in Int
          BY <2>4, WindowAssumption
        <4> HIDE DEF s, e
        <4>2. /\ largest_gap(m, s, e) \in FreeLengths(s, e)
              /\ \A n \in FreeLengths(s, e) : n <= largest_gap(m, s, e)
              /\ largest_gap(m, s, e) \in Nat /\ FreeLengths(s, e) \subseteq Int
          BY <2>9, <4>1
        <4>3. largest_gap(m, s, e) < MIN_GAP <=> \A n \in FreeLengths(s, e) : n < MIN_GAP
          BY <4>1, <4>2
        <4>4. QED
          BY <4>3 DEF s, e
      <3>2. overloaded_windows(Blocks) =
              {b.start : b \in {b \in Blocks : largest_gap(m, b.start, b.start + WINDOW) < MIN_GAP}}
        BY DEF overloaded_windows, m
      <3>3. {b \in Blocks : largest_gap(m, b.start, b.start + WINDOW) < MIN_GAP} =
              {b \in Blocks : \A n \in FreeLengths(b.start, b.start + WINDOW) : n < MIN_GAP}
        BY <3>1
      <3>4. QED
        BY <3>2, <3>3
    <2>11. \A s \in 0..Minute, e \in 0..Minute : s < e =>
             /\ largest_gap(m, s, e) \in FreeLengths(s, e)
             /\ \A n \in FreeLengths(s, e) : n <= largest_gap(m, s, e)
      BY <2>9
    <2>12. QED
      BY <2>7, <2>8, <2>10, <2>11 DEF AnalysisByTheMinute, m, o
  <1>2. QED
    BY <1>1, DayInvariantHolds, PTL
=============================================================================
