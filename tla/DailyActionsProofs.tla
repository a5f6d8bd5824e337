------------------------- MODULE DailyActionsProofs -------------------------
(* Proofs about DailyActions: types, the wall clock, and Now Mode whatever    *)
(* overlaps; the schedule history, the chain of check-ins, habit outcomes and *)
(* what is never moved when requests of the User do not overlap.              *)
EXTENDS DailyActions, FiniteSetTheorems, WellFoundedInduction, TLAPS

-----------------------------------------------------------------------------
(* The inductive invariant. *)

ActRow == [source : Task \cup Habit \cup {Manual}, occ : Day, date : Int, start : Int,
           status : Status, live : BOOLEAN, first : Int, wall : Int]
HistRow == [type : {"rescheduled", "cancelled", "timezone_change"},
            from : Int, to : Int \cup {NoneYet}]
CheckRow == [previous : Status \cup {NoneYet}, new : Status, at : Nat]
EventRow == [trigger : Action, date : Int, end : Int, completed : Int]
Proposals == UNION {[S -> Int] : S \in SUBSET Action}
SuggRow == [status : {"proposed", "accepted", "rejected"}, date : Int, proposal : Proposals]
OneAction == [op : {"complete"}, action : Action, row : ActRow]
OneOutcome == [op : {"record"}, action : Action, row : ActRow, result : Outcome]
Loaded == UNION {[S -> ActRow] : S \in SUBSET Action}
OneAccept == [op : {"accept"}, suggestion : Action, rows : Loaded]

(* Every table and the request in flight have their types.                    *)
Rows ==
    /\ now \in 0..MaxTime /\ zone \in Zone /\ edits \in 0..MaxEdits
    /\ action \in [Action -> ActRow \cup {NoAction}]
    /\ checkins \in [Action -> Seq(CheckRow)]
    /\ history \in [Action -> Seq(HistRow)]
    /\ task \in [Task -> {"open", "in_progress", "completed", "cancelled"}]
    /\ record \in [Habit \X Day -> {NoneYet, "completed", "partial", "skipped"}]
    /\ events \subseteq EventRow
    /\ suggestion \in [Action -> SuggRow \cup {NoSuggestion}]
    /\ pending \in {NoRequest} \cup OneAction \cup OneOutcome \cup OneAccept

(* A proposal and a request in flight are about actions that exist.           *)
ProposalsKnown ==
    \A s \in Action : suggestion[s] # NoSuggestion =>
        \A a \in DOMAIN suggestion[s].proposal : Exists(a)

PendingKnown ==
    /\ pending.op \in {"complete", "record"} => Exists(pending.action)
    /\ pending.op = "accept" =>
         /\ suggestion[pending.suggestion] # NoSuggestion
         /\ DOMAIN pending.rows = DOMAIN suggestion[pending.suggestion].proposal

Known == ProposalsKnown /\ PendingKnown

(* What the User or the generator placed in the future is where its wall      *)
(* clock says.                                                                *)
OnTheWall ==
    \A a \in Action : Active(a) /\ action[a].status = "Planned" /\ action[a].start > now =>
        to_local(action[a].start) = action[a].wall /\ action[a].date = action[a].wall \div Slots

(* A habit has one active action per occurrence.                              *)
OnePerOccurrence ==
    \A a, b \in Action :
        /\ Active(a) /\ Active(b) /\ action[a].source \in Habit
        /\ action[a].source = action[b].source /\ action[a].occ = action[b].occ
        => a = b

IInv == Rows /\ Known /\ OnTheWall /\ OnePerOccurrence

(* What a request in flight has read is still so.                             *)
Snapshot ==
    /\ pending.op \in {"complete", "record"} => pending.row = action[pending.action]
    /\ pending.op = "accept" => \A a \in DOMAIN pending.rows : pending.rows[a] = action[a]

(* The time the schedule history of an action ends with.                      *)
Replays(h, row) ==
    /\ \A i \in 1..Len(h) : h[i].from = (IF i = 1 THEN row.first ELSE h[i - 1].to)
    /\ row.live => row.start = (IF Len(h) = 0 THEN row.first ELSE h[Len(h)].to)
    /\ ~ row.live => Len(h) > 0 /\ h[Len(h)].type = "cancelled" /\ h[Len(h)].from = row.start

Replayed ==
    \A a \in Action : IF Exists(a) THEN Replays(history[a], action[a]) ELSE history[a] = <<>>

(* The check-ins of an action lead from one to the next and to its status.    *)
Linked(c, row) ==
    /\ Len(c) > 0 /\ c[1].previous = NoneYet /\ c[Len(c)].new = row.status
    /\ \A i \in 2..Len(c) : c[i].previous = c[i - 1].new

CheckinsLinked == \A a \in Action : Exists(a) => Linked(checkins[a], action[a])

(* They were made one after another, each with a status further on: no status *)
(* comes twice.                                                               *)
Rank == [Planned |-> 0, Started |-> 1, Completed |-> 2, Skipped |-> 2]

InTurn(c, t) ==
    /\ \A i \in 1..Len(c) : c[i].at <= t
    /\ \A i, j \in 1..Len(c) : i < j => c[i].at <= c[j].at /\ Rank[c[i].new] < Rank[c[j].new]

CheckinsInTurn == \A a \in Action : Exists(a) => InTurn(checkins[a], now)

SInv == IInv /\ Snapshot /\ Replayed /\ CheckinsLinked /\ CheckinsInTurn /\ RecordAgrees

-----------------------------------------------------------------------------
(* What a step does to one action.  The steps are described by these effects, *)
(* and what is shown about rows is shown for each effect once.                *)

Future(a) == Active(a) /\ action[a].status = "Planned" /\ action[a].start > now

SameOrigin(a) ==
    /\ action[a] \in ActRow /\ action'[a] \in ActRow
    /\ action'[a].source = action[a].source /\ action'[a].occ = action[a].occ
    /\ action'[a].first = action[a].first

SamePlace(a) ==
    /\ action'[a].start = action[a].start /\ action'[a].date = action[a].date
    /\ action'[a].wall = action[a].wall

SameState(a) == action'[a].status = action[a].status /\ action'[a].live = action[a].live

Stays(a) ==
    /\ action'[a] = action[a] /\ checkins'[a] = checkins[a] /\ history'[a] = history[a]
    /\ zone' # zone => ~ Future(a)

Created(a) ==
    /\ ~ Exists(a) /\ action'[a] \in ActRow /\ zone' = zone
    /\ action'[a].live /\ action'[a].status = "Planned" /\ action'[a].start = action'[a].first
    /\ action'[a].wall = action'[a].start + zone /\ action'[a].date = action'[a].wall \div Slots
    /\ checkins'[a] = <<[previous |-> NoneYet, new |-> "Planned", at |-> now]>>
    /\ history'[a] = history[a]
    /\ \A b \in Action \ {a} :
         /\ action'[b] = action[b]
         /\ Active(b) /\ action[b].source = action'[a].source /\ action'[a].source \in Habit =>
              action[b].occ # action'[a].occ

CheckedIn(a) ==
    /\ SameOrigin(a) /\ SamePlace(a) /\ action'[a].live = action[a].live /\ zone' = zone
    /\ history'[a] = history[a]
    /\ \E row \in ActRow, new \in Status \ {"Planned"} :
         /\ row.live /\ row.status \in Open /\ Rank[row.status] < Rank[new]
         /\ action'[a].status = new
         /\ checkins'[a] = Append(checkins[a], [previous |-> row.status, new |-> new, at |-> now])
         /\ Snapshot => row = action[a]

Cancelled(a) ==
    /\ SameOrigin(a) /\ SamePlace(a) /\ action'[a].status = action[a].status /\ zone' = zone
    /\ action[a].live /\ ~ action'[a].live
    /\ checkins'[a] = checkins[a]
    /\ history'[a] =
         Append(history[a], [type |-> "cancelled", from |-> action[a].start, to |-> NoneYet])

MovedTo(a) ==
    /\ SameOrigin(a) /\ SameState(a) /\ zone' = zone
    /\ action'[a].wall = action'[a].start + zone /\ action'[a].date = action'[a].wall \div Slots
    /\ checkins'[a] = checkins[a]
    /\ \E row \in ActRow :
         /\ row.live /\ row.status = "Planned"
         /\ history'[a] = Append(history[a], [type |-> "rescheduled", from |-> row.start,
                                              to |-> action'[a].start])
         /\ Snapshot => row = action[a]

RezonedTo(a) ==
    /\ SameOrigin(a) /\ SameState(a) /\ Future(a)
    /\ action'[a].start + zone' = action[a].start + zone
    /\ action'[a].date = action[a].date /\ action'[a].wall = action[a].wall
    /\ checkins'[a] = checkins[a]
    /\ history'[a] = Append(history[a], [type |-> "timezone_change", from |-> action[a].start,
                                         to |-> action'[a].start])

RowStep(a) ==
    Stays(a) \/ Created(a) \/ CheckedIn(a) \/ Cancelled(a) \/ MovedTo(a) \/ RezonedTo(a)

(* The tables stay functions, time moves forward, and every row has one of    *)
(* the effects.                                                               *)
RowsStep ==
    /\ action' = [a \in Action |-> action'[a]]
    /\ checkins' = [a \in Action |-> checkins'[a]]
    /\ history' = [a \in Action |-> history'[a]]
    /\ now <= now'
    /\ \A a \in Action : RowStep(a)

-----------------------------------------------------------------------------
(* Facts about the constants and the rows. *)

LEMMA Constants ==
  /\ Day \subseteq Nat /\ Zone \subseteq Int /\ Slots \in Nat /\ Slots > 0 /\ 0 \in Zone
  /\ MaxTime \in Nat /\ MaxEdits \in Nat
  /\ \A x \in Times : x[1] \in Day /\ x[1] \in Nat /\ x[2] \in 0..(Slots - 1)
  BY DayAssumption DEF Day

LEMMA DivMod ==
  ASSUME NEW d \in Nat, NEW n \in Nat \ {0}, NEW s \in 0..(n - 1)
  PROVE  (d * n + s) \div n = d
  OBVIOUS

LEMMA NoActionIsNoRow == NoAction \notin ActRow
  <1>1. NoAction.source = "none"
    BY DEF NoAction, NoneYet
  <1>2. \A r \in ActRow : r.source # "none"
    BY IdAssumption DEF ActRow, Manual, NoneYet
  <1>3. QED
    BY <1>1, <1>2

LEMMA ExistingRow ==
  ASSUME Rows, NEW a \in Action
  PROVE  Exists(a) <=> action[a] \in ActRow
  BY NoActionIsNoRow DEF Rows, Exists

(* A row of an action that exists, and the numbers in it.                     *)
LEMMA RowNumbers ==
  ASSUME NEW r \in ActRow
  PROVE  /\ r.start \in Int /\ r.date \in Int /\ r.wall \in Int /\ r.first \in Int
         /\ r.occ \in Day /\ r.status \in Status /\ r.live \in BOOLEAN
         /\ r.source \in Task \cup Habit \cup {Manual}
  BY DEF ActRow

LEMMA Clock == Rows => now \in Nat /\ zone \in Int /\ edits \in Nat
  BY Constants DEF Rows

LEMMA TransitionTable ==
  ASSUME NEW row \in ActRow, NEW new, validate_transition(row, new)
  PROVE  /\ row.live /\ row.status \in Open /\ new \in Status \ {"Planned"}
         /\ Rank[row.status] < Rank[new]
  <1>1. row.status \in Status /\ new \in TRANSITIONS[row.status]
    BY DEF ActRow, validate_transition
  <1>2. QED
    BY <1>1 DEF validate_transition, TRANSITIONS, Status, Open, Rank

(* A step that writes neither actions, check-ins nor history.                 *)
LEMMA QuietRows ==
  ASSUME Rows, UNCHANGED <<action, checkins, history, zone>>, now <= now'
  PROVE  RowsStep
  BY DEF Rows, RowsStep, RowStep, Stays

LEMMA Table ==
  ASSUME NEW S, NEW T, NEW f \in [S -> T], NEW a, NEW v, NEW g, g = [f EXCEPT ![a] = v]
  PROVE  g = [b \in S |-> g[b]]
  <1>1. g = [b \in S |-> IF b = a THEN v ELSE f[b]]
    OBVIOUS
  <1>2. QED
    BY <1>1

LEMMA SameTable ==
  ASSUME NEW S, NEW T, NEW f \in [S -> T], NEW g, g = f
  PROVE  g = [b \in S |-> g[b]]
  OBVIOUS

-----------------------------------------------------------------------------
(* The effect of each action on the rows. *)

LEMMA InsertRows ==
  ASSUME Rows, NEW a \in Action, NEW source \in Task \cup Habit \cup {Manual},
         NEW d \in Day, NEW slot \in 0..(Slots - 1),
         Insert(a, source, d, slot), UNCHANGED <<now, zone, history>>,
         \A b \in Action : Active(b) /\ action[b].source = source /\ source \in Habit =>
                             action[b].occ # d
  PROVE  RowsStep
  <1> DEFINE t == d * Slots + slot
             r == [source |-> source, occ |-> d, date |-> d, start |-> t - zone,
                   status |-> "Planned", live |-> TRUE, first |-> t - zone, wall |-> t]
  <1>0. d \in Nat /\ Slots \in Nat \ {0} /\ zone \in Int
    BY Constants, Clock
  <1>1. /\ ~ Exists(a) /\ action' = [action EXCEPT ![a] = r]
        /\ checkins' = [checkins EXCEPT ![a] = <<[previous |-> NoneYet, new |-> "Planned", at |-> now]>>]
    <2>1. resolve_local(d, slot) = t - zone /\ d * Slots + slot = t
      BY <1>0 DEF resolve_local
    <2> HIDE DEF t
    <2>2. QED
      BY <2>1 DEF Insert
  <1>2. t \in Int /\ t \div Slots = d
    BY <1>0, DivMod
  <1>3. \A b \in Action : Active(b) /\ action[b].source = source /\ source \in Habit =>
                            action[b].occ # d
    OBVIOUS
  <1> HIDE DEF t
  <1>4. /\ r \in ActRow /\ r.live /\ r.status = "Planned" /\ r.start = r.first
        /\ r.wall = r.start + zone /\ r.date = r.wall \div Slots
        /\ r.source = source /\ r.occ = d
    BY <1>0, <1>2 DEF ActRow, Status
  <1> HIDE DEF r
  <1>5. action'[a] = r /\ \A b \in Action \ {a} : action'[b] = action[b]
    BY <1>1 DEF Rows
  <1>6. /\ checkins'[a] = <<[previous |-> NoneYet, new |-> "Planned", at |-> now]>>
        /\ \A b \in Action \ {a} : checkins'[b] = checkins[b]
    BY <1>1 DEF Rows
  <1>7. Created(a)
    BY <1>1, <1>3, <1>4, <1>5, <1>6 DEF Created
  <1>8. \A b \in Action \ {a} : Stays(b)
    BY <1>5, <1>6 DEF Stays
  <1>9. /\ action' = [b \in Action |-> action'[b]] /\ history' = [b \in Action |-> history'[b]]
        /\ checkins' = [b \in Action |-> checkins'[b]] /\ now <= now'
    <2>1. action' = [b \in Action |-> action'[b]]
      BY <1>1, Table DEF Rows
    <2>2. history' = [b \in Action |-> history'[b]]
      BY <1>1, Table, SameTable DEF Rows
    <2>3. checkins' = [b \in Action |-> checkins'[b]]
      BY <1>1, Table, SameTable DEF Rows
    <2>4. QED
      BY <1>1, <2>1, <2>2, <2>3, Clock
  <1>10. QED
    BY <1>7, <1>8, <1>9 DEF RowsStep, RowStep

LEMMA TransitionRows ==
  ASSUME Rows, NEW a \in Action, Exists(a), NEW row \in ActRow, NEW new, NEW result,
         Transition(a, row, new, result), Snapshot => row = action[a]
  PROVE  /\ RowsStep /\ CheckedIn(a) /\ action'[a].status = new /\ row.live
         /\ \A b \in Action \ {a} : Stays(b)
  <1> DEFINE c == [previous |-> row.status, new |-> new, at |-> now]
             r == [action[a] EXCEPT !.status = new]
  <1>1. /\ row.live /\ row.status \in Open /\ new \in Status \ {"Planned"}
        /\ Rank[row.status] < Rank[new]
    BY TransitionTable DEF Transition
  <1>2. action[a] \in ActRow
    BY ExistingRow
  <1>3. /\ r \in ActRow /\ r.status = new /\ r.live = action[a].live
        /\ r.source = action[a].source /\ r.occ = action[a].occ /\ r.first = action[a].first
        /\ r.start = action[a].start /\ r.date = action[a].date /\ r.wall = action[a].wall
    BY <1>1, <1>2 DEF ActRow
  <1>4. /\ action' = [action EXCEPT ![a] = r] /\ UNCHANGED <<zone, history, now>>
        /\ checkins' = [checkins EXCEPT ![a] = Append(checkins[a], c)]
    BY DEF Transition, CheckinRecord, Rows
  <1> HIDE DEF r, c
  <1>5. /\ action'[a] = r /\ checkins'[a] = Append(checkins[a], c)
        /\ \A b \in Action \ {a} : action'[b] = action[b] /\ checkins'[b] = checkins[b]
    BY <1>4 DEF Rows
  <1>6. CheckedIn(a)
    <2>1. SameOrigin(a) /\ SamePlace(a)
      BY <1>2, <1>3, <1>5 DEF SameOrigin, SamePlace
    <2>2. QED
      BY <1>1, <1>3, <1>4, <1>5, <2>1 DEF CheckedIn, c
  <1>7. \A b \in Action \ {a} : Stays(b)
    BY <1>4, <1>5 DEF Stays
  <1>8. /\ action' = [b \in Action |-> action'[b]] /\ history' = [b \in Action |-> history'[b]]
        /\ checkins' = [b \in Action |-> checkins'[b]] /\ now <= now'
    <2>1. action' = [b \in Action |-> action'[b]]
      BY <1>4, Table DEF Rows
    <2>2. history' = [b \in Action |-> history'[b]]
      BY <1>4, Table, SameTable DEF Rows
    <2>3. checkins' = [b \in Action |-> checkins'[b]]
      BY <1>4, Table, SameTable DEF Rows
    <2>4. QED
      BY <1>4, <2>1, <2>2, <2>3, Clock
  <1>9. QED
    BY <1>1, <1>3, <1>5, <1>6, <1>7, <1>8 DEF RowsStep, RowStep

LEMMA CancelRows ==
  ASSUME Rows, NEW a \in Action, cancel(a)
  PROVE  RowsStep
  <1> DEFINE h == [type |-> "cancelled", from |-> action[a].start, to |-> NoneYet]
             r == [action[a] EXCEPT !.live = FALSE]
  <1>1. action[a] \in ActRow /\ action[a].live
    BY ExistingRow DEF cancel, Active
  <1>2. /\ r \in ActRow /\ r.status = action[a].status /\ ~ r.live
        /\ r.source = action[a].source /\ r.occ = action[a].occ /\ r.first = action[a].first
        /\ r.start = action[a].start /\ r.date = action[a].date /\ r.wall = action[a].wall
    BY <1>1 DEF ActRow
  <1>3. /\ action' = [action EXCEPT ![a] = r] /\ UNCHANGED <<zone, checkins, now>>
        /\ history' = [history EXCEPT ![a] = Append(history[a], h)]
    BY DEF cancel, add_history, Rows
  <1> HIDE DEF r, h
  <1>4. /\ action'[a] = r /\ history'[a] = Append(history[a], h)
        /\ \A b \in Action \ {a} : action'[b] = action[b] /\ history'[b] = history[b]
    BY <1>3 DEF Rows
  <1>5. Cancelled(a)
    <2>1. SameOrigin(a) /\ SamePlace(a)
      BY <1>1, <1>2, <1>4 DEF SameOrigin, SamePlace
    <2>2. QED
      BY <1>1, <1>2, <1>3, <1>4, <2>1 DEF Cancelled, h
  <1>6. \A b \in Action \ {a} : Stays(b)
    BY <1>3, <1>4 DEF Stays
  <1>7. /\ action' = [b \in Action |-> action'[b]] /\ history' = [b \in Action |-> history'[b]]
        /\ checkins' = [b \in Action |-> checkins'[b]] /\ now <= now'
    <2>1. action' = [b \in Action |-> action'[b]]
      BY <1>3, Table DEF Rows
    <2>2. history' = [b \in Action |-> history'[b]]
      BY <1>3, Table, SameTable DEF Rows
    <2>3. checkins' = [b \in Action |-> checkins'[b]]
      BY <1>3, Table, SameTable DEF Rows
    <2>4. QED
      BY <1>3, <2>1, <2>2, <2>3, Clock
  <1>8. QED
    BY <1>5, <1>6, <1>7 DEF RowsStep, RowStep

(* The row Moved() makes of an action that exists.                            *)
LEMMA MovedRow ==
  ASSUME Rows, NEW a \in Action, Exists(a), NEW t \in Int
  PROVE  /\ action[a] \in ActRow /\ Moved(a, t) \in ActRow
         /\ Moved(a, t).start = t /\ Moved(a, t).wall = t + zone
         /\ Moved(a, t).date = (t + zone) \div Slots
         /\ Moved(a, t).source = action[a].source /\ Moved(a, t).occ = action[a].occ
         /\ Moved(a, t).first = action[a].first /\ Moved(a, t).status = action[a].status
         /\ Moved(a, t).live = action[a].live
  <1> DEFINE w == t + zone
             e == w \div Slots
  <1>1. action[a] \in ActRow /\ w \in Int
    BY ExistingRow, Clock
  <1>2. e \in Int
    BY <1>1, Constants
  <1>3. Moved(a, t) = [action[a] EXCEPT !.start = t, !.date = e, !.wall = w]
    BY DEF Moved, to_local, local_date
  <1> HIDE DEF e, w
  <1>4. QED
    BY <1>1, <1>2, <1>3 DEF ActRow, e, w

(* An action that Moved() puts elsewhere, with the history row of what was    *)
(* read of it.                                                                *)
LEMMA MovedEffect ==
  ASSUME Rows, NEW a \in Action, Exists(a), NEW t \in Int, NEW row \in ActRow,
         row.live, row.status = "Planned", Snapshot => row = action[a],
         action'[a] = Moved(a, t), checkins'[a] = checkins[a], zone' = zone,
         history'[a] = Append(history[a], add_history(row, "rescheduled", t))
  PROVE  MovedTo(a)
  <1>1. SameOrigin(a) /\ SameState(a)
    BY MovedRow DEF SameOrigin, SameState
  <1>2. /\ action'[a].start = t /\ action'[a].wall = action'[a].start + zone
        /\ action'[a].date = action'[a].wall \div Slots
    BY MovedRow
  <1>3. history'[a] = Append(history[a], [type |-> "rescheduled", from |-> row.start,
                                          to |-> action'[a].start])
    BY <1>2 DEF add_history
  <1>4. QED
    BY <1>1, <1>2, <1>3 DEF MovedTo

LEMMA RescheduleRows ==
  ASSUME Rows, NEW a \in Action, NEW d \in Day, NEW slot \in 0..(Slots - 1),
         reschedule(a, d, slot)
  PROVE  RowsStep
  <1> DEFINE t == resolve_local(d, slot)
             h == Append(history[a], add_history(action[a], "rescheduled", t))
  <1>1. t \in Int
    BY Constants, Clock DEF resolve_local
  <1>2. Exists(a) /\ action[a] \in ActRow /\ action[a].live /\ action[a].status = "Planned"
    BY ExistingRow DEF reschedule, Active
  <1>3. /\ action' = [action EXCEPT ![a] = Moved(a, t)] /\ UNCHANGED <<zone, checkins, now>>
        /\ history' = [history EXCEPT ![a] = h]
    BY DEF reschedule, Rows
  <1> HIDE DEF t
  <1>4. /\ action'[a] = Moved(a, t) /\ history'[a] = h
        /\ \A b \in Action \ {a} : action'[b] = action[b] /\ history'[b] = history[b]
    BY <1>3 DEF Rows
  <1>5. MovedTo(a)
    BY <1>1, <1>2, <1>3, <1>4, MovedEffect
  <1>6. \A b \in Action \ {a} : Stays(b)
    BY <1>3, <1>4 DEF Stays
  <1>7. /\ action' = [b \in Action |-> action'[b]] /\ history' = [b \in Action |-> history'[b]]
        /\ checkins' = [b \in Action |-> checkins'[b]] /\ now <= now'
    <2>1. action' = [b \in Action |-> action'[b]]
      BY <1>3, Table DEF Rows
    <2>2. history' = [b \in Action |-> history'[b]]
      BY <1>3, Table DEF Rows
    <2>3. checkins' = [b \in Action |-> checkins'[b]]
      BY <1>3, SameTable DEF Rows
    <2>4. QED
      BY <1>3, <2>1, <2>2, <2>3, Clock
  <1>8. QED
    BY <1>5, <1>6, <1>7 DEF RowsStep, RowStep

(* A request in flight to accept, and the suggestion it is about.             *)
LEMMA PendingAccept ==
  ASSUME Rows, Known, pending.op = "accept"
  PROVE  /\ pending \in OneAccept /\ pending.suggestion \in Action
         /\ suggestion[pending.suggestion] \in SuggRow
         /\ LET p == suggestion[pending.suggestion].proposal
            IN  /\ DOMAIN p \subseteq Action /\ DOMAIN pending.rows = DOMAIN p
                /\ \A a \in DOMAIN p : p[a] \in Int /\ Exists(a) /\ pending.rows[a] \in ActRow
  <1> DEFINE s == pending.suggestion
             p == suggestion[s].proposal
             rows == pending.rows
  <1>1. pending \in OneAccept
    BY DEF Rows, NoRequest, NoneYet, OneAction, OneOutcome, OneAccept
  <1>2. s \in Action /\ rows \in Loaded
    BY <1>1 DEF OneAccept
  <1>3. suggestion[s] \in SuggRow /\ suggestion[s] # NoSuggestion
    BY <1>2 DEF Rows, Known, PendingKnown
  <1>4. p \in Proposals
    BY <1>3 DEF SuggRow
  <1>5. DOMAIN rows = DOMAIN p /\ \A a \in DOMAIN p : Exists(a)
    BY <1>2, <1>3 DEF Known, ProposalsKnown, PendingKnown
  <1> HIDE DEF s, p, rows
  <1>6. PICK S \in SUBSET Action : p \in [S -> Int]
    BY <1>4 DEF Proposals
  <1>7. PICK T \in SUBSET Action : rows \in [T -> ActRow]
    BY <1>2 DEF Loaded
  <1>8. DOMAIN p \subseteq Action /\ \A a \in DOMAIN p : p[a] \in Int /\ rows[a] \in ActRow
    BY <1>5, <1>6, <1>7
  <1>9. QED
    BY <1>1, <1>2, <1>3, <1>5, <1>8 DEF s, p, rows

LEMMA AcceptRows ==
  ASSUME Rows, Known, accept
  PROVE  RowsStep
  <1> DEFINE s == pending.suggestion
             p == suggestion[s].proposal
             move == {a \in DOMAIN p : Acceptable(pending.rows[a])}
             H(a) == Append(history[a], add_history(pending.rows[a], "rescheduled", p[a]))
  <1>1. pending.op = "accept"
    BY DEF accept
  <1>2. /\ DOMAIN p \subseteq Action /\ DOMAIN pending.rows = DOMAIN p
        /\ \A a \in DOMAIN p : p[a] \in Int /\ Exists(a) /\ pending.rows[a] \in ActRow
    BY <1>1, PendingAccept
  <1>3. /\ action' = [a \in Action |-> IF a \in move THEN Moved(a, p[a]) ELSE action[a]]
        /\ history' = [a \in Action |-> IF a \in move THEN H(a) ELSE history[a]]
        /\ UNCHANGED <<zone, checkins, now>>
    BY DEF accept
  <1>4. \A a \in move : /\ a \in DOMAIN p /\ pending.rows[a].live
                        /\ pending.rows[a].status = "Planned"
    BY DEF Acceptable
  <1>5. Snapshot => \A a \in DOMAIN p : pending.rows[a] = action[a]
    BY <1>1, <1>2 DEF Snapshot
  <1> HIDE DEF p, s, move
  <1>6. ASSUME NEW a \in move PROVE MovedTo(a)
    BY <1>2, <1>3, <1>4, <1>5, <1>6, MovedEffect
  <1>7. \A a \in Action \ move : Stays(a)
    BY <1>3 DEF Stays
  <1>8. checkins' = [a \in Action |-> checkins'[a]] /\ now <= now'
    BY <1>3, SameTable, Clock DEF Rows
  <1>9. QED
    BY <1>3, <1>6, <1>7, <1>8 DEF RowsStep, RowStep

LEMMA ChangeTimezoneRows ==
  ASSUME Rows, NEW z \in Zone, change_timezone(z)
  PROVE  RowsStep
  <1> DEFINE future == {a \in Action : /\ Active(a) /\ action[a].status = "Planned"
                                       /\ action[a].start > now /\ Rezoned(a, z) # action[a].start}
             H(a) == Append(history[a], add_history(action[a], "timezone_change", Rezoned(a, z)))
             R(a) == [action[a] EXCEPT !.start = Rezoned(a, z)]
  <1>1. /\ z # zone /\ zone' = z /\ UNCHANGED <<now, checkins>>
        /\ history' = [a \in Action |-> IF a \in future THEN H(a) ELSE history[a]]
        /\ action' = [a \in Action |-> IF a \in future THEN R(a) ELSE action[a]]
    BY DEF change_timezone
  <1>2. zone \in Int /\ z \in Int
    BY Clock, Constants
  <1>3. ASSUME NEW a \in Action, Exists(a)
        PROVE  /\ action[a] \in ActRow /\ Rezoned(a, z) \in Int
               /\ Rezoned(a, z) + z = action[a].start + zone /\ Rezoned(a, z) # action[a].start
    BY <1>1, <1>2, <1>3, ExistingRow, RowNumbers DEF Rezoned, to_local
  <1>4. \A a \in Action : a \in future <=> Future(a)
    BY <1>3 DEF Future, Active
  <1> HIDE DEF future
  <1>5. ASSUME NEW a \in Action, Future(a) PROVE RezonedTo(a)
    <2>1. Exists(a)
      BY <1>5 DEF Future, Active
    <2>2. action[a] \in ActRow /\ Rezoned(a, z) \in Int
      BY <1>3, <2>1
    <2>3. /\ R(a) \in ActRow /\ R(a).start = Rezoned(a, z)
          /\ R(a).source = action[a].source /\ R(a).occ = action[a].occ /\ R(a).first = action[a].first
          /\ R(a).status = action[a].status /\ R(a).live = action[a].live
          /\ R(a).date = action[a].date /\ R(a).wall = action[a].wall
      BY <2>2 DEF ActRow
    <2>4. action'[a] = R(a) /\ history'[a] = H(a)
      BY <1>1, <1>4, <1>5
    <2> HIDE DEF R
    <2>5. SameOrigin(a) /\ SameState(a)
      BY <2>2, <2>3, <2>4 DEF SameOrigin, SameState
    <2>6. history'[a] = Append(history[a], [type |-> "timezone_change", from |-> action[a].start,
                                            to |-> action'[a].start])
      BY <2>3, <2>4 DEF add_history
    <2>7. action'[a].start + zone' = action[a].start + zone
      BY <1>1, <1>3, <2>1, <2>3, <2>4
    <2>8. QED
      BY <1>1, <1>5, <2>3, <2>4, <2>5, <2>6, <2>7 DEF RezonedTo
  <1>6. ASSUME NEW a \in Action, ~ Future(a) PROVE Stays(a)
    BY <1>1, <1>4, <1>6 DEF Stays
  <1>7. checkins' = [a \in Action |-> checkins'[a]] /\ now <= now'
    BY <1>1, SameTable, Clock DEF Rows
  <1>8. QED
    BY <1>1, <1>5, <1>6, <1>7 DEF RowsStep, RowStep

-----------------------------------------------------------------------------
(* What the effects preserve. *)

(* An action that exists goes on existing, and none is revived.               *)
LEMMA RowKept ==
  ASSUME Rows, RowsStep, NEW a \in Action
  PROVE  /\ Exists(a) => /\ Exists(a)' /\ action'[a].source = action[a].source
                         /\ action'[a].occ = action[a].occ
         /\ Exists(a)' => Exists(a) \/ Created(a)
         /\ Active(a)' /\ Exists(a) => Active(a)
  <1>1. RowStep(a)
    BY DEF RowsStep
  <1>2. action'[a] \in ActRow => Exists(a)'
    BY NoActionIsNoRow DEF Exists
  <1>3. CASE Stays(a)
    BY <1>3 DEF Stays, Exists, Active
  <1>4. CASE Created(a)
    BY <1>2, <1>4 DEF Created
  <1>5. CASE SameOrigin(a) /\ (action'[a].live => action[a].live)
    BY <1>2, <1>5, ExistingRow DEF SameOrigin, Active
  <1>6. QED
    BY <1>1, <1>3, <1>4, <1>5 DEF RowStep, CheckedIn, Cancelled, MovedTo, RezonedTo, SameState

LEMMA RowTypes ==
  ASSUME Rows, RowsStep
  PROVE  /\ action' \in [Action -> ActRow \cup {NoAction}]
         /\ checkins' \in [Action -> Seq(CheckRow)]
         /\ history' \in [Action -> Seq(HistRow)]
  <1>1. ASSUME NEW a \in Action
        PROVE  /\ action'[a] \in ActRow \cup {NoAction} /\ checkins'[a] \in Seq(CheckRow)
               /\ history'[a] \in Seq(HistRow)
    <2> DEFINE A == action'[a] C == checkins'[a] H == history'[a]
               G == A \in ActRow \cup {NoAction} /\ C \in Seq(CheckRow) /\ H \in Seq(HistRow)
    <2>1. RowStep(a)
      BY DEF RowsStep
    <2>2. /\ action[a] \in ActRow \cup {NoAction} /\ checkins[a] \in Seq(CheckRow)
          /\ history[a] \in Seq(HistRow) /\ now \in Nat
      BY Clock DEF Rows
    <2>3. CASE Stays(a)
      BY <2>2, <2>3 DEF Stays
    <2>4. CASE Created(a)
      <3>1. [previous |-> NoneYet, new |-> "Planned", at |-> now] \in CheckRow
        BY <2>2 DEF CheckRow, Status
      <3>2. QED
        BY <2>2, <2>4, <3>1 DEF Created
    <2>5. CASE CheckedIn(a)
      <3>1. PICK row \in ActRow, new \in Status :
               C = Append(checkins[a], [previous |-> row.status, new |-> new, at |-> now])
        BY <2>5 DEF CheckedIn
      <3>2. [previous |-> row.status, new |-> new, at |-> now] \in CheckRow
        BY <2>2, RowNumbers DEF CheckRow
      <3>3. C \in Seq(CheckRow)
        BY <2>2, <3>1, <3>2
      <3>4. QED
        BY <2>2, <2>5, <3>3 DEF CheckedIn, SameOrigin
    <2>6. CASE Cancelled(a)
      <3>1. action[a] \in ActRow /\ A \in ActRow /\ C = checkins[a]
        BY <2>6 DEF Cancelled, SameOrigin
      <3>2. [type |-> "cancelled", from |-> action[a].start, to |-> NoneYet] \in HistRow
        BY <3>1, RowNumbers DEF HistRow
      <3>3. H \in Seq(HistRow)
        BY <2>2, <2>6, <3>2 DEF Cancelled
      <3>4. QED
        BY <2>2, <3>1, <3>3
    <2>7. CASE MovedTo(a)
      <3>1. action[a] \in ActRow /\ A \in ActRow /\ C = checkins[a]
        BY <2>7 DEF MovedTo, SameOrigin
      <3>2. PICK row \in ActRow :
               H = Append(history[a], [type |-> "rescheduled", from |-> row.start, to |-> A.start])
        BY <2>7 DEF MovedTo
      <3>3. [type |-> "rescheduled", from |-> row.start, to |-> A.start] \in HistRow
        BY <3>1, RowNumbers DEF HistRow
      <3>4. H \in Seq(HistRow)
        BY <2>2, <3>2, <3>3
      <3>5. QED
        BY <2>2, <3>1, <3>4
    <2>8. CASE RezonedTo(a)
      <3>1. action[a] \in ActRow /\ A \in ActRow /\ C = checkins[a]
        BY <2>8 DEF RezonedTo, SameOrigin
      <3>2. [type |-> "timezone_change", from |-> action[a].start, to |-> A.start] \in HistRow
        BY <3>1, RowNumbers DEF HistRow
      <3>3. H \in Seq(HistRow)
        BY <2>2, <2>8, <3>2 DEF RezonedTo
      <3>4. QED
        BY <2>2, <3>1, <3>3
    <2>9. QED
      BY <2>1, <2>3, <2>4, <2>5, <2>6, <2>7, <2>8 DEF RowStep
  <1>2. QED
    BY <1>1 DEF RowsStep

LEMMA WallStep ==
  ASSUME Rows, OnTheWall, RowsStep, zone' \in Int, now' \in Nat
  PROVE  OnTheWall'
  <1> SUFFICES ASSUME NEW a \in Action, Future(a)'
               PROVE  /\ action'[a].start + zone' = action'[a].wall
                      /\ action'[a].date = action'[a].wall \div Slots
    BY DEF OnTheWall, Future, to_local
  <1>1. RowStep(a) /\ now <= now' /\ now \in Nat /\ zone \in Int
    BY Clock DEF RowsStep
  <1>2. Future(a) => /\ action[a].start + zone = action[a].wall
                     /\ action[a].date = action[a].wall \div Slots
    BY DEF OnTheWall, Future, to_local
  <1>3. CASE Stays(a)
    <2>1. Active(a) /\ action[a].status = "Planned" /\ action[a].start > now'
      BY <1>3 DEF Stays, Future, Active, Exists
    <2>2. action[a].start \in Int
      BY <2>1, ExistingRow, RowNumbers DEF Active
    <2>3. Future(a)
      BY <1>1, <2>1, <2>2 DEF Future
    <2>4. zone' = zone
      BY <1>3, <2>3 DEF Stays
    <2>5. QED
      BY <1>2, <1>3, <2>3, <2>4 DEF Stays
  <1>4. CASE Created(a) \/ MovedTo(a)
    BY <1>4 DEF Created, MovedTo
  <1>5. CASE CheckedIn(a)
    BY <1>5 DEF CheckedIn, Future
  <1>6. CASE Cancelled(a)
    BY <1>6 DEF Cancelled, Future, Active
  <1>7. CASE RezonedTo(a)
    BY <1>2, <1>7 DEF RezonedTo
  <1>8. QED
    BY <1>1, <1>3, <1>4, <1>5, <1>6, <1>7 DEF RowStep

LEMMA OccurrenceStep ==
  ASSUME Rows, OnePerOccurrence, RowsStep
  PROVE  OnePerOccurrence'
  <1>1. ASSUME NEW a \in Action, NEW b \in Action, Active(a)', Active(b)', action'[a].source \in Habit,
               action'[a].source = action'[b].source, action'[a].occ = action'[b].occ
        PROVE  a = b
    <2>1. Exists(a)' /\ Exists(b)'
      BY <1>1 DEF Active
    <2>2. CASE Exists(a) /\ Exists(b)
      BY <1>1, <2>2, RowKept DEF OnePerOccurrence
    <2>3. ASSUME Created(a), a # b PROVE FALSE
      <3>1. action'[b] = action[b]
        BY <2>3 DEF Created
      <3>2. Active(b)
        BY <1>1, <3>1 DEF Active, Exists
      <3>3. QED
        BY <1>1, <2>3, <3>1, <3>2 DEF Created
    <2>4. ASSUME Created(b), a # b PROVE FALSE
      <3>1. action'[a] = action[a]
        BY <2>4 DEF Created
      <3>2. Active(a)
        BY <1>1, <3>1 DEF Active, Exists
      <3>3. QED
        BY <1>1, <2>4, <3>1, <3>2 DEF Created
    <2>5. QED
      BY <2>1, <2>2, <2>3, <2>4, RowKept
  <1>2. QED
    BY <1>1 DEF OnePerOccurrence

(* One more history row, which starts where the action was.                   *)
LEMMA ReplaysAppend ==
  ASSUME NEW h \in Seq(HistRow), NEW r \in ActRow, Replays(h, r), r.live, NEW x, x.from = r.start,
         NEW q \in ActRow, q.first = r.first, q.live => x.to = q.start,
         ~ q.live => x.type = "cancelled" /\ q.start = r.start
  PROVE  Replays(Append(h, x), q)
  <1> DEFINE g == Append(h, x)
             n == Len(h)
  <1>1. n \in Nat /\ Len(g) = n + 1 /\ g[n + 1] = x /\ \A i \in 1..n : g[i] = h[i]
    OBVIOUS
  <1> HIDE DEF g
  <1>2. ASSUME NEW i \in 1..Len(g)
        PROVE  g[i].from = (IF i = 1 THEN q.first ELSE g[i - 1].to)
    <2>1. CASE i \in 1..n
      <3>1. h[i].from = (IF i = 1 THEN r.first ELSE h[i - 1].to)
        BY <2>1 DEF Replays
      <3>2. i # 1 => i - 1 \in 1..n
        BY <1>1, <2>1
      <3>3. QED
        BY <1>1, <2>1, <3>1, <3>2
    <2>2. CASE i = n + 1
      <3>1. r.start = (IF n = 0 THEN r.first ELSE h[n].to)
        BY DEF Replays
      <3>2. n # 0 => n \in 1..n /\ i - 1 = n /\ i # 1
        BY <1>1, <2>2
      <3>3. n = 0 => i = 1
        BY <2>2
      <3>4. QED
        BY <1>1, <2>2, <3>1, <3>2, <3>3
    <2>3. QED
      BY <1>1, <2>1, <2>2
  <1>3. q.live => q.start = (IF Len(g) = 0 THEN q.first ELSE g[Len(g)].to)
    BY <1>1
  <1>4. ~ q.live => Len(g) > 0 /\ g[Len(g)].type = "cancelled" /\ g[Len(g)].from = q.start
    BY <1>1
  <1>5. QED
    BY <1>2, <1>3, <1>4 DEF Replays, g

LEMMA ReplayStep ==
  ASSUME Rows, Snapshot, Replayed, RowsStep
  PROVE  Replayed'
  <1>1. ASSUME NEW a \in Action
        PROVE  IF Exists(a)' THEN Replays(history'[a], action'[a]) ELSE history'[a] = <<>>
    <2>1. RowStep(a) /\ history[a] \in Seq(HistRow)
      BY DEF RowsStep, Rows
    <2>2. IF Exists(a) THEN Replays(history[a], action[a]) ELSE history[a] = <<>>
      BY DEF Replayed
    <2>3. action[a] \in ActRow => Exists(a)
      BY ExistingRow
    <2>4. CASE Stays(a)
      BY <2>2, <2>4 DEF Stays, Exists
    <2>5. CASE Created(a)
      <3>1. Exists(a)'
        BY <2>5, NoActionIsNoRow DEF Created, Exists
      <3>2. /\ history'[a] = <<>> /\ action'[a].live /\ action'[a].start = action'[a].first
        BY <2>2, <2>5 DEF Created
      <3>3. Len(<<>>) = 0 /\ 1..0 = {}
        OBVIOUS
      <3>4. Replays(history'[a], action'[a])
        BY <3>2, <3>3 DEF Replays
      <3>5. QED
        BY <3>1, <3>4
    <2>6. CASE CheckedIn(a)
      <3>1. Exists(a)' /\ action[a] \in ActRow
        BY <2>6, NoActionIsNoRow DEF CheckedIn, SameOrigin, Exists
      <3>2. /\ history'[a] = history[a] /\ action'[a].live = action[a].live
            /\ action'[a].start = action[a].start /\ action'[a].first = action[a].first
        BY <2>6 DEF CheckedIn, SameOrigin, SamePlace
      <3>3. QED
        BY <2>2, <2>3, <3>1, <3>2 DEF Replays
    <2>7. CASE Cancelled(a)
      <3>1. Exists(a)' /\ action[a] \in ActRow /\ action'[a] \in ActRow
        BY <2>7, NoActionIsNoRow DEF Cancelled, SameOrigin, Exists
      <3> DEFINE x == [type |-> "cancelled", from |-> action[a].start, to |-> NoneYet]
      <3>2. x.type = "cancelled" /\ x.from = action[a].start
        OBVIOUS
      <3>3. /\ history'[a] = Append(history[a], x) /\ action[a].live /\ ~ action'[a].live
            /\ action'[a].start = action[a].start /\ action'[a].first = action[a].first
        BY <2>7 DEF Cancelled, SameOrigin, SamePlace
      <3> HIDE DEF x
      <3>4. Replays(Append(history[a], x), action'[a])
        BY <2>1, <2>2, <2>3, <3>1, <3>2, <3>3, ReplaysAppend
      <3>5. QED
        BY <3>1, <3>3, <3>4
    <2>8. CASE MovedTo(a)
      <3>1. Exists(a)' /\ action[a] \in ActRow /\ action'[a] \in ActRow
        BY <2>8, NoActionIsNoRow DEF MovedTo, SameOrigin, Exists
      <3> DEFINE x == [type |-> "rescheduled", from |-> action[a].start, to |-> action'[a].start]
      <3>2. x.from = action[a].start /\ x.to = action'[a].start
        OBVIOUS
      <3>3. /\ history'[a] = Append(history[a], x) /\ action[a].live /\ action'[a].live
            /\ action'[a].first = action[a].first
        BY <2>8 DEF MovedTo, SameOrigin, SameState
      <3> HIDE DEF x
      <3>4. Replays(Append(history[a], x), action'[a])
        BY <2>1, <2>2, <2>3, <3>1, <3>2, <3>3, ReplaysAppend
      <3>5. QED
        BY <3>1, <3>3, <3>4
    <2>9. CASE RezonedTo(a)
      <3>1. Exists(a)' /\ action[a] \in ActRow /\ action'[a] \in ActRow
        BY <2>9, NoActionIsNoRow DEF RezonedTo, SameOrigin, Exists
      <3> DEFINE x == [type |-> "timezone_change", from |-> action[a].start, to |-> action'[a].start]
      <3>2. x.from = action[a].start /\ x.to = action'[a].start
        OBVIOUS
      <3>3. /\ history'[a] = Append(history[a], x) /\ action[a].live /\ action'[a].live
            /\ action'[a].first = action[a].first
        BY <2>9 DEF RezonedTo, SameOrigin, SameState, Future, Active
      <3> HIDE DEF x
      <3>4. Replays(Append(history[a], x), action'[a])
        BY <2>1, <2>2, <2>3, <3>1, <3>2, <3>3, ReplaysAppend
      <3>5. QED
        BY <3>1, <3>3, <3>4
    <2>10. QED
      BY <2>1, <2>4, <2>5, <2>6, <2>7, <2>8, <2>9 DEF RowStep
  <1>2. QED
    BY <1>1 DEF Replayed

LEMMA LinkStep ==
  ASSUME Rows, Snapshot, CheckinsLinked, RowsStep
  PROVE  CheckinsLinked'
  <1>1. ASSUME NEW a \in Action, Exists(a)'
        PROVE  Linked(checkins'[a], action'[a])
    <2>1. RowStep(a) /\ checkins[a] \in Seq(CheckRow)
      BY DEF RowsStep, Rows
    <2>2. action[a] \in ActRow => Linked(checkins[a], action[a])
      BY ExistingRow DEF CheckinsLinked
    <2>3. CASE Stays(a)
      BY <1>1, <2>3 DEF Stays, Exists, CheckinsLinked
    <2>4. CASE Created(a)
      <3> DEFINE x == [previous |-> NoneYet, new |-> "Planned", at |-> now]
      <3>1. x.previous = NoneYet /\ x.new = "Planned"
        OBVIOUS
      <3>2. checkins'[a] = <<x>> /\ action'[a].status = "Planned"
        BY <2>4 DEF Created
      <3> HIDE DEF x
      <3>3. Len(<<x>>) = 1 /\ <<x>>[1] = x /\ 2..1 = {}
        OBVIOUS
      <3>4. QED
        BY <3>1, <3>2, <3>3 DEF Linked
    <2>5. CASE CheckedIn(a)
      <3>1. PICK row \in ActRow, new \in Status \ {"Planned"} :
               /\ action'[a].status = new /\ row = action[a]
               /\ checkins'[a] =
                    Append(checkins[a], [previous |-> row.status, new |-> new, at |-> now])
        BY <2>5 DEF CheckedIn
      <3> DEFINE c == checkins[a]
                 x == [previous |-> row.status, new |-> new, at |-> now]
                 g == Append(c, x)
                 n == Len(c)
      <3>2. Linked(c, action[a])
        BY <2>2, <3>1
      <3>3. /\ n \in Nat /\ n > 0 /\ Len(g) = n + 1 /\ g[n + 1] = x
            /\ \A i \in 1..n : g[i] = c[i]
        BY <2>1, <3>2 DEF Linked
      <3>4. x.previous = action[a].status /\ x.new = action'[a].status /\ checkins'[a] = g
        BY <3>1
      <3> HIDE DEF g, x
      <3>5. ASSUME NEW i \in 2..Len(g) PROVE g[i].previous = g[i - 1].new
        <4>1. CASE i \in 2..n
          <5>1. i \in 1..n /\ i - 1 \in 1..n
            BY <3>3, <4>1
          <5>2. QED
            BY <3>2, <3>3, <4>1, <5>1 DEF Linked
        <4>2. CASE i = n + 1
          <5>1. i - 1 = n /\ n \in 1..n
            BY <3>3, <4>2
          <5>2. QED
            BY <3>2, <3>3, <3>4, <4>2, <5>1 DEF Linked
        <4>3. QED
          BY <3>3, <4>1, <4>2
      <3>6. 1 \in 1..n
        BY <3>3
      <3>7. QED
        BY <3>2, <3>3, <3>4, <3>5, <3>6 DEF Linked
    <2>6. CASE Cancelled(a)
      BY <2>2, <2>6 DEF Cancelled, SameOrigin, Linked
    <2>7. CASE MovedTo(a)
      BY <2>2, <2>7 DEF MovedTo, SameOrigin, SameState, Linked
    <2>8. CASE RezonedTo(a)
      BY <2>2, <2>8 DEF RezonedTo, SameOrigin, SameState, Linked
    <2>9. QED
      BY <2>1, <2>3, <2>4, <2>5, <2>6, <2>7, <2>8 DEF RowStep
  <1>2. QED
    BY <1>1 DEF CheckinsLinked

(* A check-in of now with a status further on comes after all the others.     *)
LEMMA TurnAppend ==
  ASSUME NEW c \in Seq(CheckRow), Len(c) > 0, NEW t \in Nat, NEW u \in Nat, t <= u, InTurn(c, t),
         NEW x \in CheckRow, x.at = t, Rank[c[Len(c)].new] < Rank[x.new]
  PROVE  InTurn(Append(c, x), u)
  <1> DEFINE g == Append(c, x)
             n == Len(c)
  <1>1. /\ n \in Nat /\ n \in 1..n /\ Len(g) = n + 1 /\ g[n + 1] = x
        /\ \A i \in 1..n : g[i] = c[i] /\ c[i] \in CheckRow
    OBVIOUS
  <1>2. \A r \in CheckRow : r.at \in Nat /\ Rank[r.new] \in Nat
    BY DEF CheckRow, Rank, Status
  <1> HIDE DEF g, n
  <1>3. \A i \in 1..n : c[i].at <= t /\ c[i].at \in Nat /\ Rank[c[i].new] \in Nat
    BY <1>1, <1>2 DEF InTurn, n
  <1>4. \A i, j \in 1..n : i < j => c[i].at <= c[j].at /\ Rank[c[i].new] < Rank[c[j].new]
    BY DEF InTurn, n
  <1>5. \A i \in 1..n : Rank[c[i].new] < Rank[x.new]
    <2> SUFFICES ASSUME NEW i \in 1..n PROVE Rank[c[i].new] < Rank[x.new]
      OBVIOUS
    <2>1. CASE i = n
      BY <2>1 DEF n
    <2>2. CASE i < n
      <3>1. Rank[c[i].new] < Rank[c[n].new] /\ Rank[c[n].new] < Rank[x.new]
        BY <1>1, <1>4, <2>2 DEF n
      <3>2. QED
        BY <1>1, <1>2, <1>3, <3>1
    <2>3. QED
      BY <1>1, <2>1, <2>2
  <1>6. \A i \in 1..Len(g) : g[i].at <= u
    BY <1>1, <1>3
  <1>7. \A i, j \in 1..Len(g) : i < j => g[i].at <= g[j].at /\ Rank[g[i].new] < Rank[g[j].new]
    BY <1>1, <1>3, <1>4, <1>5
  <1>8. QED
    BY <1>6, <1>7 DEF InTurn, g

LEMMA TurnStep ==
  ASSUME Rows, Snapshot, CheckinsLinked, CheckinsInTurn, RowsStep, now' \in Nat
  PROVE  CheckinsInTurn'
  <1>0. now \in Nat /\ now <= now'
    BY Clock DEF RowsStep
  <1>1. ASSUME NEW a \in Action, Exists(a)'
        PROVE  InTurn(checkins'[a], now')
    <2>1. RowStep(a) /\ checkins[a] \in Seq(CheckRow)
      BY DEF RowsStep, Rows
    <2>2. action[a] \in ActRow => Linked(checkins[a], action[a]) /\ InTurn(checkins[a], now)
      BY ExistingRow DEF CheckinsLinked, CheckinsInTurn
    <2>3. ASSUME InTurn(checkins[a], now) PROVE InTurn(checkins[a], now')
      <3> DEFINE c == checkins[a]
      <3>1. \A i \in 1..Len(c) : c[i] \in CheckRow
        BY <2>1
      <3>2. \A i \in 1..Len(c) : c[i].at \in Nat
        BY <3>1 DEF CheckRow
      <3>3. QED
        BY <1>0, <2>3, <3>2 DEF InTurn
    <2>4. CASE Stays(a)
      BY <1>1, <2>3, <2>4 DEF Stays, Exists, CheckinsInTurn
    <2>5. CASE Created(a)
      <3> DEFINE x == [previous |-> NoneYet, new |-> "Planned", at |-> now]
      <3>1. x.at = now /\ checkins'[a] = <<x>>
        BY <2>5 DEF Created
      <3> HIDE DEF x
      <3>2. Len(<<x>>) = 1 /\ <<x>>[1] = x /\ 1..1 = {1}
        OBVIOUS
      <3>3. QED
        BY <1>0, <3>1, <3>2 DEF InTurn
    <2>6. CASE CheckedIn(a)
      <3>1. PICK row \in ActRow, new \in Status \ {"Planned"} :
               /\ row = action[a] /\ Rank[row.status] < Rank[new]
               /\ checkins'[a] =
                    Append(checkins[a], [previous |-> row.status, new |-> new, at |-> now])
        BY <2>6 DEF CheckedIn
      <3> DEFINE x == [previous |-> row.status, new |-> new, at |-> now]
      <3>2. x \in CheckRow /\ x.at = now /\ x.new = new /\ checkins'[a] = Append(checkins[a], x)
        BY <1>0, <3>1 DEF CheckRow, ActRow
      <3> HIDE DEF x
      <3>3. /\ Len(checkins[a]) > 0 /\ InTurn(checkins[a], now)
            /\ checkins[a][Len(checkins[a])].new = row.status
        BY <2>2, <3>1 DEF Linked
      <3>4. QED
        BY <1>0, <2>1, <3>1, <3>2, <3>3, TurnAppend
    <2>7. CASE Cancelled(a) \/ MovedTo(a) \/ RezonedTo(a)
      BY <2>2, <2>3, <2>7 DEF Cancelled, MovedTo, RezonedTo, SameOrigin
    <2>8. QED
      BY <2>1, <2>4, <2>5, <2>6, <2>7 DEF RowStep
  <1>2. QED
    BY <1>1 DEF CheckinsInTurn

-----------------------------------------------------------------------------
(* What a step does to the other tables and to the request in flight. *)

RestTypes ==
    /\ now' \in 0..MaxTime /\ zone' \in Zone /\ edits' \in 0..MaxEdits
    /\ task' \in [Task -> {"open", "in_progress", "completed", "cancelled"}]
    /\ record' \in [Habit \X Day -> {NoneYet, "completed", "partial", "skipped"}]
    /\ events' \subseteq EventRow
    /\ suggestion' \in [Action -> SuggRow \cup {NoSuggestion}]
    /\ pending' \in {NoRequest} \cup OneAction \cup OneOutcome \cup OneAccept

(* A proposal is never rewritten, and a new one is about actions that exist.  *)
SuggestionsKept ==
    \A s \in Action :
        /\ suggestion[s] # NoSuggestion => /\ suggestion'[s] # NoSuggestion
                                           /\ suggestion'[s].proposal = suggestion[s].proposal
        /\ suggestion[s] = NoSuggestion /\ suggestion'[s] # NoSuggestion =>
             \A a \in DOMAIN suggestion'[s].proposal : Exists(a)

(* The request in flight is over, or goes on beside a step that cannot change *)
(* what it has read unless requests overlap.                                  *)
PendingGoesOn ==
    \/ pending' = NoRequest
    \/ /\ pending' = pending
       /\ \/ Overlap
          \/ pending = NoRequest
          \/ \A a \in Action : Exists(a) => action'[a] = action[a]

PendingStep == PendingKnown' /\ (~ Overlap /\ Snapshot => Snapshot')

(* The three ways in which outcomes of habits change.                         *)
NoOutcome ==
    record' = record /\ \A a \in Action : Exists(a) /\ action[a].source \in Habit =>
        \/ action'[a].status = action[a].status
        \/ action'[a].status \notin {"Completed", "Skipped"}

LoneOutcome ==
    /\ action' = action
    /\ \E k \in Habit \X Day, result \in Outcome :
         /\ record' = [record EXCEPT ![k] = result]
         /\ \A a \in Action : Active(a) => <<action[a].source, action[a].occ>> # k

OutcomeOf(a) ==
    /\ Exists(a) /\ action[a].source \in Habit /\ (Snapshot => Active(a))
    /\ \E result \in {"completed", "partial", "skipped"} :
         /\ record' = [record EXCEPT ![<<action[a].source, action[a].occ>>] = result]
         /\ (result = "skipped") <=> (action'[a].status = "Skipped")
    /\ \A b \in Action \ {a} : action'[b] = action[b]

RecordStep == NoOutcome \/ LoneOutcome \/ \E a \in Action : OutcomeOf(a)

Step == RowsStep /\ RestTypes /\ SuggestionsKept /\ PendingStep /\ RecordStep

LEMMA PendingOp ==
  Rows => /\ pending.op \in {"complete", "record"} <=> pending \in OneAction \cup OneOutcome
          /\ pending.op = "complete" <=> pending \in OneAction
          /\ pending.op = "record" <=> pending \in OneOutcome
          /\ pending.op = "accept" <=> pending \in OneAccept
          /\ pending = NoRequest => pending.op = "none"
          /\ pending \in OneAction \cup OneOutcome => pending.action \in Action /\ pending.row \in ActRow
          /\ pending \in OneOutcome => pending.result \in Outcome
  BY DEF Rows, NoRequest, NoneYet, OneAction, OneOutcome, OneAccept

LEMMA PendingKept ==
  ASSUME Rows, Known, RowsStep, SuggestionsKept, PendingGoesOn
  PROVE  PendingStep
  <1>1. CASE pending' = NoRequest
    <2>1. pending'.op = "none"
      BY <1>1 DEF NoRequest, NoneYet
    <2>2. QED
      BY <2>1 DEF PendingStep, PendingKnown, Snapshot
  <1>2. CASE pending' = pending
    <2>1. PendingKnown'
      <3>1. ASSUME pending.op \in {"complete", "record"}
            PROVE  action'[pending.action] # NoAction
        <4>1. pending.action \in Action /\ Exists(pending.action)
          BY <3>1, PendingOp DEF Known, PendingKnown
        <4>2. \A a \in Action : Exists(a) => action'[a] # NoAction
          BY RowKept DEF Exists
        <4>3. QED
          BY <4>1, <4>2
      <3>2. ASSUME pending.op = "accept"
            PROVE  /\ suggestion'[pending.suggestion] # NoSuggestion
                   /\ DOMAIN pending.rows = DOMAIN suggestion'[pending.suggestion].proposal
        <4>1. pending.suggestion \in Action
          BY <3>2, PendingAccept
        <4>2. QED
          BY <3>2, <4>1 DEF Known, PendingKnown, SuggestionsKept
      <3>3. QED
        BY <1>2, <3>1, <3>2 DEF PendingKnown, Exists
    <2>2. ASSUME ~ Overlap, Snapshot PROVE Snapshot'
      <3>1. CASE pending = NoRequest
        <4>1. pending'.op = "none"
          BY <1>2, <3>1, PendingOp
        <4>2. QED
          BY <4>1 DEF Snapshot
      <3>2. CASE \A a \in Action : Exists(a) => action'[a] = action[a]
        <4>1. pending.op \in {"complete", "record"} => pending.row = action'[pending.action]
          BY <2>2, <3>2, PendingOp DEF Snapshot, Known, PendingKnown
        <4>2. pending.op = "accept" => \A a \in DOMAIN pending.rows : pending.rows[a] = action'[a]
          BY <2>2, <3>2, PendingAccept DEF Snapshot
        <4>3. QED
          BY <1>2, <4>1, <4>2 DEF Snapshot
      <3>3. CASE pending' = NoRequest
        BY <1>2, <3>1, <3>3
      <3>4. QED
        BY <2>2, <3>1, <3>2, <3>3 DEF PendingGoesOn
    <2>3. QED
      BY <2>1, <2>2 DEF PendingStep
  <1>3. QED
    BY <1>1, <1>2 DEF PendingGoesOn

LEMMA StepInv ==
  ASSUME IInv, Step
  PROVE  IInv'
  <1>1. Rows'
    BY RowTypes DEF Step, RestTypes, Rows, IInv
  <1>2. Known'
    <2>1. ASSUME NEW s \in Action, suggestion'[s] # NoSuggestion,
                 NEW a \in DOMAIN suggestion'[s].proposal
          PROVE  Exists(a)'
      <3>1. Exists(a)
        BY <2>1 DEF Step, SuggestionsKept, IInv, Known, ProposalsKnown
      <3>2. a \in Action
        <4>1. suggestion'[s] \in SuggRow
          BY <2>1 DEF Step, RestTypes
        <4>2. suggestion'[s].proposal \in Proposals
          BY <4>1 DEF SuggRow
        <4>3. QED
          BY <2>1, <4>2 DEF Proposals
      <3>3. QED
        BY <3>1, <3>2, RowKept DEF Step, IInv
    <2>2. ProposalsKnown'
      BY <2>1 DEF ProposalsKnown
    <2>3. QED
      BY <2>2 DEF Known, Step, PendingStep
  <1>3. zone' \in Int /\ now' \in Nat
    BY Constants DEF Step, RestTypes
  <1>4. OnTheWall' /\ OnePerOccurrence'
    BY <1>3, WallStep, OccurrenceStep DEF Step, IInv
  <1>5. QED
    BY <1>1, <1>2, <1>4 DEF IInv

LEMMA OutcomeStep ==
  ASSUME IInv, Snapshot, RecordAgrees, Step
  PROVE  RecordAgrees'
  <1> DEFINE Ended == {"Completed", "Skipped"}
             key(a) == <<action[a].source, action[a].occ>>
  <1>1. ASSUME NEW a \in Action, Active(a)', action'[a].source \in Habit, action'[a].status \in Ended
        PROVE  /\ Active(a) /\ action'[a].source = action[a].source /\ action'[a].occ = action[a].occ
               /\ action[a].occ \in Day
    <2>1. ~ Created(a)
      BY <1>1 DEF Created
    <2>2. Exists(a)
      BY <1>1, <2>1, RowKept DEF Active, Step, IInv
    <2>3. action[a] \in ActRow
      BY <2>2, ExistingRow DEF IInv
    <2>4. QED
      BY <1>1, <2>2, <2>3, RowKept, RowNumbers DEF Step, IInv
  <1>2. ASSUME NEW a \in Action, Active(a)', action'[a].source \in Habit, action'[a].status \in Ended
        PROVE  (record'[key(a)] = "skipped") <=> (action'[a].status = "Skipped")
    <2>1. /\ Active(a) /\ action'[a].source = action[a].source /\ key(a) \in Habit \X Day
          /\ Exists(a) /\ action[a].source \in Habit
      BY <1>1, <1>2 DEF Active
    <2>2. action[a].status \in Ended =>
             ((record[key(a)] = "skipped") <=> (action[a].status = "Skipped"))
      BY <2>1 DEF RecordAgrees
    <2>3. record \in [Habit \X Day -> {NoneYet, "completed", "partial", "skipped"}]
      BY DEF IInv, Rows
    <2> HIDE DEF key
    <2>4. CASE NoOutcome
      BY <1>2, <2>1, <2>2, <2>4 DEF NoOutcome
    <2>5. CASE LoneOutcome
      <3>1. PICK k \in Habit \X Day, result \in Outcome :
               record' = [record EXCEPT ![k] = result] /\ key(a) # k
        BY <2>1, <2>5 DEF LoneOutcome, key
      <3>2. record'[key(a)] = record[key(a)]
        BY <2>1, <2>3, <3>1
      <3>3. action'[a] = action[a]
        BY <2>5 DEF LoneOutcome
      <3>4. QED
        BY <1>2, <2>2, <3>2, <3>3
    <2>6. ASSUME NEW b \in Action, OutcomeOf(b)
          PROVE  (record'[key(a)] = "skipped") <=> (action'[a].status = "Skipped")
      <3>1. PICK result \in {"completed", "partial", "skipped"} :
               /\ record' = [record EXCEPT ![key(b)] = result]
               /\ (result = "skipped") <=> (action'[b].status = "Skipped")
        BY <2>6 DEF OutcomeOf, key
      <3>2. CASE a = b
        BY <2>1, <2>3, <3>1, <3>2
      <3>3. CASE a # b
        <4>1. action'[a] = action[a] /\ Active(b) /\ action[b].source \in Habit
          BY <2>6, <3>3 DEF OutcomeOf
        <4>2. key(a) # key(b)
          BY <2>1, <3>3, <4>1 DEF IInv, OnePerOccurrence, key
        <4>3. record'[key(a)] = record[key(a)]
          BY <2>1, <2>3, <3>1, <4>2
        <4>4. QED
          BY <1>2, <2>2, <4>1, <4>3
      <3>4. QED
        BY <3>2, <3>3
    <2>7. QED
      BY <2>4, <2>5, <2>6 DEF Step, RecordStep
  <1>3. QED
    BY <1>1, <1>2 DEF RecordAgrees

LEMMA SerialStep ==
  ASSUME ~ Overlap, SInv, Step
  PROVE  SInv'
  <1>1. now' \in Nat
    BY Constants DEF Step, RestTypes
  <1>2. CheckinsInTurn'
    BY <1>1, TurnStep DEF SInv, IInv, Step
  <1>3. QED
    BY <1>2, StepInv, OutcomeStep, ReplayStep, LinkStep DEF SInv, IInv, Step, PendingStep

-----------------------------------------------------------------------------
(* Every action of the specification is a Step. *)

LEMMA Requested ==
  ASSUME Rows, Request
  PROVE  edits' \in 0..MaxEdits /\ (Overlap \/ pending = NoRequest)
  BY Constants DEF Rows, Request, Alone

LEMMA SuggestionsSame == suggestion' = suggestion => SuggestionsKept
  BY DEF SuggestionsKept

(* Steps that write neither actions, check-ins nor history.                   *)
LEMMA QuietNoOutcome ==
  action' = action /\ record' = record => NoOutcome
  BY DEF NoOutcome

LEMMA TickStep == ASSUME IInv, Tick PROVE Step
  <1>1. Rows /\ Known
    BY DEF IInv
  <1>2. UNCHANGED <<zone, action, checkins, history, task, record, events, suggestion, pending, edits>>
    BY DEF Tick
  <1>3. now' \in 0..MaxTime /\ now <= now'
    BY <1>1, Constants DEF Tick, Rows
  <1>4. RestTypes
    BY <1>1, <1>2, <1>3 DEF RestTypes, Rows
  <1>5. RowsStep
    BY <1>1, <1>2, <1>3, QuietRows
  <1>6. SuggestionsKept /\ RecordStep /\ PendingGoesOn
    BY <1>2, SuggestionsSame, QuietNoOutcome DEF RecordStep, PendingGoesOn
  <1>7. QED
    BY <1>1, <1>4, <1>5, <1>6, PendingKept DEF Step

(* An insert, by the User or by the generator.                                *)
LEMMA InsertStep ==
  ASSUME IInv, NEW a \in Action, NEW source \in Task \cup Habit \cup {Manual}, NEW x \in Times,
         Insert(a, source, x[1], x[2]),
         UNCHANGED <<now, zone, history, task, record, events, suggestion, pending, edits>>,
         \A b \in Action : Active(b) /\ action[b].source = source /\ source \in Habit =>
                             action[b].occ # x[1]
  PROVE  Step
  <1>1. Rows /\ Known
    BY DEF IInv
  <1>2. x[1] \in Day /\ x[2] \in 0..(Slots - 1)
    BY Constants
  <1>3. RowsStep
    BY <1>1, <1>2, InsertRows
  <1>4. RestTypes
    BY <1>1 DEF RestTypes, Rows
  <1>5. \A b \in Action : Exists(b) => action'[b] = action[b]
    BY <1>1 DEF Insert, Rows
  <1>6. SuggestionsKept /\ PendingGoesOn /\ RecordStep
    BY <1>5, SuggestionsSame DEF PendingGoesOn, RecordStep, NoOutcome
  <1>7. QED
    BY <1>1, <1>3, <1>4, <1>6, PendingKept DEF Step

LEMMA CreateStep ==
  ASSUME IInv, NEW a \in Action, NEW x \in Times,
         \/ create_manual(a, x[1], x[2])
         \/ \E t \in Task : schedule(a, t, x[1], x[2])
         \/ \E h \in Habit : generate(a, h, x[1], x[2])
  PROVE  Step
  <1>1. CASE create_manual(a, x[1], x[2])
    <2>1. Manual \notin Habit
      BY IdAssumption
    <2>2. QED
      BY <1>1, <2>1, InsertStep DEF create_manual
  <1>2. ASSUME NEW t \in Task, schedule(a, t, x[1], x[2]) PROVE Step
    BY <1>2, InsertStep DEF schedule
  <1>3. ASSUME NEW h \in Habit, generate(a, h, x[1], x[2]) PROVE Step
    BY <1>3, InsertStep DEF generate
  <1>4. QED
    BY <1>1, <1>2, <1>3

(* Updates of a task without a Daily Action.                                  *)
LEMMA TaskStep ==
  ASSUME IInv, NEW t \in Task, complete(t) \/ \E status \in ByHand : update_task(t, status)
  PROVE  Step
  <1>1. Rows /\ Known
    BY DEF IInv
  <1>2. /\ UNCHANGED <<now, zone, action, checkins, history, record, events, suggestion, pending>>
        /\ Request
    BY DEF complete, update_task
  <1>3. task' \in [Task -> {"open", "in_progress", "completed", "cancelled"}]
    <2>1. CASE complete(t)
      BY <1>1, <2>1 DEF complete, Rows
    <2>2. CASE \E status \in ByHand : update_task(t, status)
      BY <1>1, <2>2, DayAssumption DEF update_task, Rows
    <2>3. QED
      BY <2>1, <2>2
  <1>4. RestTypes
    BY <1>1, <1>2, <1>3, Requested DEF RestTypes, Rows
  <1>5. RowsStep
    BY <1>1, <1>2, QuietRows, Clock
  <1>6. SuggestionsKept /\ RecordStep /\ PendingGoesOn
    BY <1>2, SuggestionsSame, QuietNoOutcome DEF RecordStep, PendingGoesOn
  <1>7. QED
    BY <1>1, <1>4, <1>5, <1>6, PendingKept DEF Step

LEMMA LoneOutcomeStep ==
  ASSUME IInv, NEW h \in Habit, NEW d \in Day, NEW result \in Outcome, record_occurrence(h, d, result)
  PROVE  Step
  <1>1. Rows /\ Known
    BY DEF IInv
  <1>2. /\ UNCHANGED <<now, zone, action, checkins, history, task, events, suggestion, pending>>
        /\ Request /\ record' = [record EXCEPT ![<<h, d>>] = result]
        /\ \A a \in Action : ~ (Active(a) /\ action[a].source = h /\ action[a].occ = d)
    BY DEF record_occurrence
  <1>3. record' \in [Habit \X Day -> {NoneYet, "completed", "partial", "skipped"}]
    BY <1>1, <1>2, DayAssumption DEF Rows
  <1>4. RestTypes
    BY <1>1, <1>2, <1>3, Requested DEF RestTypes, Rows
  <1>5. RowsStep
    BY <1>1, <1>2, QuietRows, Clock
  <1>6. LoneOutcome
    <2>1. <<h, d>> \in Habit \X Day
      OBVIOUS
    <2>2. QED
      BY <1>2, <2>1 DEF LoneOutcome
  <1>7. SuggestionsKept /\ PendingGoesOn
    BY <1>2, SuggestionsSame DEF PendingGoesOn
  <1>8. QED
    BY <1>1, <1>4, <1>5, <1>6, <1>7, PendingKept DEF Step, RecordStep

LEMMA AbortStep == ASSUME IInv, Abort PROVE Step
  <1>1. Rows /\ Known
    BY DEF IInv
  <1>2. /\ UNCHANGED <<now, zone, action, checkins, history, task, record, events, suggestion, edits>>
        /\ pending' = NoRequest
    BY DEF Abort
  <1>3. RestTypes
    BY <1>1, <1>2 DEF RestTypes, Rows
  <1>4. RowsStep
    BY <1>1, <1>2, QuietRows, Clock
  <1>5. SuggestionsKept /\ RecordStep /\ PendingGoesOn
    BY <1>2, SuggestionsSame, QuietNoOutcome DEF RecordStep, PendingGoesOn
  <1>6. QED
    BY <1>1, <1>3, <1>4, <1>5, PendingKept DEF Step

(* A request that reads the row of an action it will lock later.              *)
LEMMA BeginOneStep ==
  ASSUME IInv, NEW a \in Action, Exists(a), Request,
         \/ pending' = [op |-> "complete", action |-> a, row |-> action[a]]
         \/ \E result \in Outcome :
              pending' = [op |-> "record", action |-> a, row |-> action[a], result |-> result],
         UNCHANGED <<now, zone, action, checkins, history, task, record, events, suggestion>>
  PROVE  Step
  <1>1. Rows /\ Known
    BY DEF IInv
  <1>2. action[a] \in ActRow
    BY <1>1, ExistingRow
  <1>3. pending' \in OneAction \cup OneOutcome
    BY <1>2 DEF OneAction, OneOutcome
  <1>4. RestTypes
    BY <1>1, <1>3, Requested DEF RestTypes, Rows
  <1>5. RowsStep
    BY <1>1, QuietRows, Clock
  <1>6. PendingStep
    <2>1. pending'.op # "accept" /\ pending'.action = a /\ pending'.row = action[a]
      OBVIOUS
    <2>2. QED
      BY <2>1 DEF PendingStep, PendingKnown, Snapshot, Exists
  <1>7. SuggestionsKept /\ RecordStep
    BY SuggestionsSame, QuietNoOutcome DEF RecordStep
  <1>8. QED
    BY <1>4, <1>5, <1>6, <1>7 DEF Step

LEMMA BeginStep ==
  ASSUME IInv,
         \/ \E t \in Task : BeginComplete(t)
         \/ \E h \in Habit, d \in Day, result \in Outcome : BeginRecord(h, d, result)
  PROVE  Step
  <1>1. ASSUME NEW t \in Task, BeginComplete(t) PROVE Step
    <2>1. PICK a \in active_task_action(t) :
             pending' = [op |-> "complete", action |-> a, row |-> action[a]]
      BY <1>1 DEF BeginComplete
    <2>2. a \in Action /\ Exists(a)
      BY DEF active_task_action, Active
    <2>3. QED
      BY <1>1, <2>1, <2>2, BeginOneStep DEF BeginComplete
  <1>2. ASSUME NEW h \in Habit, NEW d \in Day, NEW result \in Outcome, BeginRecord(h, d, result)
        PROVE  Step
    <2>1. PICK a \in Action :
             /\ Active(a)
             /\ pending' = [op |-> "record", action |-> a, row |-> action[a], result |-> result]
      BY <1>2 DEF BeginRecord
    <2>2. Exists(a)
      BY <2>1 DEF Active
    <2>3. QED
      BY <1>2, <2>1, <2>2, BeginOneStep DEF BeginRecord
  <1>3. QED
    BY <1>1, <1>2

(* A check-in, decided on the row the transaction has.                        *)
LEMMA CheckinStep ==
  ASSUME IInv, NEW a \in Action, Exists(a), NEW row \in ActRow, NEW new,
         NEW result \in {"completed", "partial", "skipped"}, Transition(a, row, new, result),
         Snapshot => row = action[a], (result = "skipped") <=> (new = "Skipped"),
         edits' \in 0..MaxEdits, PendingGoesOn
  PROVE  Step
  <1>1. Rows /\ Known
    BY DEF IInv
  <1>2. /\ RowsStep /\ CheckedIn(a) /\ action'[a].status = new /\ row.live
        /\ \A b \in Action \ {a} : Stays(b)
    BY <1>1, TransitionRows
  <1>3. action[a] \in ActRow
    BY <1>1, ExistingRow
  <1>4. now \in Nat /\ row.start \in Int /\ row.date \in Int
    BY <1>1, Clock, RowNumbers
  <1>5. task' \in [Task -> {"open", "in_progress", "completed", "cancelled"}]
    BY <1>1 DEF Transition, task_sync_hook, Rows
  <1>6. record' \in [Habit \X Day -> {NoneYet, "completed", "partial", "skipped"}]
    BY <1>1 DEF Transition, habit_sync_hook, Rows
  <1>7. events' \subseteq EventRow
    <2>1. [trigger |-> a, date |-> row.date, end |-> row.start + 1, completed |-> now] \in EventRow
      BY <1>4 DEF EventRow
    <2>2. events \subseteq EventRow
      BY <1>1 DEF Rows
    <2>3. QED
      BY <2>1, <2>2 DEF Transition
  <1>8. UNCHANGED <<now, zone, suggestion>>
    BY DEF Transition
  <1>9. RestTypes
    BY <1>1, <1>5, <1>6, <1>7, <1>8 DEF RestTypes, Rows, PendingGoesOn
  <1>10. RecordStep
    <2>1. \A b \in Action \ {a} : action'[b] = action[b]
      BY <1>2 DEF Stays
    <2>2. CASE action[a].source \in Habit /\ new \in {"Completed", "Skipped"}
      <3>1. record' = [record EXCEPT ![<<action[a].source, action[a].occ>>] = result]
        BY <2>2 DEF Transition, habit_sync_hook
      <3>2. Snapshot => Active(a)
        BY <1>2 DEF Active
      <3>3. OutcomeOf(a)
        BY <1>2, <2>1, <2>2, <3>1, <3>2 DEF OutcomeOf
      <3>4. QED
        BY <3>3 DEF RecordStep
    <2>3. CASE ~ (action[a].source \in Habit /\ new \in {"Completed", "Skipped"})
      <3>1. record' = record
        BY <2>3 DEF Transition, habit_sync_hook
      <3>2. NoOutcome
        BY <1>2, <2>1, <2>3, <3>1 DEF NoOutcome
      <3>3. QED
        BY <3>2 DEF RecordStep
    <2>4. QED
      BY <2>2, <2>3
  <1>11. SuggestionsKept
    BY <1>8, SuggestionsSame
  <1>12. QED
    BY <1>1, <1>2, <1>9, <1>10, <1>11, PendingKept DEF Step

LEMMA TransitionStep ==
  ASSUME IInv, NEW a \in Action, NEW new \in Status, transition(a, new)
  PROVE  Step
  <1>1. Rows /\ Exists(a) /\ Request /\ pending' = pending
    BY DEF IInv, transition
  <1>2. action[a] \in ActRow
    BY <1>1, ExistingRow
  <1>3. edits' \in 0..MaxEdits /\ PendingGoesOn
    BY <1>1, Requested DEF PendingGoesOn
  <1>4. /\ Result(new) \in {"completed", "partial", "skipped"}
        /\ (Result(new) = "skipped") <=> (new = "Skipped")
    BY DEF Result
  <1>5. Transition(a, action[a], new, Result(new))
    BY DEF transition
  <1>6. QED
    BY <1>1, <1>2, <1>3, <1>4, <1>5, CheckinStep

(* The check-in of a request that has read the action before.                 *)
LEMMA PendingCheckinStep ==
  ASSUME IInv, CompleteTaskAction \/ RecordByAction
  PROVE  Step
  <1> DEFINE a == pending.action
  <1>1. Rows /\ Known
    BY DEF IInv
  <1>2. /\ pending.op \in {"complete", "record"} /\ pending' = NoRequest /\ edits' = edits
    BY DEF CompleteTaskAction, RecordByAction
  <1>3. a \in Action /\ pending.row \in ActRow /\ Exists(a) /\ (Snapshot => pending.row = action[a])
    BY <1>1, <1>2, PendingOp DEF Known, PendingKnown, Snapshot
  <1>4. edits' \in 0..MaxEdits /\ PendingGoesOn
    BY <1>1, <1>2 DEF PendingGoesOn, Rows
  <1>5. CASE CompleteTaskAction
    <2>1. Transition(a, pending.row, "Completed", "completed")
      BY <1>5 DEF CompleteTaskAction
    <2> HIDE DEF a
    <2>2. QED
      BY <1>3, <1>4, <2>1, CheckinStep
  <1>6. CASE RecordByAction
    <2> DEFINE new == IF pending.result = "skipped" THEN "Skipped" ELSE "Completed"
    <2>1. Transition(a, pending.row, new, pending.result)
      BY <1>6 DEF RecordByAction
    <2>2. pending.result \in {"completed", "partial", "skipped"}
      BY <1>1, <1>6, PendingOp, DayAssumption DEF RecordByAction
    <2>3. (pending.result = "skipped") <=> (new = "Skipped")
      OBVIOUS
    <2> HIDE DEF a, new
    <2>4. QED
      BY <1>3, <1>4, <2>1, <2>2, <2>3, CheckinStep
  <1>7. QED
    BY <1>5, <1>6

(* A cancellation, a move or a change of zone.                                *)
LEMMA EditStep ==
  ASSUME IInv, RowsStep, Request, zone' \in Zone,
         UNCHANGED <<now, checkins, task, record, events, suggestion, pending>>,
         \A a \in Action : Exists(a) => action'[a].status = action[a].status
  PROVE  Step
  <1>1. Rows /\ Known
    BY DEF IInv
  <1>2. RestTypes
    BY <1>1, Requested DEF RestTypes, Rows
  <1>3. SuggestionsKept /\ RecordStep /\ PendingGoesOn
    BY <1>1, SuggestionsSame, Requested DEF RecordStep, NoOutcome, PendingGoesOn
  <1>4. QED
    BY <1>1, <1>2, <1>3, PendingKept DEF Step

(* A step that adds no check-in changes no status.                            *)
LEMMA NoCheckinNoStatus ==
  ASSUME Rows, RowsStep, checkins' = checkins, NEW a \in Action, Exists(a)
  PROVE  action'[a].status = action[a].status
  <1>1. RowStep(a) /\ checkins[a] \in Seq(CheckRow)
    BY DEF RowsStep, Rows
  <1>2. ~ CheckedIn(a)
    <2>1. ASSUME NEW x PROVE Append(checkins[a], x) # checkins[a]
      <3>1. Len(Append(checkins[a], x)) = Len(checkins[a]) + 1 /\ Len(checkins[a]) \in Nat
        BY <1>1
      <3>2. QED
        BY <3>1
    <2>2. QED
      BY <2>1 DEF CheckedIn
  <1>3. ~ Created(a)
    BY DEF Created
  <1>4. QED
    BY <1>1, <1>2, <1>3 DEF RowStep, Stays, Cancelled, MovedTo, RezonedTo, SameState

LEMMA UserEditStep ==
  ASSUME IInv,
         \/ \E a \in Action : cancel(a)
         \/ \E a \in Action, x \in Times : reschedule(a, x[1], x[2])
         \/ \E z \in Zone : change_timezone(z)
  PROVE  Step
  <1>1. Rows
    BY DEF IInv
  <1>2. RowsStep
    BY <1>1, CancelRows, RescheduleRows, ChangeTimezoneRows, Constants
  <1>3. /\ UNCHANGED <<now, checkins, task, record, events, suggestion, pending>>
        /\ Request /\ zone' \in Zone
    BY <1>1 DEF cancel, reschedule, change_timezone, Rows
  <1>4. \A a \in Action : Exists(a) => action'[a].status = action[a].status
    BY <1>1, <1>2, <1>3, NoCheckinNoStatus
  <1>5. QED
    BY <1>2, <1>3, <1>4, EditStep

(* A proposal about actions that exist.                                       *)
LEMMA ProposalStep ==
  ASSUME IInv, NEW e \in events, on_status_changed(e)
  PROVE  Step
  <1> DEFINE overrun == e.completed - e.end
             following == {a \in Action \ {e.trigger} :
                             /\ Active(a) /\ action[a].status = "Planned"
                             /\ action[a].date = e.date /\ action[a].start >= e.end}
             p == build_proposal(overrun, following, sleep_limit_for(e.date))
             r == [status |-> "proposed", date |-> e.date, proposal |-> p]
             t == e.trigger
  <1>1. Rows /\ Known
    BY DEF IInv
  <1>2. t \in Action /\ e.date \in Int /\ overrun \in Int
    BY <1>1 DEF Rows, EventRow
  <1>3. /\ suggestion[t] = NoSuggestion /\ suggestion' = [suggestion EXCEPT ![t] = r]
        /\ UNCHANGED <<now, zone, action, checkins, history, task, record, events, pending, edits>>
    BY DEF on_status_changed
  <1>4. following \subseteq Action /\ \A a \in following : Exists(a) /\ action[a].start \in Int
    BY <1>1, ExistingRow, RowNumbers DEF Active
  <1> HIDE DEF following, overrun
  <1>5. p \in [following -> Int]
    <2>1. \A a \in following : action[a].start + Slots \in Int /\ action[a].start + overrun \in Int
      BY <1>2, <1>4, Constants
    <2>2. QED
      BY <2>1 DEF build_proposal
  <1>6. p \in Proposals /\ DOMAIN p = following
    BY <1>4, <1>5 DEF Proposals
  <1> HIDE DEF p
  <1>7. r \in SuggRow /\ r.proposal = p
    BY <1>2, <1>6 DEF SuggRow
  <1> HIDE DEF r, t
  <1>8. suggestion'[t] = r /\ \A s \in Action \ {t} : suggestion'[s] = suggestion[s]
    BY <1>1, <1>2, <1>3 DEF Rows
  <1>9. suggestion' \in [Action -> SuggRow \cup {NoSuggestion}]
    BY <1>1, <1>2, <1>3, <1>7 DEF Rows
  <1>10. SuggestionsKept
    BY <1>3, <1>4, <1>6, <1>7, <1>8 DEF SuggestionsKept
  <1>11. RestTypes
    BY <1>1, <1>3, <1>9 DEF RestTypes, Rows
  <1>12. RowsStep
    BY <1>1, <1>3, QuietRows, Clock
  <1>13. RecordStep /\ PendingGoesOn
    BY <1>3, QuietNoOutcome DEF RecordStep, PendingGoesOn
  <1>14. QED
    BY <1>1, <1>10, <1>11, <1>12, <1>13, PendingKept DEF Step

(* A suggestion that is decided keeps its proposal.                           *)
LEMMA Decided ==
  ASSUME Rows, NEW s \in Action, suggestion[s] \in SuggRow, NEW v \in {"accepted", "rejected"},
         suggestion' = [suggestion EXCEPT ![s].status = v]
  PROVE  SuggestionsKept /\ suggestion' \in [Action -> SuggRow \cup {NoSuggestion}]
  <1> DEFINE r == [suggestion[s] EXCEPT !.status = v]
  <1>1. r \in SuggRow /\ r.status = v /\ r.proposal = suggestion[s].proposal
    BY DEF SuggRow
  <1>2. suggestion' = [suggestion EXCEPT ![s] = r]
    BY DEF Rows
  <1> HIDE DEF r
  <1>3. suggestion'[s] = r /\ \A b \in Action \ {s} : suggestion'[b] = suggestion[b]
    BY <1>2 DEF Rows
  <1>4. r # NoSuggestion /\ suggestion[s] # NoSuggestion
    BY <1>1 DEF NoSuggestion, NoneYet, SuggRow
  <1>5. SuggestionsKept
    BY <1>1, <1>3, <1>4 DEF SuggestionsKept
  <1>6. QED
    BY <1>1, <1>2, <1>5 DEF Rows

LEMMA ProposedRow ==
  ASSUME Rows, NEW s \in Action, suggestion[s].status = "proposed"
  PROVE  suggestion[s] \in SuggRow /\ suggestion[s] # NoSuggestion
  BY DEF Rows, NoSuggestion, NoneYet

LEMMA RejectStep ==
  ASSUME IInv, NEW s \in Action, reject(s)
  PROVE  Step
  <1>1. Rows /\ Known
    BY DEF IInv
  <1>2. /\ UNCHANGED <<now, zone, action, checkins, history, task, record, events, pending>>
        /\ Request /\ suggestion' = [suggestion EXCEPT ![s].status = "rejected"]
    BY DEF reject
  <1>3. suggestion[s] \in SuggRow
    BY <1>1, ProposedRow DEF reject, _decidable
  <1>4. SuggestionsKept /\ suggestion' \in [Action -> SuggRow \cup {NoSuggestion}]
    BY <1>1, <1>2, <1>3, Decided
  <1>5. RestTypes
    BY <1>1, <1>2, <1>4, Requested DEF RestTypes, Rows
  <1>6. RowsStep
    BY <1>1, <1>2, QuietRows, Clock
  <1>7. RecordStep /\ PendingGoesOn
    BY <1>2, QuietNoOutcome DEF RecordStep, PendingGoesOn
  <1>8. QED
    BY <1>1, <1>4, <1>5, <1>6, <1>7, PendingKept DEF Step

LEMMA BeginAcceptStep ==
  ASSUME IInv, NEW s \in Action, BeginAccept(s)
  PROVE  Step
  <1> DEFINE p == suggestion[s].proposal
             rows == [a \in DOMAIN p |-> action[a]]
  <1>1. Rows /\ Known
    BY DEF IInv
  <1>2. /\ UNCHANGED <<now, zone, action, checkins, history, task, record, events, suggestion>>
        /\ Request /\ pending' = [op |-> "accept", suggestion |-> s, rows |-> rows]
    BY DEF BeginAccept
  <1>3. suggestion[s] \in SuggRow /\ suggestion[s] # NoSuggestion
    BY <1>1, ProposedRow DEF BeginAccept, _decidable
  <1>4. p \in Proposals
    BY <1>3 DEF SuggRow
  <1>5. DOMAIN p \subseteq Action /\ \A a \in DOMAIN p : Exists(a)
    BY <1>1, <1>3, <1>4 DEF Known, ProposalsKnown, Proposals
  <1>6. rows \in [DOMAIN p -> ActRow] /\ DOMAIN rows = DOMAIN p /\ \A a \in DOMAIN p : rows[a] = action[a]
    BY <1>1, <1>5, ExistingRow
  <1>7. rows \in Loaded
    BY <1>5, <1>6 DEF Loaded
  <1> HIDE DEF rows
  <1>8. pending' \in OneAccept
    BY <1>2, <1>7 DEF OneAccept
  <1>9. pending'.op = "accept" /\ pending'.suggestion = s /\ pending'.rows = rows
    BY <1>2
  <1>10. PendingStep
    BY <1>2, <1>3, <1>6, <1>9 DEF PendingStep, PendingKnown, Snapshot
  <1>11. RestTypes
    BY <1>1, <1>2, <1>8, Requested DEF RestTypes, Rows
  <1>12. RowsStep
    BY <1>1, <1>2, QuietRows, Clock
  <1>13. SuggestionsKept /\ RecordStep
    BY <1>2, SuggestionsSame, QuietNoOutcome DEF RecordStep
  <1>14. QED
    BY <1>10, <1>11, <1>12, <1>13 DEF Step

LEMMA AcceptStep == ASSUME IInv, accept PROVE Step
  <1> DEFINE s == pending.suggestion
  <1>1. Rows /\ Known
    BY DEF IInv
  <1>2. /\ UNCHANGED <<now, zone, checkins, task, record, events, edits>>
        /\ pending' = NoRequest /\ pending.op = "accept"
        /\ suggestion' = [suggestion EXCEPT ![s].status = "accepted"]
    BY DEF accept
  <1>3. s \in Action /\ suggestion[s] \in SuggRow
    BY <1>1, <1>2, PendingAccept
  <1>4. SuggestionsKept /\ suggestion' \in [Action -> SuggRow \cup {NoSuggestion}]
    BY <1>1, <1>2, <1>3, Decided
  <1>5. RestTypes
    BY <1>1, <1>2, <1>4 DEF RestTypes, Rows
  <1>6. RowsStep
    BY <1>1, AcceptRows
  <1>7. \A a \in Action : Exists(a) => action'[a].status = action[a].status
    BY <1>1, <1>2, <1>6, NoCheckinNoStatus
  <1>8. RecordStep /\ PendingGoesOn
    BY <1>2, <1>7 DEF RecordStep, NoOutcome, PendingGoesOn
  <1>9. QED
    BY <1>1, <1>4, <1>5, <1>6, <1>8, PendingKept DEF Step

LEMMA NextStep == ASSUME IInv, Next PROVE Step
  <1>1. ASSUME NEW a \in Action,
               \/ \E x \in Times :
                    \/ create_manual(a, x[1], x[2]) \/ reschedule(a, x[1], x[2])
                    \/ \E t \in Task : schedule(a, t, x[1], x[2])
                    \/ \E h \in Habit : generate(a, h, x[1], x[2])
               \/ \E new \in Status : transition(a, new)
               \/ cancel(a) \/ BeginAccept(a) \/ reject(a)
        PROVE  Step
    BY <1>1, CreateStep, UserEditStep, TransitionStep, BeginAcceptStep, RejectStep
  <1>2. ASSUME NEW t \in Task,
               BeginComplete(t) \/ complete(t) \/ \E status \in ByHand : update_task(t, status)
        PROVE  Step
    BY <1>2, BeginStep, TaskStep
  <1>3. ASSUME NEW h \in Habit, NEW d \in Day, NEW result \in Outcome,
               BeginRecord(h, d, result) \/ record_occurrence(h, d, result)
        PROVE  Step
    BY <1>3, BeginStep, LoneOutcomeStep
  <1>4. QED
    BY <1>1, <1>2, <1>3, TickStep, PendingCheckinStep, AcceptStep, AbortStep, UserEditStep,
       ProposalStep DEF Next

LEMMA StutterStep == ASSUME IInv, UNCHANGED vars PROVE Step
  <1>1. Rows /\ Known
    BY DEF IInv
  <1>2. UNCHANGED <<now, zone, action, checkins, history, task, record, events, suggestion, pending, edits>>
    BY DEF vars
  <1>3. RestTypes
    BY <1>1, <1>2 DEF RestTypes, Rows
  <1>4. RowsStep
    BY <1>1, <1>2, QuietRows, Clock
  <1>5. SuggestionsKept /\ RecordStep /\ PendingGoesOn
    BY <1>2, SuggestionsSame, QuietNoOutcome DEF RecordStep, PendingGoesOn
  <1>6. QED
    BY <1>1, <1>3, <1>4, <1>5, PendingKept DEF Step

LEMMA InitInv == Init => SInv
  <1> SUFFICES ASSUME Init PROVE SInv
    OBVIOUS
  <1>1. /\ now = 0 /\ zone = 0 /\ edits = 0 /\ events = {} /\ pending = NoRequest
        /\ action = [a \in Action |-> NoAction] /\ checkins = [a \in Action |-> <<>>]
        /\ history = [a \in Action |-> <<>>] /\ task = [t \in Task |-> "open"]
        /\ record = [k \in Habit \X Day |-> NoneYet] /\ suggestion = [a \in Action |-> NoSuggestion]
    BY DEF Init
  <1>2. \A a \in Action : ~ Exists(a) /\ ~ Active(a)
    BY <1>1 DEF Exists, Active
  <1>3. Rows
    <2>1. checkins \in [Action -> Seq(CheckRow)] /\ history \in [Action -> Seq(HistRow)]
      BY <1>1
    <2>2. QED
      BY <1>1, <2>1, Constants DEF Rows
  <1>4. pending.op = "none"
    BY <1>1 DEF NoRequest, NoneYet
  <1>5. Known /\ Snapshot
    BY <1>1, <1>4 DEF Known, ProposalsKnown, PendingKnown, Snapshot
  <1>6. OnTheWall /\ OnePerOccurrence /\ CheckinsLinked /\ CheckinsInTurn /\ RecordAgrees
    BY <1>2 DEF OnTheWall, OnePerOccurrence, CheckinsLinked, CheckinsInTurn, RecordAgrees
  <1>7. Replayed
    BY <1>1, <1>2 DEF Replayed
  <1>8. QED
    BY <1>3, <1>5, <1>6, <1>7 DEF SInv, IInv

(* The part of the invariant that no overlap of requests can break.           *)
THEOREM InvariantHolds == Spec => []IInv
  <1>1. Init => IInv
    BY InitInv DEF SInv
  <1>2. IInv /\ [Next]_vars => IInv'
    BY NextStep, StutterStep, StepInv
  <1>3. QED
    BY <1>1, <1>2, PTL DEF Spec

(* The whole of it, when the requests of the User come one after another.     *)
THEOREM SerialInvariantHolds ==
  ASSUME ~ Overlap
  PROVE  Spec => []SInv
  <1>1. SInv /\ [Next]_vars => SInv'
    BY NextStep, StutterStep, SerialStep DEF SInv
  <1>2. QED
    BY <1>1, InitInv, PTL DEF Spec

-----------------------------------------------------------------------------
(* The theorems *)

(* Every row stays within its range, whatever requests overlap.               *)
THEOREM TypeCorrect == Spec => []TypeOK
  <1>1. IInv => TypeOK
    <2> SUFFICES ASSUME IInv PROVE TypeOK
      OBVIOUS
    <2>1. Rows
      BY DEF IInv
    <2>2. ASSUME NEW a \in Action, Exists(a)
          PROVE  /\ action[a].source \in Task \cup Habit \cup {Manual}
                 /\ action[a].status \in Status /\ action[a].live \in BOOLEAN
                 /\ {action[a].start, action[a].date, action[a].wall, action[a].occ} \subseteq Int
      <3>1. action[a] \in ActRow
        BY <2>1, <2>2, ExistingRow
      <3>2. action[a].occ \in Int
        <4>1. action[a].occ \in Day /\ Day \subseteq Int
          BY <3>1, RowNumbers, Constants
        <4>2. QED
          BY <4>1
      <3>3. QED
        BY <3>1, <3>2, RowNumbers
    <2>3. \A a \in Action : suggestion[a].status \in {NoneYet, "proposed", "accepted", "rejected"}
      BY <2>1 DEF Rows, SuggRow, NoSuggestion
    <2>4. QED
      BY <2>1, <2>2, <2>3 DEF TypeOK, Rows
  <1>2. QED
    BY <1>1, InvariantHolds, PTL

(* What the User has placed in the future keeps its date and its time of day, *)
(* through any moves between zones and whatever requests overlap:             *)
(* TimezoneChangeService reads the wall clock before the zone changes.        *)
THEOREM WallClockHolds == Spec => []WallClockKept
  <1>1. IInv => WallClockKept
    BY DEF IInv, OnTheWall, WallClockKept
  <1>2. QED
    BY <1>1, InvariantHolds, PTL

(* The schedule history of an action replays: reschedule(), cancel(), accept()*)
(* and a change of zone add their row with the time the action had.           *)
THEOREM HistoryHolds ==
  ASSUME ~ Overlap
  PROVE  Spec => []HistoryReplays
  <1>1. SInv => HistoryReplays
    <2> SUFFICES ASSUME SInv PROVE HistoryReplays
      OBVIOUS
    <2>1. ASSUME NEW a \in Action, Exists(a), NEW h, h = history[a]
          PROVE  /\ \A i \in 1..Len(h) : h[i].from = (IF i = 1 THEN action[a].first ELSE h[i - 1].to)
                 /\ IF action[a].live
                    THEN action[a].start = (IF h = <<>> THEN action[a].first ELSE Last(h).to)
                    ELSE Last(h).type = "cancelled" /\ Last(h).from = action[a].start
      <3>1. Replays(h, action[a]) /\ h \in Seq(HistRow)
        BY <2>1 DEF SInv, Replayed, IInv, Rows
      <3>2. h = <<>> <=> Len(h) = 0
        BY <3>1
      <3>3. QED
        BY <3>1, <3>2 DEF Replays, Last
    <2>2. QED
      BY <2>1 DEF HistoryReplays
  <1>2. QED
    BY <1>1, SerialInvariantHolds, PTL

(* The outcome recorded for a habit's day is the one its Daily Action ended   *)
(* with: habit_sync_hook() writes it, and record_occurrence() only where no   *)
(* action is active.                                                          *)
THEOREM OutcomesAgree ==
  ASSUME ~ Overlap
  PROVE  Spec => []RecordAgrees
  <1>1. SInv => RecordAgrees
    BY DEF SInv
  <1>2. QED
    BY <1>1, SerialInvariantHolds, PTL

(* What the User has started, ended or cancelled is never moved by            *)
(* reschedule(), accept() or a change of zone.                                *)
THEOREM ActedStays ==
  ASSUME ~ Overlap
  PROVE  Spec => ActedIsNotMoved
  <1> DEFINE Acted(a) == Exists(a) /\ ~ (action[a].live /\ action[a].status = "Planned")
             NotMoved(a) == action'[a].start = action[a].start /\ action'[a].date = action[a].date
  <1>1. ASSUME SInv, [Next]_vars, NEW a \in Action, Acted(a) PROVE NotMoved(a)
    <2>1. RowStep(a) /\ Snapshot
      BY <1>1, NextStep, StutterStep DEF SInv, Step, RowsStep
    <2>2. CASE Stays(a)
      BY <2>2 DEF Stays
    <2>3. CASE Created(a)
      BY <1>1, <2>3 DEF Created
    <2>4. CASE CheckedIn(a) \/ Cancelled(a)
      BY <2>4 DEF CheckedIn, Cancelled, SamePlace
    <2>5. CASE MovedTo(a)
      BY <1>1, <2>1, <2>5 DEF MovedTo
    <2>6. CASE RezonedTo(a)
      BY <1>1, <2>6 DEF RezonedTo, Future, Active
    <2>7. QED
      BY <2>1, <2>2, <2>3, <2>4, <2>5, <2>6 DEF RowStep
  <1>2. SInv /\ [Next]_vars => [\A a \in Action : Acted(a) => NotMoved(a)]_vars
    BY <1>1
  <1>3. QED
    BY <1>2, SerialInvariantHolds, PTL DEF Spec, ActedIsNotMoved

-----------------------------------------------------------------------------
(* Reading the check-ins back *)

(* A set of naturals that is not empty has a least element.                   *)
LEMMA LeastOf ==
  ASSUME NEW T, T \subseteq Nat, T # {}
  PROVE  \E x \in T : \A y \in T : x <= y
  <1> DEFINE R == OpToRel(<, Nat)
  <1>1. \A a, b \in Nat : <<a, b>> \in R <=> a < b
    BY DEF OpToRel
  <1>2. IsWellFoundedOn(R, Nat)
    BY NatLessThanWellFounded
  <1> HIDE DEF R
  <1>3. PICK x \in T : \A y \in T : ~ (<<y, x>> \in R)
    BY <1>2, WFMin
  <1>4. \A y \in T : ~ (y < x) /\ y \in Nat /\ x \in Nat
    BY <1>1, <1>3
  <1>5. QED
    BY <1>4

(* A permutation reaches every place.                                         *)
LEMMA PermOnto ==
  ASSUME NEW n \in Nat, NEW p \in Perms(n)
  PROVE  /\ p \in [1..n -> 1..n]
         /\ \A i, j \in 1..n : p[i] = p[j] => i = j
         /\ \A h \in 1..n : \E i \in 1..n : p[i] = h
  <1>1. p \in [1..n -> 1..n] /\ \A i, j \in 1..n : p[i] = p[j] => i = j
    BY DEF Perms
  <1>2. p \in Injection(1..n, 1..n)
    BY <1>1 DEF Injection, IsInjective
  <1>3. IsFiniteSet(1..n)
    BY FS_Interval
  <1>4. p \in Surjection(1..n, 1..n)
    BY <1>2, <1>3, FS_Injection
  <1>5. QED
    BY <1>1, <1>4 DEF Surjection

LEMMA MinSingle ==
  ASSUME NEW k \in Int
  PROVE  Min({k}) = k
  BY DEF Min

(* The places in the order chain_order() takes the records.                   *)
Left(p, n, i) == (1..n) \ {p[j] : j \in 1..(i - 1)}
StatusBefore(records, p, i) == IF i = 1 THEN NoneYet ELSE records[p[i - 1]].new
Taken(records, p, n) ==
    \A i \in 1..n : p[i] = NextRecord(records, Left(p, n, i), StatusBefore(records, p, i))

(* The order is determined: two could differ first nowhere.                   *)
LEMMA OneOrder ==
  ASSUME NEW n \in Nat, NEW records, NEW p, NEW q, DOMAIN p = 1..n, DOMAIN q = 1..n,
         p = [i \in 1..n |-> p[i]], q = [i \in 1..n |-> q[i]],
         Taken(records, p, n), Taken(records, q, n)
  PROVE  p = q
  <1>1. ASSUME NEW i \in 1..n, \A j \in 1..n : j < i => p[j] = q[j]
        PROVE  p[i] = q[i]
    <2>1. Left(p, n, i) = Left(q, n, i)
      <3>1. \A j \in 1..(i - 1) : j \in 1..n /\ j < i
        OBVIOUS
      <3>2. QED
        BY <1>1, <3>1 DEF Left
    <2>2. StatusBefore(records, p, i) = StatusBefore(records, q, i)
      <3>1. CASE i = 1
        BY <3>1 DEF StatusBefore
      <3>2. CASE i # 1
        <4>1. i - 1 \in 1..n /\ i - 1 < i
          BY <3>2
        <4>2. QED
          BY <1>1, <4>1 DEF StatusBefore
      <3>3. QED
        BY <3>1, <3>2
    <2>3. QED
      BY <2>1, <2>2 DEF Taken
  <1>2. \A i \in 1..n : p[i] = q[i]
    <2> DEFINE T == {i \in 1..n : p[i] # q[i]}
    <2> SUFFICES ASSUME T # {} PROVE FALSE
      OBVIOUS
    <2>1. T \subseteq Nat
      OBVIOUS
    <2>2. PICK i \in T : \A j \in T : i <= j
      BY <2>1, LeastOf
    <2>3. \A j \in 1..n : j < i => p[j] = q[j]
      BY <2>2
    <2>4. QED
      BY <1>1, <2>2, <2>3
  <1>3. QED
    BY <1>2

(* Whatever the order the records are read in, q gives the places at which    *)
(* they were made one after another: of the earliest records left, the one    *)
(* that was made next is the only one to continue the chain.                  *)
LEMMA MadeIsTaken ==
  ASSUME NEW c \in Seq(CheckRow), NEW row, Linked(c, row), NEW t, InTurn(c, t),
         NEW records, NEW q \in Perms(Len(c)), \A i \in 1..Len(c) : records[q[i]] = c[i]
  PROVE  Taken(records, q, Len(c))
  <1> DEFINE n == Len(c)
  <1>1. n \in Nat
    OBVIOUS
  <1>2. \A i \in 1..n : c[i] \in CheckRow
    OBVIOUS
  <1>3. \A i \in 1..n : c[i].at \in Nat /\ c[i].new \in Status /\ Rank[c[i].new] \in Nat
    BY <1>2 DEF CheckRow, Rank, Status
  <1>4. /\ c[1].previous = NoneYet /\ \A i \in 2..n : c[i].previous = c[i - 1].new
        /\ \A i, j \in 1..n : i < j => c[i].at <= c[j].at /\ Rank[c[i].new] < Rank[c[j].new]
        /\ \A i \in 1..n : records[q[i]] = c[i]
    BY DEF Linked, InTurn
  <1>5. NoneYet \notin Status
    BY DEF NoneYet, Status
  <1> HIDE DEF n
  <1> SUFFICES ASSUME NEW i \in 1..n
               PROVE  q[i] = NextRecord(records, Left(q, n, i), StatusBefore(records, q, i))
    BY DEF Taken, n
  <1> DEFINE left == Left(q, n, i)
             last == StatusBefore(records, q, i)
             group == {k \in left : \A j \in left : records[k].at <= records[j].at}
             fitting == {k \in group : records[k].previous = last}
  <1>6. /\ \A j \in 1..n : q[j] \in 1..n
        /\ \A j, k \in 1..n : q[j] = q[k] => j = k
        /\ \A k \in 1..n : \E j \in 1..n : q[j] = k
    <2>1. q \in Perms(n)
      BY DEF n
    <2>2. q \in [1..n -> 1..n] /\ (\A j, k \in 1..n : q[j] = q[k] => j = k)
          /\ \A k \in 1..n : \E j \in 1..n : q[j] = k
      BY <1>1, <2>1, PermOnto
    <2>3. QED
      BY <2>2
  <1>7. q[i] \in left /\ records[q[i]] = c[i]
    <2>1. \A j \in 1..(i - 1) : j \in 1..n /\ j # i
      BY <1>1
    <2>2. q[i] \notin {q[j] : j \in 1..(i - 1)}
      BY <1>6, <2>1
    <2>3. QED
      BY <1>6, <1>4, <2>2 DEF Left
  <1>8. ASSUME NEW k \in left PROVE \E j \in i..n : k = q[j]
    <2>1. PICK j \in 1..n : q[j] = k
      BY <1>6 DEF Left
    <2>2. j \notin 1..(i - 1)
      BY <2>1 DEF Left
    <2>3. j \in i..n
      BY <1>1, <2>2
    <2>4. QED
      BY <2>1, <2>3
  <1>9. q[i] \in group
    <2> SUFFICES ASSUME NEW k \in left PROVE c[i].at <= records[k].at
      BY <1>7
    <2>1. PICK j \in i..n : k = q[j]
      BY <1>8
    <2>2. j \in 1..n /\ records[k] = c[j] /\ (i < j \/ i = j)
      BY <1>1, <1>4, <2>1
    <2>3. QED
      BY <1>3, <1>4, <2>2
  <1>10. last = c[i].previous
    <2>1. CASE i = 1
      BY <1>4, <2>1 DEF StatusBefore
    <2>2. CASE i # 1
      <3>1. i \in 2..n /\ i - 1 \in 1..n
        BY <1>1, <2>2
      <3>2. QED
        BY <1>4, <2>2, <3>1 DEF StatusBefore
    <2>3. QED
      BY <2>1, <2>2
  <1>11. ASSUME NEW k \in left, records[k].previous = last
        PROVE  k = q[i]
    <2>1. PICK j \in i..n : k = q[j]
      BY <1>8
    <2>2. j \in 1..n /\ records[k] = c[j]
      BY <1>1, <1>4, <2>1
    <2>3. CASE j = i
      BY <2>1, <2>3
    <2>4. CASE j # i
      <3>1. j \in 2..n /\ j - 1 \in 1..n /\ i <= j - 1
        BY <1>1, <2>2, <2>4
      <3>2. c[j - 1].new = c[i].previous
        BY <1>4, <1>10, <1>11, <2>2, <3>1
      <3>3. CASE i = 1
        BY <1>3, <1>4, <1>5, <3>1, <3>2, <3>3
      <3>4. CASE i # 1
        <4>1. i \in 2..n /\ i - 1 \in 1..n /\ i - 1 < j - 1
          BY <1>1, <3>1, <3>4
        <4>2. c[i - 1].new = c[j - 1].new
          BY <1>4, <3>2, <4>1
        <4>3. Rank[c[i - 1].new] < Rank[c[j - 1].new]
          BY <1>4, <3>1, <4>1
        <4>4. QED
          BY <1>3, <3>1, <4>2, <4>3
      <3>5. QED
        BY <3>3, <3>4
    <2>5. QED
      BY <2>3, <2>4
  <1>12. fitting = {q[i]}
    <2>1. q[i] \in fitting
      BY <1>7, <1>9, <1>10
    <2>2. QED
      BY <1>11, <2>1
  <1>13. q[i] \in Int
    BY <1>1, PermOnto DEF n
  <1>14. NextRecord(records, left, last) = Min(IF fitting # {} THEN fitting ELSE group)
    BY DEF NextRecord
  <1> HIDE DEF fitting, group, left, last
  <1>15. NextRecord(records, left, last) = q[i]
    BY <1>12, <1>13, <1>14, MinSingle
  <1>16. QED
    BY <1>15 DEF left, last

LEMMA OrderRestored ==
  ASSUME NEW c \in Seq(CheckRow), NEW row, Linked(c, row), NEW t, InTurn(c, t),
         NEW p \in Perms(Len(c))
  PROVE  chain_order([i \in 1..Len(c) |-> c[p[i]]]) = c
  <1> DEFINE n == Len(c)
             records == [i \in 1..n |-> c[p[i]]]
             q == [i \in 1..n |-> CHOOSE k \in 1..n : p[k] = i]
  <1>1. n \in Nat /\ \A i \in 1..n : c[i] \in CheckRow
    OBVIOUS
  <1>2. p \in [1..n -> 1..n] /\ \A h \in 1..n : \E k \in 1..n : p[k] = h
    BY <1>1, PermOnto
  <1>3. records \in Seq(CheckRow) /\ Len(records) = n
    BY <1>1, <1>2
  <1>4. \A i \in 1..n : q[i] \in 1..n /\ p[q[i]] = i
    BY <1>2
  <1>5. q \in Perms(n)
    <2>1. q \in [1..n -> 1..n]
      BY <1>4
    <2>2. \A i, j \in 1..n : q[i] = q[j] => i = j
      BY <1>4
    <2>3. QED
      BY <2>1, <2>2 DEF Perms
  <1>6. \A i \in 1..n : records[q[i]] = c[i]
    BY <1>4
  <1> HIDE DEF q, records
  <1>7. Taken(records, q, n)
    BY <1>5, <1>6, MadeIsTaken
  <1> DEFINE next(o, i) == NextRecord(records, Left(o, n, i), StatusBefore(records, o, i))
             order == CHOOSE o : o = [i \in 1..n |-> next(o, i)]
  <1>8. q = [i \in 1..n |-> next(q, i)]
    <2>1. q = [i \in 1..n |-> q[i]] /\ DOMAIN q = 1..n
      BY <1>5 DEF Perms
    <2>2. \A i \in 1..n : q[i] = next(q, i)
      BY <1>7 DEF Taken
    <2> HIDE DEF next
    <2>3. QED
      BY <2>1, <2>2
  <1>9. chain_order(records) = [i \in 1..n |-> records[order[i]]]
    BY <1>3 DEF chain_order, Left, StatusBefore
  <1>10. order = [i \in 1..n |-> next(order, i)]
    <2> HIDE DEF next
    <2>1. QED
      BY <1>8
  <1> HIDE DEF order, n
  <1>11. order = q
    <2>1. DOMAIN order = 1..n /\ order = [i \in 1..n |-> order[i]] /\ Taken(records, order, n)
      BY <1>10 DEF Taken
    <2>2. DOMAIN q = 1..n /\ q = [i \in 1..n |-> q[i]]
      BY <1>8
    <2> HIDE DEF next
    <2>3. QED
      BY <1>1, <1>7, <2>1, <2>2, OneOrder
  <1>12. chain_order(records) = [i \in 1..n |-> c[i]]
    BY <1>6, <1>9, <1>11
  <1>13. c = [i \in 1..n |-> c[i]]
    BY DEF n
  <1>14. QED
    BY <1>12, <1>13 DEF records, n

(* The check-ins of an action lead from one to the next, from the insert to   *)
(* its status, and chain_order() gives them in the order they were made,      *)
(* several of one instant included, however the database returns them.        *)
THEOREM CheckinsHold ==
  ASSUME ~ Overlap
  PROVE  Spec => []CheckinsInOrder
  <1>1. SInv => CheckinsInOrder
    <2> SUFFICES ASSUME SInv PROVE CheckinsInOrder
      OBVIOUS
    <2>1. ASSUME NEW a \in Action, Exists(a), NEW c, c = checkins[a]
          PROVE  /\ Last(c).new = action[a].status
                 /\ \A i \in 2..Len(c) : c[i].previous = c[i - 1].new
                 /\ \A p \in Perms(Len(c)) : chain_order([i \in 1..Len(c) |-> c[p[i]]]) = c
      <3>1. Linked(c, action[a]) /\ InTurn(c, now) /\ c \in Seq(CheckRow)
        BY <2>1 DEF SInv, IInv, Rows, CheckinsLinked, CheckinsInTurn
      <3>2. \A p \in Perms(Len(c)) : chain_order([i \in 1..Len(c) |-> c[p[i]]]) = c
        BY <3>1, OrderRestored
      <3>3. QED
        BY <3>1, <3>2 DEF Linked, Last
    <2>2. QED
      BY <2>1 DEF CheckinsInOrder
  <1>2. QED
    BY <1>1, SerialInvariantHolds, PTL

-----------------------------------------------------------------------------
(* Now Mode *)

ViewRow == [id : Action, start : Int, end : Int, status : Status, priority : Int]

LEMMA SoonerIsStrict ==
  /\ \A v \in ViewRow : ~ Sooner(v, v)
  /\ \A u, v, w \in ViewRow : Sooner(u, v) /\ Sooner(v, w) => Sooner(u, w)
  BY DEF Sooner, ViewRow

(* Of finitely many views, one comes first: the one with the fewest before it.*)
LEMMA ForemostExists ==
  ASSUME NEW V \in SUBSET ViewRow, V # {}, IsFiniteSet(V)
  PROVE  Foremost(V) # {}
  <1> DEFINE before(v) == {u \in V : Sooner(u, v)}
             N == {Cardinality(before(v)) : v \in V}
  <1>1. \A v \in V : IsFiniteSet(before(v)) /\ Cardinality(before(v)) \in Nat
    BY FS_Subset, FS_CardinalityType
  <1>2. PICK n \in N : \A m \in N : n <= m
    <2>1. N \subseteq Nat /\ N # {}
      BY <1>1
    <2> HIDE DEF N
    <2>2. QED
      BY <2>1, LeastOf
  <1>3. PICK v \in V : n = Cardinality(before(v))
    OBVIOUS
  <1>4. ASSUME NEW u \in V, Sooner(u, v) PROVE FALSE
    <2>1. before(u) \subseteq before(v) /\ u \in before(v) /\ u \notin before(u)
      BY <1>4, SoonerIsStrict
    <2>2. n <= Cardinality(before(u))
      BY <1>2
    <2> HIDE DEF before
    <2>3. Cardinality(before(u)) <= n /\ before(u) # before(v)
      BY <1>1, <1>3, <2>1, FS_Subset
    <2>4. Cardinality(before(u)) = Cardinality(before(v))
      BY <1>1, <1>3, <2>2, <2>3
    <2>5. QED
      BY <1>1, <2>1, <2>3, <2>4, FS_Subset
  <1>5. QED
    BY <1>3, <1>4 DEF Foremost

Shown(a) == Active(a) /\ action[a].date = local_date(now)
Views == {View(a) : a \in {b \in Action : Active(b) /\ action[b].date = local_date(now)}}

LEMMA ViewOfRow ==
  ASSUME Rows, NEW a \in Action, Shown(a)
  PROVE  /\ View(a) \in ViewRow /\ View(a) \in Views
         /\ View(a).id = a /\ View(a).start = action[a].start
         /\ View(a).end = action[a].start + 1 /\ View(a).status = action[a].status
         /\ action[a].start \in Int
  <1>1. action[a] \in ActRow
    BY ExistingRow DEF Shown, Active
  <1>2. _goal_priorities(a) \in Int
    <2>1. action[a].source \in Task \cup Habit \cup {Manual}
      BY <1>1, RowNumbers
    <2>2. QED
      BY <2>1, DayAssumption DEF _goal_priorities
  <1>3. View(a) \in Views
    BY DEF Views, Shown
  <1>4. QED
    BY <1>1, <1>2, <1>3, RowNumbers DEF View, ViewRow

LEMMA ViewsFinite ==
  ASSUME Rows
  PROVE  Views \subseteq ViewRow /\ IsFiniteSet(Views)
  <1> DEFINE S == {b \in Action : Active(b) /\ action[b].date = local_date(now)}
             f == [b \in S |-> View(b)]
  <1>1. Views \subseteq ViewRow
    BY ViewOfRow DEF Views, Shown
  <1>2. IsFiniteSet(S)
    BY IdAssumption, FS_Subset
  <1>3. f \in Surjection(S, Views)
    BY DEF Surjection, Views
  <1> HIDE DEF S, f
  <1>4. QED
    BY <1>1, <1>2, <1>3, FS_Surjection

(* What Now Mode recommends or shows as behind is among the actions of today, *)
(* or is not an action.                                                       *)
LEMMA WasShown ==
  Rows => \A a \in Action : a \in candidates.recommended \cup candidates.behind => Shown(a)
  <1> SUFFICES ASSUME Rows, NEW a \in Action, a \in candidates.recommended \cup candidates.behind
               PROVE  Shown(a)
    OBVIOUS
  <1>1. ASSUME NEW v \in Views, v.id = a PROVE Shown(a)
    <2>1. PICK b \in Action : Shown(b) /\ v = View(b)
      BY DEF Views, Shown
    <2>2. v.id = b
      BY <2>1, ViewOfRow
    <2>3. QED
      BY <1>1, <2>1, <2>2
  <1>2. a \notin _buffer
    BY IdAssumption DEF _buffer
  <1> DEFINE C == current_block(Views, now)
             U == next_unstarted(Views, now)
             B == behind_schedule(Views, now)
  <1>3. Foremost(C) \subseteq Views /\ U \subseteq Views /\ B \subseteq Views
    BY DEF Foremost, current_block, next_unstarted, behind_schedule
  <1>4. /\ candidates.recommended \subseteq {v.id : v \in Foremost(C)} \cup {v.id : v \in U} \cup _buffer
        /\ candidates.behind = {v.id : v \in B}
    BY DEF candidates, plan, Views
  <1> HIDE DEF C, U, B
  <1>5. QED
    BY <1>1, <1>2, <1>3, <1>4

(* An open action of today whose time has come is in view, unless another one *)
(* of the same time is recommended.                                           *)
DueInSight ==
    \A a \in Action :
        Shown(a) /\ action[a].status \in Open /\ action[a].start <= now =>
          \/ a \in candidates.recommended \cup candidates.behind
          \/ \E b \in candidates.recommended \cap Action : action[b].start = action[a].start

LEMMA InView == Rows => DueInSight
  <1> SUFFICES ASSUME Rows, NEW a \in Action, Shown(a), action[a].status \in Open,
                      action[a].start <= now
               PROVE  \/ a \in candidates.behind
                      \/ \E b \in candidates.recommended \cap Action :
                            action[b].start = action[a].start
    BY DEF DueInSight
  <1> DEFINE C == current_block(Views, now)
             B == behind_schedule(Views, now)
  <1>1. /\ candidates.behind = {v.id : v \in B}
        /\ C # {} => candidates.recommended = {v.id : v \in Foremost(C)}
    BY DEF candidates, plan, Views
  <1>2. /\ View(a) \in Views /\ View(a).id = a /\ View(a).start = action[a].start
        /\ View(a).end = action[a].start + 1 /\ View(a).status \in OPEN_STATUSES
        /\ action[a].start \in Int /\ now \in Int
    BY ViewOfRow, Clock DEF OPEN_STATUSES, Open
  <1>3. CASE now >= action[a].start + 1
    <2>1. View(a) \in B
      BY <1>2, <1>3 DEF behind_schedule
    <2>2. QED
      BY <1>1, <1>2, <2>1
  <1>4. CASE ~ (now >= action[a].start + 1)
    <2>1. View(a) \in C /\ action[a].start = now
      BY <1>2, <1>4 DEF current_block
    <2>2. C \subseteq Views
      BY DEF current_block
    <2>3. IsFiniteSet(C) /\ C \subseteq ViewRow
      BY <2>2, ViewsFinite, FS_Subset
    <2>4. PICK v \in Foremost(C) : TRUE
      BY <2>1, <2>3, ForemostExists
    <2>5. v \in C
      BY DEF Foremost
    <2>6. PICK b \in Action : Shown(b) /\ v = View(b)
      BY <2>2, <2>5 DEF Views, Shown
    <2>7. v.id = b /\ v.start = action[b].start /\ v.end = action[b].start + 1 /\ action[b].start \in Int
      BY <2>6, ViewOfRow
    <2>8. action[b].start = now
      BY <1>2, <2>5, <2>7 DEF current_block
    <2>9. b \in candidates.recommended
      BY <1>1, <2>1, <2>4, <2>7
    <2>10. QED
      BY <2>1, <2>8, <2>9
  <1>5. QED
    BY <1>3, <1>4

LEMMA InViewNext == Rows' => DueInSight'
  BY InView, PTL

(* An action that is due stays in Now Mode's view for as long as the day      *)
(* lasts and it is open and where it was, whatever happens to the others:     *)
(* current_block() and behind_schedule() leave no instant between them.       *)
THEOREM DueInView == Spec => DueStaysInView
  <1> DEFINE Due(a) ==
               /\ Active(a) /\ action[a].status \in Open /\ action[a].start <= now
               /\ Active(a)' /\ action'[a].status \in Open
               /\ action'[a].start = action[a].start /\ action'[a].date = action[a].date
               /\ local_date(now)' = local_date(now)
               /\ a \in candidates.recommended \cup candidates.behind
             Seen(a) ==
               \/ a \in candidates'.recommended \cup candidates'.behind
               \/ \E b \in candidates'.recommended \cap Action :
                     action'[b].start = action'[a].start
  <1>1. ASSUME IInv, [Next]_vars, NEW a \in Action, Due(a) PROVE Seen(a)
    <2>1. Step /\ Rows
      BY <1>1, NextStep, StutterStep DEF IInv
    <2>2. Rows'
      BY <1>1, <2>1, StepInv DEF IInv
    <2>3. Shown(a)
      BY <1>1, <2>1, WasShown
    <2>4. Shown(a)'
      BY <1>1, <2>3 DEF Shown
    <2>5. action[a].start \in Int /\ now \in Int /\ now' \in Int /\ now <= now'
      BY <2>1, <2>3, ViewOfRow, Clock, Constants DEF Step, RowsStep, RestTypes
    <2>6. action'[a].start <= now'
      BY <1>1, <2>5
    <2>7. QED
      BY <1>1, <2>2, <2>4, <2>6, InViewNext DEF DueInSight
  <1>2. IInv /\ [Next]_vars => [\A a \in Action : Due(a) => Seen(a)]_vars
    BY <1>1
  <1>3. QED
    BY <1>2, InvariantHolds, PTL DEF Spec, DueStaysInView
=============================================================================
