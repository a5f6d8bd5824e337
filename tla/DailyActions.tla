---------------------------- MODULE DailyActions ----------------------------
(* The life of Daily Actions: manual creation and scheduled Tasks             *)
(* (domain/schedule/actions.py, domain/tasks.py), check-ins and their records *)
(* (domain/checkins.py), Habit outcomes (domain/habits.py), rescheduling and  *)
(* cancelling with the schedule history (domain/schedule/reschedule.py), moves*)
(* between time zones (domain/schedule/timezone_change.py) and the            *)
(* suggestions after a late completion (domain/schedule/suggestions.py), and  *)
(* what Now Mode makes of them (domain/now_mode.py).                          *)
(*                                                                            *)
(* Times are instants; a zone is its distance from UTC, and Slots instants    *)
(* make a local day.  A block lasts one instant.                              *)
EXTENDS NowMode, Sequences, FiniteSets, SequencesExt

CONSTANTS
    Action,      \* ids of daily actions
    Task, Habit, \* ids
    Priority,    \* of the goal each task and habit rolls up to
    Zone,        \* offsets of the User's time zones
    Slots,       \* instants in a day
    SleepSlot,   \* local time of going to sleep
    Times,       \* local days and slots the User and the generator choose from
    MaxTime,     \* bound: the clock
    MaxEdits,    \* bound: requests of the User about existing actions
    Outcome,     \* outcomes the User records for a habit
    ByHand,      \* task statuses the User sets by hand
    Overlap      \* whether requests of the User overlap

ASSUME DayAssumption ==
    /\ Priority \in [Task \cup Habit -> Nat]
    /\ Zone \subseteq Int /\ 0 \in Zone
    /\ Slots \in Nat \ {0} /\ SleepSlot \in 0..(Slots - 1)
    /\ Times \subseteq Nat \X (0..(Slots - 1))
    /\ {MaxTime, MaxEdits} \subseteq Nat /\ Overlap \in BOOLEAN
    /\ Outcome \subseteq {"completed", "partial", "skipped"}
    /\ ByHand \subseteq {"open", "in_progress", "completed", "cancelled"}

NoneYet == "none"
Manual == "MANUAL"

ASSUME IdAssumption ==
    /\ IsFiniteSet(Action)
    /\ Task \cap Habit = {} /\ {NoneYet, Manual} \cap (Task \cup Habit) = {}
    /\ Action \cap (Task \cup {"goal"}) = {}

Status == {"Planned", "Started", "Completed", "Skipped"}
Open == {"Planned", "Started"}
Day == {x[1] : x \in Times}

VARIABLES
    now, zone,
    action,      \* daily_actions
    checkins,    \* checkin_records of each action, as they were written
    history,     \* daily_action_schedule_history of each action
    task,        \* status of each task
    record,      \* habit_occurrence_records, as <<habit, day>> -> result
    events,      \* daily_action.status_changed events of completions
    suggestion,  \* schedule_suggestions, by the action that triggered them
    pending,     \* a request that has read rows it has not locked yet
    edits

vars == <<now, zone, action, checkins, history, task, record, events, suggestion, pending, edits>>

NoAction == [source |-> NoneYet]
NoSuggestion == [status |-> NoneYet]
NoRequest == [op |-> NoneYet]
Exists(a) == action[a] # NoAction
Active(a) == Exists(a) /\ action[a].live

Init ==
    /\ now = 0 /\ zone = 0
    /\ action = [a \in Action |-> NoAction]
    /\ checkins = [a \in Action |-> <<>>]
    /\ history = [a \in Action |-> <<>>]
    /\ task = [t \in Task |-> "open"]
    /\ record = [k \in Habit \X Day |-> NoneYet]
    /\ events = {}
    /\ suggestion = [a \in Action |-> NoSuggestion]
    /\ pending = NoRequest
    /\ edits = 0

to_local(instant) == instant + zone
local_date(instant) == to_local(instant) \div Slots
resolve_local(d, slot) == d * Slots + slot - zone

Tick ==
    /\ now < MaxTime
    /\ now' = now + 1
    /\ UNCHANGED <<zone, action, checkins, history, task, record, events, suggestion, pending, edits>>

(* A request of the User overlaps no other unless Overlap.                    *)
Alone == pending # NoRequest => Overlap
Request == Alone /\ edits < MaxEdits /\ edits' = edits + 1

-----------------------------------------------------------------------------
(* Creation. *)

(* insert_action_with_initial_checkin() *)
Insert(a, source, d, slot) ==
    /\ ~ Exists(a)
    /\ action' = [action EXCEPT ![a] =
                    [source |-> source, occ |-> d, date |-> d, start |-> resolve_local(d, slot),
                     status |-> "Planned", live |-> TRUE,
                     first |-> resolve_local(d, slot), wall |-> d * Slots + slot]]
    /\ checkins' = [checkins EXCEPT ![a] =
                      <<[previous |-> NoneYet, new |-> "Planned", at |-> now]>>]

create_manual(a, d, slot) ==
    /\ Alone /\ Insert(a, Manual, d, slot)
    /\ UNCHANGED <<now, zone, history, task, record, events, suggestion, pending, edits>>

active_task_action(t) == {a \in Action : Active(a) /\ action[a].source = t /\ action[a].status \in Open}

(* schedule() of a task; the unique index refuses a second one that day.      *)
schedule(a, t, d, slot) ==
    /\ task[t] \in {"open", "in_progress"} /\ active_task_action(t) = {}
    /\ \A b \in Action : Active(b) /\ action[b].source = t => action[b].occ # d
    /\ Alone /\ Insert(a, t, d, slot)
    /\ UNCHANGED <<now, zone, history, task, record, events, suggestion, pending, edits>>

(* The generator's insert of a habit occurrence, see Occurrences.             *)
generate(a, h, d, slot) ==
    /\ \A b \in Action : Active(b) /\ action[b].source = h => action[b].occ # d
    /\ Insert(a, h, d, slot)
    /\ UNCHANGED <<now, zone, history, task, record, events, suggestion, pending, edits>>

(* update() of a task's status by hand.                                       *)
update_task(t, status) ==
    /\ task[t] # status
    /\ task' = [task EXCEPT ![t] = status]
    /\ Request
    /\ UNCHANGED <<now, zone, action, checkins, history, record, events, suggestion, pending>>

-----------------------------------------------------------------------------
(* Check-ins. *)

TRANSITIONS == [Planned |-> {"Started", "Completed", "Skipped"},
                Started |-> {"Completed", "Skipped"}, Completed |-> {}, Skipped |-> {}]

validate_transition(row, new) == row.live /\ new \in TRANSITIONS[row.status]

task_sync_hook(a, new) ==
    LET t == action[a].source
    IN  task' = IF t \notin Task THEN task
                ELSE IF new = "Started" /\ task[t] = "open" THEN [task EXCEPT ![t] = "in_progress"]
                ELSE IF new = "Completed" THEN [task EXCEPT ![t] = "completed"]
                ELSE task

(* Fault: only completions reach the occurrence record.                       *)
RecordCompletions(a, new, result) ==
    LET h == action[a].source
    IN  record' = IF h \in Habit /\ new = "Completed" THEN [record EXCEPT ![<<h, action[a].occ>>] = result]
                  ELSE record

habit_sync_hook(a, new, result) ==
    LET h == action[a].source
    IN  record' = IF h \in Habit /\ new \in {"Completed", "Skipped"}
                  THEN [record EXCEPT ![<<h, action[a].occ>>] = result] ELSE record

CheckinRecord(row, new) == [previous |-> row.status, new |-> new, at |-> now]

(* transition(): row is the action as the transaction sees it.                *)
Transition(a, row, new, result) ==
    /\ validate_transition(row, new)
    /\ checkins' = [checkins EXCEPT ![a] = Append(@, CheckinRecord(row, new))]
    /\ action' = [action EXCEPT ![a].status = new]
    /\ task_sync_hook(a, new)
    /\ habit_sync_hook(a, new, result)
    /\ events' = IF new # "Completed" THEN events
                 ELSE events \cup {[trigger |-> a, date |-> row.date, end |-> row.start + 1,
                                   completed |-> now]}
    /\ UNCHANGED <<now, zone, history, suggestion>>

Result(new) == IF new = "Skipped" THEN "skipped" ELSE "completed"

(* The check-in of a request that locks the action first.                     *)
transition(a, new) ==
    /\ Exists(a) /\ Request
    /\ Transition(a, action[a], new, Result(new))
    /\ UNCHANGED pending

(* complete() a task: its open action is read here, and locked later, but the *)
(* session then answers with the row it has read.                             *)
BeginComplete(t) ==
    /\ pending = NoRequest /\ task[t] \in {"open", "in_progress"}
    /\ \E a \in active_task_action(t) :
         /\ \A b \in active_task_action(t) : action[b].start <= action[a].start
         /\ pending' = [op |-> "complete", action |-> a, row |-> action[a]]
    /\ Request
    /\ UNCHANGED <<now, zone, action, checkins, history, task, record, events, suggestion>>

CompleteTaskAction ==
    /\ pending.op = "complete"
    /\ Transition(pending.action, pending.row, "Completed", "completed")
    /\ pending' = NoRequest
    /\ UNCHANGED edits

(* A task without an open action is completed by itself.                      *)
complete(t) ==
    /\ task[t] \in {"open", "in_progress"} /\ active_task_action(t) = {}
    /\ task' = [task EXCEPT ![t] = "completed"]
    /\ Request
    /\ UNCHANGED <<now, zone, action, checkins, history, record, events, suggestion, pending>>

(* record_occurrence(): by the action of the occurrence, read before locking. *)
BeginRecord(h, d, result) ==
    /\ pending = NoRequest /\ d <= local_date(now)
    /\ \E a \in Action :
         /\ Active(a) /\ action[a].source = h /\ action[a].occ = d
         /\ pending' = [op |-> "record", action |-> a, row |-> action[a], result |-> result]
    /\ Request
    /\ UNCHANGED <<now, zone, action, checkins, history, task, record, events, suggestion>>

RecordByAction ==
    /\ pending.op = "record"
    /\ Transition(pending.action, pending.row,
                  IF pending.result = "skipped" THEN "Skipped" ELSE "Completed", pending.result)
    /\ pending' = NoRequest
    /\ UNCHANGED edits

(* No action is scheduled: the outcome is written by itself.                  *)
record_occurrence(h, d, result) ==
    /\ d <= local_date(now)
    /\ \A a \in Action : ~ (Active(a) /\ action[a].source = h /\ action[a].occ = d)
    /\ record' = [record EXCEPT ![<<h, d>>] = result]
    /\ Request
    /\ UNCHANGED <<now, zone, action, checkins, history, task, events, suggestion, pending>>

(* The transition is refused, or the request dies.                            *)
Abort ==
    /\ pending # NoRequest
    /\ pending' = NoRequest
    /\ UNCHANGED <<now, zone, action, checkins, history, task, record, events, suggestion, edits>>

-----------------------------------------------------------------------------
(* Rescheduling and cancelling. *)

(* Fault: the row is added after the action was changed.                      *)
HistoryOfAfter(row, type, start) == [type |-> type, from |-> start, to |-> start]

add_history(row, type, start) == [type |-> type, from |-> row.start, to |-> start]

Moved(a, start) ==
    [action[a] EXCEPT !.start = start, !.date = local_date(start), !.wall = to_local(start)]

reschedule(a, d, slot) ==
    /\ Active(a) /\ action[a].status = "Planned" /\ Request
    /\ history' = [history EXCEPT ![a] =
                     Append(@, add_history(action[a], "rescheduled", resolve_local(d, slot)))]
    /\ action' = [action EXCEPT ![a] = Moved(a, resolve_local(d, slot))]
    /\ UNCHANGED <<now, zone, checkins, task, record, events, suggestion, pending>>

cancel(a) ==
    /\ Active(a) /\ action[a].status \in Open /\ Request
    /\ history' = [history EXCEPT ![a] = Append(@, add_history(action[a], "cancelled", NoneYet))]
    /\ action' = [action EXCEPT ![a].live = FALSE]
    /\ UNCHANGED <<now, zone, checkins, task, record, events, suggestion, pending>>

(* Fault: the wall clock is read in the new zone.                             *)
RezonedInNew(a, z) == action[a].start

(* The same local time in the new zone.                                       *)
Rezoned(a, z) == to_local(action[a].start) - z

(* ProfileService.update() with TimezoneChangeService: the planned future     *)
(* keeps its wall clock, and its date.                                        *)
change_timezone(z) ==
    LET future == {a \in Action : /\ Active(a) /\ action[a].status = "Planned"
                                  /\ action[a].start > now /\ Rezoned(a, z) # action[a].start}
    IN  /\ z # zone /\ zone' = z /\ Request
        /\ history' = [a \in Action |->
                         IF a \in future
                         THEN Append(history[a], add_history(action[a], "timezone_change", Rezoned(a, z)))
                         ELSE history[a]]
        /\ action' = [a \in Action |->
                        IF a \in future THEN [action[a] EXCEPT !.start = Rezoned(a, z)] ELSE action[a]]
        /\ UNCHANGED <<now, checkins, task, record, events, suggestion, pending>>

-----------------------------------------------------------------------------
(* Suggestions. *)

(* A sleep time before noon is after midnight.                                *)
sleep_limit_for(d) ==
    resolve_local(IF SleepSlot <= Slots \div 2 THEN d + 1 ELSE d, SleepSlot)

(* Shifted by the overrun; what would end after the sleep time goes to        *)
(* tomorrow.                                                                  *)
build_proposal(overrun, following, limit) ==
    [a \in following |->
       IF action[a].start + overrun + 1 > limit THEN action[a].start + Slots
       ELSE action[a].start + overrun]

(* An event may be delivered late, twice or after others.                     *)
on_status_changed(e) ==
    LET overrun == e.completed - e.end
        following == {a \in Action \ {e.trigger} :
                        /\ Active(a) /\ action[a].status = "Planned"
                        /\ action[a].date = e.date /\ action[a].start >= e.end}
    IN  /\ overrun >= 1 /\ following # {}
        /\ suggestion[e.trigger] = NoSuggestion
        /\ suggestion' = [suggestion EXCEPT ![e.trigger] =
                            [status |-> "proposed", date |-> e.date,
                             proposal |-> build_proposal(overrun, following, sleep_limit_for(e.date))]]
        /\ UNCHANGED <<now, zone, action, checkins, history, task, record, events, pending, edits>>

(* An expired suggestion is refused; that it expired is rolled back with the  *)
(* request.                                                                   *)
_decidable(s) ==
    /\ suggestion[s].status = "proposed"
    /\ suggestion[s].date >= local_date(now)

BeginAccept(s) ==
    /\ pending = NoRequest /\ _decidable(s)
    /\ pending' = [op |-> "accept", suggestion |-> s,
                   rows |-> [a \in DOMAIN suggestion[s].proposal |-> action[a]]]
    /\ Request
    /\ UNCHANGED <<now, zone, action, checkins, history, task, record, events, suggestion>>

(* Fault: what the User did to an action since is not looked at.              *)
AcceptableAny(row) == row.live

Acceptable(row) == row.live /\ row.status = "Planned"

(* accept(): every action that is planned still is rescheduled.               *)
accept ==
    LET s == pending.suggestion
        proposal == suggestion[s].proposal
        move == {a \in DOMAIN proposal : Acceptable(pending.rows[a])}
    IN  /\ pending.op = "accept"
        /\ history' = [a \in Action |->
                         IF a \in move
                         THEN Append(history[a], add_history(pending.rows[a], "rescheduled", proposal[a]))
                         ELSE history[a]]
        /\ action' = [a \in Action |-> IF a \in move THEN Moved(a, proposal[a]) ELSE action[a]]
        /\ suggestion' = [suggestion EXCEPT ![s].status = "accepted"]
        /\ pending' = NoRequest
        /\ UNCHANGED <<now, zone, checkins, task, record, events, edits>>

reject(s) ==
    /\ _decidable(s) /\ (pending.op = "accept" => pending.suggestion # s) /\ Request
    /\ suggestion' = [suggestion EXCEPT ![s].status = "rejected"]
    /\ UNCHANGED <<now, zone, action, checkins, history, task, record, events, pending>>

Next ==
    \/ Tick
    \/ \E a \in Action :
         \/ \E x \in Times :
              \/ create_manual(a, x[1], x[2]) \/ reschedule(a, x[1], x[2])
              \/ \E t \in Task : schedule(a, t, x[1], x[2])
              \/ \E h \in Habit : generate(a, h, x[1], x[2])
         \/ \E new \in Status : transition(a, new)
         \/ cancel(a) \/ BeginAccept(a) \/ reject(a)
    \/ \E t \in Task :
         \/ BeginComplete(t) \/ complete(t)
         \/ \E status \in ByHand : update_task(t, status)
    \/ \E h \in Habit, d \in Day, result \in Outcome :
         BeginRecord(h, d, result) \/ record_occurrence(h, d, result)
    \/ CompleteTaskAction \/ RecordByAction \/ accept \/ Abort
    \/ \E z \in Zone : change_timezone(z)
    \/ \E e \in events : on_status_changed(e)

Spec == Init /\ [][Next]_vars

-----------------------------------------------------------------------------
(* Reading the check-ins back.                                                *)

(* Fault: records of one instant are taken as they come.                      *)
NextRecordAny(records, left, last) ==
    Min({k \in left : \A j \in left : records[k].at <= records[j].at})

(* Among the earliest records left, the first that continues the chain.       *)
(* Records are known by their places in the list.                             *)
NextRecord(records, left, last) ==
    LET group == {k \in left : \A j \in left : records[k].at <= records[j].at}
        fitting == {k \in group : records[k].previous = last}
    IN  Min(IF fitting # {} THEN fitting ELSE group)

chain_order(records) ==
    LET n == Len(records)
        order[i \in 1..n] ==
          NextRecord(records, (1..n) \ {order[j] : j \in 1..(i - 1)},
                     IF i = 1 THEN NoneYet ELSE records[order[i - 1]].new)
    IN  [i \in 1..n |-> records[order[i]]]

(* NowModeService.candidates(): the active actions of the local day.          *)
_goal_priorities(a) == IF action[a].source = Manual THEN 0 ELSE Priority[action[a].source]

View(a) == [id |-> a, start |-> action[a].start, end |-> action[a].start + 1,
            status |-> action[a].status, priority |-> _goal_priorities(a)]

(* The open tasks of the best goal, here one for all of them, or the goal.    *)
_buffer ==
    LET open == {t \in Task : task[t] \in {"open", "in_progress"}}
    IN  IF open # {} THEN open ELSE {"goal"}

candidates == plan({View(a) : a \in {b \in Action : Active(b) /\ action[b].date = local_date(now)}},
                   now, _buffer)

(* Every row is within its range.                                             *)
TypeOK ==
    /\ now \in 0..MaxTime /\ zone \in Zone /\ edits \in 0..MaxEdits
    /\ \A a \in Action : Exists(a) =>
         /\ action[a].source \in Task \cup Habit \cup {Manual}
         /\ action[a].status \in Status /\ action[a].live \in BOOLEAN
         /\ {action[a].start, action[a].date, action[a].wall, action[a].occ} \subseteq Int
    /\ task \in [Task -> {"open", "in_progress", "completed", "cancelled"}]
    /\ record \in [Habit \X Day -> {NoneYet, "completed", "partial", "skipped"}]
    /\ \A a \in Action : suggestion[a].status \in {NoneYet, "proposed", "accepted", "rejected"}

Perms(n) == {p \in [1..n -> 1..n] : \A i, j \in 1..n : p[i] = p[j] => i = j}

(* In whatever order the database returns the check-ins of an action, several *)
(* of one instant included, chain_order() gives the order they were made in,  *)
(* each leading on from the one before and the last to the action's status.   *)
CheckinsInOrder ==
    \A a \in Action : Exists(a) =>
        LET c == checkins[a]
        IN  /\ Last(c).new = action[a].status
            /\ \A i \in 2..Len(c) : c[i].previous = c[i - 1].new
            /\ \A p \in Perms(Len(c)) : chain_order([i \in 1..Len(c) |-> c[p[i]]]) = c

(* The schedule history replays: from the first time of an action, each row   *)
(* starts where the one before ended, and the last gives the current time.    *)
HistoryReplays ==
    \A a \in Action : Exists(a) =>
        LET h == history[a]
        IN  /\ \A i \in 1..Len(h) : h[i].from = (IF i = 1 THEN action[a].first ELSE h[i - 1].to)
            /\ IF action[a].live
               THEN action[a].start = (IF h = <<>> THEN action[a].first ELSE Last(h).to)
               ELSE Last(h).type = "cancelled" /\ Last(h).from = action[a].start

(* Through any sequence of moves between zones, what the User has placed in   *)
(* the future keeps its date and its time of day.                             *)
WallClockKept ==
    \A a \in Action :
        Active(a) /\ action[a].source \notin Habit /\ action[a].status = "Planned"
          /\ action[a].start > now =>
        to_local(action[a].start) = action[a].wall /\ action[a].date = action[a].wall \div Slots

(* The outcome recorded for a habit's day is the one its Daily Action ended   *)
(* with, wherever the action was moved to and whatever was recorded before.   *)
RecordAgrees ==
    \A a \in Action :
        Active(a) /\ action[a].source \in Habit /\ action[a].status \in {"Completed", "Skipped"} =>
        (record[<<action[a].source, action[a].occ>>] = "skipped") <=> (action[a].status = "Skipped")

(* An action the User has started, ended or cancelled is never moved: not by  *)
(* a suggestion made before, nor by a change of zone.                         *)
ActedIsNotMoved ==
    [][ \A a \in Action : Exists(a) /\ ~ (action[a].live /\ action[a].status = "Planned") =>
          action'[a].start = action[a].start /\ action'[a].date = action[a].date ]_vars

(* Open work does not drop out of Now Mode: an action it has recommended at   *)
(* its time, or shown as behind schedule, is the recommendation or behind     *)
(* after the next step too, for as long as the User's day lasts and the       *)
(* action is open and where it was, unless another one of the same time is    *)
(* preferred to it now.                                                       *)
DueStaysInView ==
    [][ \A a \in Action :
          /\ Active(a) /\ action[a].status \in Open /\ action[a].start <= now
          /\ Active(a)' /\ action'[a].status \in Open
          /\ action'[a].start = action[a].start /\ action'[a].date = action[a].date
          /\ local_date(now)' = local_date(now)
          /\ a \in candidates.recommended \cup candidates.behind
          => \/ a \in candidates'.recommended \cup candidates'.behind
             \/ \E b \in candidates'.recommended \cap Action :
                   action'[b].start = action'[a].start ]_vars
=============================================================================
