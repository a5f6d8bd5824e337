---------------------------- MODULE Occurrences ----------------------------
(* How Routines and Habits become Daily Actions (domain/schedule/generation.py) *)
(* while the User edits them: habits and pauses (domain/habits.py), routines    *)
(* (domain/routines.py), goals (domain/goals.py), and the rescheduling and      *)
(* cancelling of occurrences (domain/schedule/reschedule.py).  A generation     *)
(* locks nothing: it reads the definitions, then for each day the overrides,    *)
(* and inserts behind a unique index.  Edits commit between its steps.          *)
EXTENDS Integers, Sequences, FiniteSets, Functions

CONSTANTS
    Goal, Habit, Template, Entry,   \* ids
    Generator,                      \* calls of generate_for_user()
    Dates,                          \* the dates of each, counted from today
    GoalOf,                         \* the goal of each habit
    Week,                           \* days in a week
    Slots,                          \* instants in a day
    HabitSlot, EntrySlot,           \* default start of a habit, start of an entry
    HabitDays, RoutineDays,         \* sets of weekdays the User chooses from
    NoHabit, NoTemplate,            \* no habit is linked, no template is there
    MaxTime, MaxEdits               \* bounds: the clock, requests of the User

ASSUME CalendarAssumption ==
    /\ {Week, Slots} \subseteq Nat \ {0}
    /\ {HabitSlot, EntrySlot} \subseteq 0..(Slots - 1)
    /\ HabitDays \cup RoutineDays \subseteq (SUBSET (0..(Week - 1))) \ {{}}
    /\ {MaxTime, MaxEdits} \subseteq Nat

ASSUME IdAssumption ==
    /\ GoalOf \in [Habit -> Goal]
    /\ Dates \in [Generator -> Seq({0, 1}) \ {<<>>}]
    /\ \A g \in Generator : \A i, j \in 1..Len(Dates[g]) : Dates[g][i] = Dates[g][j] => i = j
    /\ IsFiniteSet(Habit \cup Entry) /\ Habit \cap Entry = {}
    /\ NoHabit \notin Habit /\ NoTemplate \notin Template

Source == Habit \cup Entry
NoDate == -1
Day == 0..((MaxTime \div Slots) + 1)
weekday(d) == d % Week

VARIABLES
    now,
    goal,        \* goals: status and soft deletion
    habit,       \* habits: first and last date, weekdays, status, soft deletion
    pauses,      \* habit_pause_periods, as <<starts_on, ends_on>>
    template,    \* routine_templates: weekdays, soft deletion
    entry,       \* routine_entries: template, linked habit, soft deletion
    removed,     \* <<source, day>> with a removed exception or override
    moved,       \* <<source, day>> -> start of the latest reschedule, or NoDate
    instances,   \* routine_instances, as <<template, day>>
    actions,     \* daily_actions generated from routines and habits
    gen,         \* the generations in flight
    edits        \* requests of the User so far

vars == <<now, goal, habit, pauses, template, entry, removed, moved, instances,
          actions, gen, edits>>
definitions == <<goal, habit, pauses, template, entry>>

today == now \div Slots
NoEntry == [template |-> NoTemplate, habit |-> NoHabit, deleted |-> FALSE]
NoHabitYet == [created |-> NoDate, last |-> NoDate, days |-> {}, status |-> "active",
               deleted |-> FALSE]
Everyday == [NoHabitYet EXCEPT !.created = 0, !.days = 0..(Week - 1)]
Idle == [pc |-> "idle"]
Done == [pc |-> "done"]

Init ==
    /\ now = 0
    /\ goal = [g \in Goal |-> [status |-> "active", deleted |-> FALSE]]
    /\ habit \in {[h \in Habit |-> NoHabitYet], [h \in Habit |-> Everyday]}
    /\ pauses = [h \in Habit |-> {}]
    /\ \E days \in {{}} \cup RoutineDays :
         template = [t \in Template |-> [days |-> days, deleted |-> FALSE]]
    /\ entry = [e \in Entry |-> NoEntry]
    /\ removed = {}
    /\ moved = [k \in Source \X Day |-> NoDate]
    /\ instances = {} /\ actions = {}
    /\ gen = [g \in Generator |-> Idle]
    /\ edits = 0

Tick ==
    /\ now < MaxTime
    /\ now' = now + 1
    /\ UNCHANGED <<definitions, removed, moved, instances, actions, gen, edits>>

InFlight(g) == gen[g] \notin {Idle, Done}
Key(a) == <<a.source, a.occ>>
Active == {a \in actions : a.live}
ActiveKeys == {Key(a) : a \in Active}
LiveHabit(h) == habit[h].created # NoDate /\ ~ habit[h].deleted
LiveTemplate(t) == template[t].days # {} /\ ~ template[t].deleted
LiveEntry(e) == entry[e].template # NoTemplate /\ ~ entry[e].deleted
GoalArchived(s) == s \in Habit /\ goal[GoalOf[s]].status = "archived"

-----------------------------------------------------------------------------
(* plan_occurrences(): which sources apply on a date, and when.               *)

in_pause(h, d) == \E p \in pauses[h] : p[1] <= d /\ (p[2] = NoDate \/ d <= p[2])

habit_scheduled_on(h, d) ==
    /\ habit[h].status = "active" /\ ~ GoalArchived(h)
    /\ habit[h].created <= d /\ (habit[h].last = NoDate \/ d <= habit[h].last)
    /\ ~ in_pause(h, d)
    /\ weekday(d) \in habit[h].days

(* What _load_routines() and _load_habits() say about a day.                  *)
Sources(d) ==
    [entries |-> {[id |-> e, template |-> entry[e].template, habit |-> entry[e].habit] :
                    e \in {e \in Entry : /\ LiveEntry(e) /\ LiveTemplate(entry[e].template)
                                         /\ weekday(d) \in template[entry[e].template].days}},
     habits |-> {h \in Habit : LiveHabit(h) /\ habit_scheduled_on(h, d)}]

(* Where the occurrence was moved to, or the default of its source.           *)
Start(s, d) ==
    IF moved[<<s, d>>] # NoDate THEN moved[<<s, d>>]
    ELSE d * Slots + (IF s \in Habit THEN HabitSlot ELSE EntrySlot)

(* Fault: exceptions and overrides of the kind removed are not read.          *)
RemovedNever(s, d) == FALSE

Removed(s, d) == <<s, d>> \in removed

(* A habit in the day's routine is represented by the routine's entry.        *)
plan_occurrences(src, d) ==
    LET kept == {x \in src.entries : ~ Removed(x.id, d)}
        routine == {x.habit : x \in kept}
    IN  {[source |-> x.id, start |-> Start(x.id, d), template |-> {x.template}] : x \in kept}
        \cup {[source |-> h, start |-> Start(h, d), template |-> {}] :
                h \in {h \in src.habits \ routine : ~ Removed(h, d)}}

-----------------------------------------------------------------------------
(* generate_for_user() for the dates it is given, today and tomorrow mostly.  *)

local_dates(g) == [i \in 1..Len(Dates[g]) |-> today + Dates[g][i]]

Load(g) ==
    /\ gen[g] = Idle
    /\ gen' = [gen EXCEPT ![g] =
                 [pc |-> "loaded", days |-> local_dates(g),
                  src |-> [d \in Range(local_dates(g)) |-> Sources(d)],
                  plan |-> {}, rows |-> {}, made |-> {}, missed |-> {}]]
    /\ UNCHANGED <<now, definitions, removed, moved, instances, actions, edits>>

_load_overrides(g) ==
    LET d == Head(gen[g].days)
    IN  /\ gen[g].pc = "loaded"
        /\ gen' = [gen EXCEPT ![g].pc = "planned",
                              ![g].plan = plan_occurrences(gen[g].src[d], d)]
        /\ UNCHANGED <<now, definitions, removed, moved, instances, actions, edits>>

Written(g) == IF InFlight(g) THEN {Key(a) : a \in gen[g].rows} ELSE {}

(* Fault: the index also covers cancelled actions.                            *)
TakenForGood(s, d) == \E a \in actions : Key(a) = <<s, d>>

(* uq_daily_actions_occurrence: unique among active actions.                  *)
Taken(s, d) == <<s, d>> \in ActiveKeys

(* Fault: a generation does not wait for another one's uncommitted rows.      *)
BlockedNever(g) == FALSE

(* An insert waits while another generation holds the same key uncommitted.   *)
Blocked(g) ==
    \E o \in Generator \ {g} : \E p \in gen[g].plan : <<p.source, Head(gen[g].days)>> \in Written(o)

_persist(g) ==
    LET d == Head(gen[g].days)
        new == {p \in gen[g].plan : ~ Taken(p.source, d)}
    IN  /\ gen[g].pc = "planned" /\ ~ Blocked(g)
        /\ gen' = [gen EXCEPT
                     ![g].pc = IF Len(gen[g].days) = 1 THEN "written" ELSE "loaded",
                     ![g].days = Tail(@),
                     ![g].plan = {},
                     ![g].made = @ \cup UNION {p.template \X {d} : p \in gen[g].plan},
                     ![g].rows = @ \cup {[source |-> p.source, occ |-> d, date |-> d, start |-> p.start,
                                          status |-> "Planned", live |-> TRUE] : p \in new}]
        /\ UNCHANGED <<now, definitions, removed, moved, instances, actions, edits>>

(* The rows become visible, each numbered within its occurrence and marked    *)
(* when an edit of its source was committed since the generation read it.     *)
Commit(g) ==
    LET Numbered(a) ==
          [source |-> a.source, occ |-> a.occ, date |-> a.date, start |-> a.start,
           status |-> a.status, live |-> a.live,
           nr |-> Cardinality({b \in actions : Key(b) = Key(a)}),
           missed |-> a.source \in gen[g].missed]
    IN  /\ gen[g].pc = "written"
        /\ actions' = actions \cup {Numbered(a) : a \in gen[g].rows}
        /\ instances' = instances \cup gen[g].made
        /\ gen' = [gen EXCEPT ![g] = Done]
        /\ UNCHANGED <<now, definitions, removed, moved, edits>>

(* The worker dies, or PostgreSQL breaks a deadlock of two generations.       *)
Rollback(g) ==
    /\ InFlight(g)
    /\ gen' = [gen EXCEPT ![g] = Done]
    /\ UNCHANGED <<now, definitions, removed, moved, instances, actions, edits>>

-----------------------------------------------------------------------------
(* The User's edits, each one transaction.                                    *)

Request == edits < MaxEdits /\ edits' = edits + 1

(* Sources change after generations in flight have read them.                 *)
Edit(sources) ==
    /\ Request
    /\ gen' = [g \in Generator |->
                 IF InFlight(g) THEN [gen[g] EXCEPT !.missed = @ \cup sources]
                 ELSE gen[g]]

(* system_cancel(): no override is written.                                   *)
system_cancel(A) == actions' = (actions \ A) \cup {[a EXCEPT !.live = FALSE] : a \in A}

(* Fault: the read of the actions to cancel stops at the first day.           *)
FutureThatDay(h, from) ==
    {a \in Active : /\ a.source = h /\ a.status = "Planned"
                    /\ a.start > now /\ a.date = from}

Future(h, from) ==
    {a \in Active : /\ a.source = h /\ a.status = "Planned"
                    /\ a.start > now /\ a.date >= from}

Writable(h) == ~ goal[GoalOf[h]].deleted /\ goal[GoalOf[h]].status # "archived"

create_habit(h, days) ==
    /\ habit[h].created = NoDate /\ Writable(h)
    /\ habit' = [habit EXCEPT ![h].created = today, ![h].days = days]
    /\ Edit({h})
    /\ UNCHANGED <<now, goal, pauses, template, entry, removed, moved, instances, actions>>

update_habit(h, days, status, last) ==
    /\ LiveHabit(h) /\ Writable(h)
    /\ last = NoDate \/ last >= habit[h].created
    /\ habit' = [habit EXCEPT ![h].days = days, ![h].status = status, ![h].last = last]
    /\ habit' # habit
    /\ Edit({h})
    /\ UNCHANGED <<now, goal, pauses, template, entry, removed, moved, instances, actions>>

delete_habit(h) ==
    /\ LiveHabit(h)
    /\ system_cancel(Future(h, 0))
    /\ habit' = [habit EXCEPT ![h].deleted = TRUE]
    /\ Edit({h})
    /\ UNCHANGED <<now, goal, pauses, template, entry, removed, moved, instances>>

open_pause(h) == {p \in pauses[h] : p[2] = NoDate}

pause(h, from) ==
    /\ LiveHabit(h) /\ open_pause(h) = {} /\ from >= today
    /\ pauses' = [pauses EXCEPT ![h] = @ \cup {<<from, NoDate>>}]
    /\ system_cancel(Future(h, from))
    /\ Edit({h})
    /\ UNCHANGED <<now, goal, habit, template, entry, removed, moved, instances>>

(* A pause that never took effect is deleted; else it ended yesterday.        *)
resume(h) ==
    /\ LiveHabit(h)
    /\ \E p \in open_pause(h) :
         pauses' = [pauses EXCEPT ![h] =
                      (@ \ {p}) \cup (IF p[1] >= today THEN {} ELSE {<<p[1], today - 1>>})]
    /\ Edit({h})
    /\ UNCHANGED <<now, goal, habit, template, entry, removed, moved, instances, actions>>

HabitsOf(g) == {h \in Habit : GoalOf[h] = g}

(* archive(): the future of the goal's habits is cancelled.                   *)
archive(g) ==
    /\ ~ goal[g].deleted /\ goal[g].status # "archived"
    /\ goal' = [goal EXCEPT ![g].status = "archived"]
    /\ system_cancel(UNION {Future(h, 0) : h \in HabitsOf(g)})
    /\ Edit(HabitsOf(g))
    /\ UNCHANGED <<now, habit, pauses, template, entry, removed, moved, instances>>

(* delete(): the subtree is deleted, its Daily Actions are kept.              *)
delete_goal(g) ==
    /\ ~ goal[g].deleted
    /\ goal' = [goal EXCEPT ![g].deleted = TRUE]
    /\ habit' = [h \in Habit |->
                   [habit[h] EXCEPT !.deleted = @ \/ (GoalOf[h] = g /\ habit[h].created # NoDate)]]
    /\ Edit(HabitsOf(g))
    /\ UNCHANGED <<now, pauses, template, entry, removed, moved, instances, actions>>

-----------------------------------------------------------------------------
(* Routines. *)

EntriesOf(t) == {e \in Entry : entry[e].template = t /\ ~ entry[e].deleted}
Touched(E) == E \cup ({entry[e].habit : e \in E} \cap Habit)

_ensure_no_day_conflict(t, days) ==
    \A o \in Template \ {t} : LiveTemplate(o) => template[o].days \cap days = {}

create_template(t, days) ==
    /\ template[t].days = {} /\ _ensure_no_day_conflict(t, days)
    /\ template' = [template EXCEPT ![t].days = days]
    /\ Request
    /\ UNCHANGED <<now, goal, habit, pauses, entry, removed, moved, instances, actions, gen>>

update_template(t, days) ==
    /\ LiveTemplate(t) /\ template[t].days # days /\ _ensure_no_day_conflict(t, days)
    /\ template' = [template EXCEPT ![t].days = days]
    /\ Edit(Touched(EntriesOf(t)))
    /\ UNCHANGED <<now, goal, habit, pauses, entry, removed, moved, instances, actions>>

delete_template(t) ==
    /\ LiveTemplate(t)
    /\ template' = [template EXCEPT ![t].deleted = TRUE]
    /\ entry' = [e \in Entry |-> [entry[e] EXCEPT !.deleted = @ \/ e \in EntriesOf(t)]]
    /\ Edit(Touched(EntriesOf(t)))
    /\ UNCHANGED <<now, goal, habit, pauses, removed, moved, instances, actions>>

_check_links(h) == h \in {NoHabit} \cup {x \in Habit : LiveHabit(x)}

create_entry(e, t, h) ==
    /\ entry[e] = NoEntry /\ LiveTemplate(t) /\ _check_links(h)
    /\ entry' = [entry EXCEPT ![e].template = t, ![e].habit = h]
    /\ Edit({e, h} \cap Source)
    /\ UNCHANGED <<now, goal, habit, pauses, template, removed, moved, instances, actions>>

update_entry(e, h) ==
    /\ LiveEntry(e) /\ entry[e].habit # h /\ _check_links(h)
    /\ entry' = [entry EXCEPT ![e].habit = h]
    /\ Edit({e, h, entry[e].habit} \cap Source)
    /\ UNCHANGED <<now, goal, habit, pauses, template, removed, moved, instances, actions>>

delete_entry(e) ==
    /\ LiveEntry(e)
    /\ entry' = [entry EXCEPT ![e].deleted = TRUE]
    /\ Edit(Touched({e}))
    /\ UNCHANGED <<now, goal, habit, pauses, template, removed, moved, instances, actions>>

-----------------------------------------------------------------------------
(* Daily Actions. *)

Put(a, b) == actions' = (actions \ {a}) \cup {b}

(* Overrides of a day are read when the generation comes to that day.         *)
Unread(g, d) ==
    /\ gen[g].pc # "written"
    /\ \E i \in 1..Len(gen[g].days) : gen[g].days[i] = d /\ ~ (i = 1 /\ gen[g].pc = "planned")

(* cancel(): the occurrence is removed for good.                              *)
cancel(a) ==
    /\ a \in Active /\ a.status \in {"Planned", "Started"} /\ ~ GoalArchived(a.source)
    /\ removed' = removed \cup {Key(a)}
    /\ moved' = [moved EXCEPT ![Key(a)] = NoDate]
    /\ Put(a, [a EXCEPT !.live = FALSE])
    /\ Request
    /\ gen' = [g \in Generator |->
                 IF InFlight(g) /\ ~ Unread(g, a.occ)
                 THEN [gen[g] EXCEPT !.missed = @ \cup Touched({a.source} \cap Entry) \cup {a.source}]
                 ELSE gen[g]]
    /\ UNCHANGED <<now, definitions, instances>>

(* reschedule(): a habit has one override per day, an entry keeps them all:   *)
(* a removed exception outlives a later move.                                 *)
reschedule(a, d, slot) ==
    LET start == d * Slots + slot
    IN  /\ a \in Active /\ a.status = "Planned" /\ ~ GoalArchived(a.source)
        /\ removed' = IF a.source \in Habit THEN removed \ {Key(a)} ELSE removed
        /\ moved' = [moved EXCEPT ![Key(a)] = start]
        /\ Put(a, [a EXCEPT !.date = d, !.start = start])
        /\ Request
        /\ UNCHANGED <<now, definitions, instances, gen>>

TRANSITIONS == [Planned |-> {"Started", "Completed", "Skipped"},
                Started |-> {"Completed", "Skipped"}, Completed |-> {}, Skipped |-> {}]

transition(a, new) ==
    /\ a \in Active /\ new \in TRANSITIONS[a.status] /\ ~ GoalArchived(a.source)
    /\ Put(a, [a EXCEPT !.status = new])
    /\ Request
    /\ UNCHANGED <<now, definitions, removed, moved, instances, gen>>

Next ==
    \/ Tick
    \/ \E g \in Generator :
         Load(g) \/ _load_overrides(g) \/ _persist(g) \/ Commit(g) \/ Rollback(g)
    \/ \E h \in Habit :
         \/ delete_habit(h) \/ resume(h)
         \/ \E d \in Day : pause(h, d)
         \/ \E days \in HabitDays :
              \/ create_habit(h, days)
              \/ \E status \in {"active", "archived"}, last \in {NoDate, today} :
                   update_habit(h, days, status, last)
    \/ \E g \in Goal : archive(g) \/ delete_goal(g)
    \/ \E t \in Template :
         \/ delete_template(t)
         \/ \E days \in RoutineDays : create_template(t, days) \/ update_template(t, days)
         \/ \E e \in Entry, h \in Habit \cup {NoHabit} : create_entry(e, t, h)
    \/ \E e \in Entry : delete_entry(e) \/ \E h \in Habit \cup {NoHabit} : update_entry(e, h)
    \/ \E a \in Active :
         \/ cancel(a)
         \/ \E d \in Day, slot \in 0..(Slots - 1) : reschedule(a, d, slot)
         \/ \E new \in {"Started", "Completed", "Skipped"} : transition(a, new)

Spec == Init /\ [][Next]_vars

-----------------------------------------------------------------------------
(* Every row and every generation in flight is within its range.              *)
TypeOK ==
    /\ now \in 0..MaxTime /\ edits \in 0..MaxEdits
    /\ template \in [Template -> [days : SUBSET (0..(Week - 1)), deleted : BOOLEAN]]
    /\ entry \in [Entry -> [template : Template \cup {NoTemplate}, habit : Habit \cup {NoHabit},
                           deleted : BOOLEAN]]
    /\ removed \subseteq Source \X Day
    /\ moved \in [Source \X Day -> 0..((MaxTime + 2) * Slots) \cup {NoDate}]
    /\ instances \subseteq Template \X Day
    /\ \A a \in actions : Key(a) \in Source \X Day /\ a.nr \in Nat

(* However many generations overlap, an occurrence has at most one active     *)
(* Daily Action.                                                              *)
OneActive == \A a, b \in Active : Key(a) = Key(b) => a = b

(* An occurrence the User cancelled is never active again, unless by a        *)
(* generation that had read the day's overrides before the cancellation.      *)
NeverRegenerated == \A a \in Active : Key(a) \in removed => a.missed

(* The same without the exception, which reschedule.py promises; a generation *)
(* that overlaps the cancellation breaks it.                                  *)
CancelledForGood == \A a \in Active : Key(a) \notin removed

(* From the start of an open pause a habit has no planned future action,      *)
(* other than one the User moved there or one whose generation had read the   *)
(* habit before.                                                              *)
PausedDaysEmpty ==
    \A a \in Active : a.source \in Habit /\ ~ a.missed /\ a.status = "Planned" /\ a.start > now =>
        \A p \in open_pause(a.source) : a.date >= p[1] => moved[Key(a)] # NoDate

(* A generation leaves no gap: once it commits, every occurrence that is due  *)
(* on its days has an active action, except where the User edited the source  *)
(* meanwhile.  In particular what a pause cancelled comes back after resume.  *)
DueIsGenerated ==
    [][ \A g \in Generator : Commit(g) =>
          \A d \in DOMAIN gen[g].src : \A p \in plan_occurrences(Sources(d), d) :
              p.source \notin gen[g].missed => <<p.source, d>> \in ActiveKeys' ]_vars
=============================================================================
