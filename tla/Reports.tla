------------------------------ MODULE Reports ------------------------------
(* What the program derives from the User's data while the data changes: the  *)
(* streaks of a habit, the findings about a day, the pages of a listing, the  *)
(* Completion Rate of a period, the progress of a goal.  A behaviour is about *)
(* one of these subjects.                                                     *)
EXTENDS HabitMetrics, ScheduleAnalysis, Pagination, Completion, Objectives

CONSTANTS
    Subject,       \* the subjects to look at
    Habits,        \* definitions of habits
    Outcome,       \* results the User records
    MaxDate,       \* bound: the days a habit is followed
    Minute,        \* bound: the minutes of the day that blocks are in
    Block,         \* ids of blocks
    Row, Key,      \* ids and sort keys of the rows of a listing
    Limits,        \* page sizes
    MaxEdits,      \* bound: changes to a listing while it is read
    Action,        \* ids of Daily Actions
    Slots,         \* instants in a day
    MaxTime        \* bound: the clock

(* What HabitService accepts: a target of at least one.                       *)
Definitions == [daily : BOOLEAN, days : SUBSET (0..(Week - 1)), target : Nat \ {0},
                first : Nat, last : Int, pauses : SUBSET (Int \X Int)]

ASSUME ReportAssumption ==
    /\ Habits \subseteq Definitions
    /\ Block \subseteq Nat /\ IsFiniteSet(Block)
    /\ Row \subseteq Nat \ {0} /\ IsFiniteSet(Row) /\ Key \subseteq Nat
    /\ Outcome \subseteq Result
    /\ Limits \subseteq Nat \ {0} /\ Slots \in Nat \ {0}
    /\ {MaxDate, Minute, MaxEdits, MaxTime} \subseteq Nat

VARIABLES
    subject,
    habit,         \* its definition, the recorded results and today's date
    blocks,        \* id -> <<start, end>>, or <<>>
    listing,       \* the rows, the walk through them and the untouched rows
    period         \* the clock, the Daily Actions and their statuses so far

vars == <<subject, habit, blocks, listing, period, objective, goal, req>>

Date == 0..(MaxDate + Week)
NotThere == -2
Untouched == [limit |-> 1, descending |-> FALSE]

InitHabit ==
    \E h \in Habits : habit = [def |-> h, records |-> [d \in Date |-> Nothing], today |-> h.first]

InitListing ==
    \E keys \in [Row -> Key \cup {NotThere}], limit \in Limits, descending \in BOOLEAN :
        listing = [keys |-> keys, limit |-> limit, descending |-> descending,
                   steady |-> {r \in Row : keys[r] # NotThere}, cursor |-> NoCursor,
                   seen |-> <<>>, done |-> FALSE, edits |-> 0]

Init ==
    /\ subject \in Subject
    /\ IF subject = "habit" THEN InitHabit ELSE habit = Untouched
    /\ blocks = [b \in Block |-> <<>>]
    /\ IF subject = "listing" THEN InitListing ELSE listing = Untouched
    /\ period = [now |-> 0, action |-> [a \in {} |-> 0], was |-> [a \in {} |-> 0]]
    /\ InitObjectives

-----------------------------------------------------------------------------
(* A habit: HabitService.record_occurrence(), pause(), resume(), and time.    *)

record_occurrence(d, result) ==
    /\ d <= habit.today
    /\ habit' = [habit EXCEPT !.records[d] = result]

OpenPauses == {p \in habit.def.pauses : p[2] = Never}

pause(from) ==
    /\ OpenPauses = {} /\ from >= habit.today
    /\ habit' = [habit EXCEPT !.def.pauses = @ \cup {<<from, Never>>}]

resume ==
    \E p \in OpenPauses :
        habit' = [habit EXCEPT !.def.pauses =
                    (@ \ {p}) \cup (IF p[1] >= habit.today THEN {} ELSE {<<p[1], habit.today - 1>>})]

NewDay ==
    /\ habit.today < MaxDate
    /\ habit' = [habit EXCEPT !.today = @ + 1]

NextHabit ==
    \/ \E d \in 0..MaxDate :
         \/ \E result \in Outcome : record_occurrence(d, result)
         \/ pause(d)
    \/ resume
    \/ NewDay

metrics(h) == compute_metrics(h.def, h.records, h.today)

-----------------------------------------------------------------------------
(* A day's active blocks, as analyze_day() reads them.                        *)

Book(b, start, end) ==
    /\ blocks[b] = <<>> /\ \A x \in Block : x < b => blocks[x] # <<>>
    /\ start < end
    /\ blocks' = [blocks EXCEPT ![b] = <<start, end>>]

Blocks ==
    {[id |-> b, start |-> blocks[b][1], end |-> blocks[b][2]] :
       b \in {b \in Block : blocks[b] # <<>>}}

-----------------------------------------------------------------------------
(* A listing read page by page while rows come, go and change their key.      *)

Rows == {[id |-> r, key |-> listing.keys[r]] : r \in {r \in Row : listing.keys[r] # NotThere}}

FetchPage ==
    LET page == to_sorted_page(keyset_sorted(Rows, listing.cursor, listing.limit, listing.descending),
                               listing.limit)
    IN  /\ ~ listing.done
        /\ listing' = [listing EXCEPT !.seen = @ \o page.items, !.cursor = page.next,
                                      !.done = page.next = NoCursor]

(* Insert, delete or change the key of a row.                                 *)
Edit(r, key) ==
    /\ ~ listing.done /\ listing.edits < MaxEdits /\ listing.keys[r] # key
    /\ listing' = [listing EXCEPT !.keys[r] = key, !.edits = @ + 1, !.steady = @ \ {r}]

NextListing ==
    \/ FetchPage
    \/ \E r \in Row, key \in Key \cup {NotThere} : Edit(r, key)

-----------------------------------------------------------------------------
(* The Daily Actions of a period of one day, date 0.                          *)

PeriodEnd == Slots

TRANSITIONS == [Planned |-> {"Started", "Completed", "Skipped"},
                Started |-> {"Completed", "Skipped"}, Completed |-> {}, Skipped |-> {}]

Actions == DOMAIN period.action
StatusNow(a) == Last(period.action[a].checkins).new
Live(a) == period.action[a].cancelled = NotYet

(* The status of each action at the end of each instant.                      *)
Noted(p) ==
    [p EXCEPT !.was = [a \in DOMAIN p.action |->
       [t \in 0..MaxTime |-> IF t < p.now /\ a \in DOMAIN @ THEN @[a][t]
                             ELSE IF p.action[a].created <= p.now
                                  THEN Last(p.action[a].checkins).new ELSE "Planned"]]]

CreateAction(a, d) ==
    /\ a \notin Actions
    /\ LET row == [date |-> d, created |-> period.now, cancelled |-> NotYet,
                   checkins |-> <<[at |-> period.now, previous |-> Nothing, new |-> "Planned"]>>]
       IN  period' = Noted([period EXCEPT !.action =
                              [x \in Actions \cup {a} |-> IF x = a THEN row ELSE @[x]]])

checkin(a, new) ==
    /\ a \in Actions /\ Live(a) /\ new \in TRANSITIONS[StatusNow(a)]
    /\ period' = Noted([period EXCEPT !.action[a].checkins =
                          Append(@, [at |-> period.now, previous |-> StatusNow(a), new |-> new])])

cancel(a) ==
    /\ a \in Actions /\ Live(a) /\ StatusNow(a) \in {"Planned", "Started"}
    /\ period' = [period EXCEPT !.action[a].cancelled = period.now]

reschedule(a, d) ==
    /\ a \in Actions /\ Live(a) /\ StatusNow(a) = "Planned" /\ period.action[a].date # d
    /\ period' = [period EXCEPT !.action[a].date = d]

Tick ==
    /\ period.now < MaxTime
    /\ period' = Noted([period EXCEPT !.now = @ + 1])

NextPeriod ==
    \/ \E a \in Action :
         \/ \E d \in {0, 1} : CreateAction(a, d) \/ reschedule(a, d)
         \/ \E new \in Status : checkin(a, new)
         \/ cancel(a)
    \/ Tick

completion_rate(p) == compute(p.action, 0, 0, AsOf(p.now, PeriodEnd))

-----------------------------------------------------------------------------
Next ==
    \/ subject = "habit" /\ NextHabit /\ UNCHANGED <<subject, blocks, listing, period, objectiveVars>>
    \/ /\ subject = "day" /\ \E b \in Block, s, e \in 0..Minute : Book(b, s, e)
       /\ UNCHANGED <<subject, habit, listing, period, objectiveVars>>
    \/ subject = "listing" /\ NextListing /\ UNCHANGED <<subject, habit, blocks, period, objectiveVars>>
    \/ subject = "period" /\ NextPeriod /\ UNCHANGED <<subject, habit, blocks, listing, objectiveVars>>
    \/ subject = "goal" /\ NextObjectives /\ UNCHANGED <<subject, habit, blocks, listing, period>>

Spec == Init /\ [][Next]_vars

-----------------------------------------------------------------------------
(* A streak is lost only by missing: a pause or its end costs at most the     *)
(* period it falls in, and never a day; midnight costs a streak only if it    *)
(* closes a period that was due and not met; a completion costs nothing.      *)
StreakLostByMissing ==
    [][ subject = "habit" =>
          LET before == metrics(habit)
              after == metrics(habit')
              completes(d) == /\ habit.records[d] # "completed"
                              /\ habit'.records = [habit.records EXCEPT ![d] = "completed"]
          IN  /\ habit'.def # habit.def =>
                   /\ after.current >= before.current - 1 /\ after.longest >= before.longest - 1
                   /\ after.missed <= before.missed
              /\ habit'.today # habit.today /\ after.current < before.current =>
                   \E stat \in ToSet(Stats(habit'.def, habit'.records, habit'.today)) :
                       stat.end = habit.today /\ stat.required > 0 /\ stat.completed < stat.required
              /\ (\E d \in Date : completes(d)) =>
                   after.current >= before.current /\ after.longest >= before.longest ]_vars

(* The streaks are what they are called: among the periods that count, the    *)
(* longest run of met ones, and the run at the end.                           *)
StreaksAreRuns ==
    subject = "habit" =>
        LET stats == Stats(habit.def, habit.records, habit.today)
            n == Len(stats)
            Met(k) == stats[k].completed >= stats[k].required
            counted == {k \in 1..n : stats[k].required > 0 /\ (Met(k) \/ stats[k].end < habit.today)}
            Between(i, j) == {k \in counted : i <= k /\ k <= j}
            lengths(J) == {0} \cup {Cardinality(Between(x[1], x[2])) :
                                      x \in {x \in (1..n) \X J : \A k \in Between(x[1], x[2]) : Met(k)}}
            Top(S) == CHOOSE x \in S : \A y \in S : y <= x
            now == metrics(habit)
        IN  now.current = Top(lengths({n} \cap 1..n)) /\ now.longest = Top(lengths(1..n))

MinutesOf(b) == b.start..(b.end - 1)
Busy == UNION {MinutesOf(b) : b \in Blocks}
(* The lengths of the free stretches inside [s, e).                           *)
FreeLengths(s, e) ==
    {0} \cup {z[2] - z[1] : z \in {z \in (s..e) \X (s..e) :
                                 z[1] < z[2] /\ z[1]..(z[2] - 1) \cap Busy = {}}}

(* The findings about a day agree with a look at every minute: the booked     *)
(* minutes, the pairs of blocks with a minute in common, the longest free     *)
(* stretch of any window and the windows at a block's start without a break.  *)
AnalysisByTheMinute ==
    subject = "day" =>
        LET o == Ordered(Blocks)
        IN  /\ booked_minutes(Blocks) = Cardinality(Busy)
            /\ conflicts(Blocks) = {x \in (1..Len(o)) \X (1..Len(o)) :
                                      x[1] < x[2] /\ MinutesOf(o[x[1]]) \cap MinutesOf(o[x[2]]) # {}}
            /\ overloaded_windows(Blocks) =
                 {b.start : b \in {b \in Blocks : \A n \in FreeLengths(b.start, b.start + WINDOW) : n < MIN_GAP}}
            /\ \A s \in 0..Minute, e \in 0..Minute : s < e =>
                 /\ largest_gap(merge(Blocks), s, e) \in FreeLengths(s, e)
                 /\ \A n \in FreeLengths(s, e) : n <= largest_gap(merge(Blocks), s, e)

(* What overloaded_windows() promises of its anchors, which fails: a window   *)
(* with short gaps at both ends is solid where none at a block's start is.    *)
SolidWindowFound ==
    subject = "day" =>
        \A s \in 0..Minute : (\A n \in FreeLengths(s, s + WINDOW) : n < MIN_GAP) =>
            overloaded_windows(Blocks) # {}

(* Reading a listing page by page while others insert, delete and move rows   *)
(* returns rows in order, none twice but one that moved, and in the end every *)
(* row that was there all along.                                              *)
EveryRowOnce ==
    subject = "listing" =>
        /\ \A i \in 2..Len(listing.seen) :
             LET a == listing.seen[i - 1]
                 b == listing.seen[i]
             IN  IF listing.descending THEN a.key > b.key \/ (a.key = b.key /\ a.id > b.id)
                 ELSE a.key < b.key \/ (a.key = b.key /\ a.id < b.id)
        /\ listing.done => listing.steady \subseteq {x.id : x \in ToSet(listing.seen)}

Perms(n) == {p \in [1..n -> 1..n] : \A i, j \in 1..n : p[i] = p[j] => i = j}

(* The status the check-in history gives for any instant is the one the       *)
(* action had at its end, however many check-ins fell into one instant and in *)
(* whatever order they are read.                                              *)
StatusReplays ==
    \A a \in Actions : \A t \in 0..period.now :
        LET c == period.action[a].checkins
        IN  \A p \in Perms(Len(c)) :
              status_as_of([i \in 1..Len(c) |-> c[p[i]]], t) = period.was[a][t]

(* A closed period keeps its Completion Rate: late check-ins, cancellations   *)
(* and new actions do not change it.  Moving an action between dates does.    *)
ClosedPeriodKept ==
    [][ subject = "period" /\ period.now > PeriodEnd
          /\ (\A a \in Actions : period'.action[a].date = period.action[a].date) =>
          completion_rate(period') = completion_rate(period) ]_vars
=============================================================================
