----------------------------- MODULE Escalation -----------------------------
(* The Accountability Engine for one recurring source of one User             *)
(* (domain/accountability.py): levels 3 to 5 from the skips of the last days, *)
(* episodes with their required reflection, recovery, and the proactive flags *)
(* of each episode.  A check-in evaluates the source in its own transaction,  *)
(* the sweep in another: evaluate_source() reads the occurrences first and    *)
(* locks the escalation row afterwards, so transactions interleave between    *)
(* the two.  An occurrence that is planned, started, cancelled or not yet     *)
(* generated counts for nothing and is "Open".                                *)
EXTENDS Integers, FiniteSets

CONSTANTS
    Occurrence,       \* Daily Actions of the source
    DayOf,            \* the local date of each of them
    Process,          \* requests and workers evaluating the source
    Pausable,         \* TRUE for a habit; a routine entry has no pauses
    MaxDay,           \* bound: last local date
    WINDOW_DAYS, LOOKBACK_DAYS,
    CHALLENGE_SKIPS, REFLECTION_SKIPS, PATTERN_RUN, RECOVERY_DAYS

ASSUME DayAssumption == MaxDay \in Nat \ {0} /\ DayOf \in [Occurrence -> 1..MaxDay]
ASSUME OccurrenceAssumption == IsFiniteSet(Occurrence) /\ Occurrence # {}
ASSUME PausableAssumption == Pausable \in BOOLEAN
ASSUME ThresholdAssumption ==
    /\ {WINDOW_DAYS, LOOKBACK_DAYS, PATTERN_RUN, RECOVERY_DAYS} \subseteq Nat \ {0}
    /\ CHALLENGE_SKIPS \in Nat \ {0} /\ REFLECTION_SKIPS \in Nat
    /\ CHALLENGE_SKIPS <= REFLECTION_SKIPS

Day == 1..MaxDay
Level == 1..5
NoDay == 0

VARIABLES
    today,        \* the User's local date
    status,       \* daily_actions.status, by occurrence
    paused,       \* the days of the closed pause periods
    openPause,    \* starts_on of the open pause period, or NoDay
    row,          \* the escalation state row; episode 0 when there is none
    openFlags,    \* unresolved escalation flags, as <<episode, level>>
    oldFlags,     \* resolved ones; their dedupe keys stay taken
    reflections,  \* accountability reflections written, by episode
    reductions,   \* how often a recovery lowered the level
    txn           \* for each process, its transaction and what it has read

vars == <<today, status, paused, openPause, row, openFlags, oldFlags, reflections,
          reductions, txn>>

Episode == 1..(Cardinality(Occurrence) + 1)
BASELINE == [level |-> 1, required |-> FALSE, done |-> FALSE, anchor |-> NoDay,
             episode |-> 0]
NoTxn == [kind |-> "none"]

Init ==
    /\ today = 1
    /\ status = [o \in Occurrence |-> "Open"]
    /\ paused = {}
    /\ openPause = NoDay
    /\ row = BASELINE
    /\ openFlags = {} /\ oldFlags = {}
    /\ reflections = [e \in Episode |-> 0]
    /\ reductions = 0
    /\ txn = [p \in Process |-> NoTxn]

-----------------------------------------------------------------------------
(* The pure rules, on the outcome of each day                                 *)

in_pause(d) == d \in paused \/ (openPause # NoDay /\ openPause <= d)

(* Completed beats Skipped beats Open; paused days and days before the        *)
(* lookback do not appear.                                                    *)
day_outcomes(st, now) ==
    LET Has(d, s) == \E o \in Occurrence : DayOf[o] = d /\ st[o] = s
    IN  [d \in {e \in Day : now - LOOKBACK_DAYS <= e /\ e <= now /\ ~ in_pause(e)} |->
           IF Has(d, "Completed") THEN "Completed"
           ELSE IF Has(d, "Skipped") THEN "Skipped" ELSE "Open"]

Days(outcomes, o) == {d \in DOMAIN outcomes : outcomes[d] = o}

(* The skipped days that no completed day follows.                            *)
trailing_skip_run(outcomes) ==
    {d \in Days(outcomes, "Skipped") : \A e \in Days(outcomes, "Completed") : e < d}

window_start(now) == now - (WINDOW_DAYS - 1)

(* The level implied by the skips after `since` (the recovery anchor).        *)
pattern_level(outcomes, now, since) ==
    LET considered == [d \in {e \in DOMAIN outcomes : e > since} |-> outcomes[d]]
        skip_days == {d \in Days(considered, "Skipped") : d >= window_start(now)}
        run == trailing_skip_run(considered)
    IN  IF Cardinality(run) >= PATTERN_RUN /\ \E d \in run : d >= window_start(now) THEN 5
        ELSE IF Cardinality(skip_days) >= REFLECTION_SKIPS THEN 4
        ELSE IF Cardinality(skip_days) >= CHALLENGE_SKIPS THEN 3 ELSE 1

recovery_dates(outcomes, now, since) ==
    {d \in Days(outcomes, "Completed") : window_start(now) <= d /\ d > since}

(* Fault: the reflection of the episode is asked for again at a higher level. *)
EscalatedAfresh(state, pattern) ==
    [level |-> pattern, anchor |-> state.anchor, required |-> pattern >= 4,
     done |-> state.done /\ state.level # 1,
     episode |-> IF state.level = 1 THEN state.episode + 1 ELSE state.episode]

(* A new episode starts when the level leaves 1; it asks for its reflection   *)
(* once.                                                                      *)
Escalated(state, pattern) ==
    LET new == state.level = 1
    IN  [level |-> pattern, anchor |-> state.anchor,
         required |-> state.required \/ (pattern >= 4 /\ (new \/ ~ state.done)),
         done |-> state.done /\ ~ new,
         episode |-> IF new THEN state.episode + 1 ELSE state.episode]

(* Fault: the completions that paid for a recovery stay available.            *)
ReducedForFree(state, dates) == [state EXCEPT !.level = @ - 1, !.required = FALSE]

Reduced(state, dates) ==
    [state EXCEPT !.level = @ - 1, !.required = FALSE,
                  !.anchor = CHOOSE d \in dates : \A e \in dates : e <= d]

(* Fault: a pending reflection does not block recovery.                       *)
UngatedEvaluate(state, outcomes, now) ==
    LET pattern == pattern_level(outcomes, now, state.anchor)
        dates == recovery_dates(outcomes, now, state.anchor)
    IN  IF pattern > state.level THEN Escalated(state, pattern)
        ELSE IF state.level = 1 \/ Cardinality(dates) < RECOVERY_DAYS THEN state
        ELSE Reduced(state, dates)

(* evaluate(), with the episode evaluate_source() starts on a new escalation: *)
(* escalation wins over recovery, a pending reflection blocks recovery.       *)
evaluate(state, outcomes, now) ==
    LET pattern == pattern_level(outcomes, now, state.anchor)
        dates == recovery_dates(outcomes, now, state.anchor)
    IN  IF pattern > state.level THEN Escalated(state, pattern)
        ELSE IF state.level = 1 \/ state.required \/ Cardinality(dates) < RECOVERY_DAYS
        THEN state
        ELSE Reduced(state, dates)

-----------------------------------------------------------------------------
(* AccountabilityService *)

(* Fault: leaving the escalated levels resolves no flag.                      *)
ResolveNothing(previous, next) ==
    /\ openFlags' =
         openFlags \cup ({<<next.episode, l>> : l \in {next.level} \cap (3..5)} \ oldFlags)
    /\ UNCHANGED oldFlags

(* _level_changed(): a flag per episode and level, unless its dedupe key is   *)
(* taken; below level 3 every open flag of the episode is resolved.           *)
_level_changed(previous, next) ==
    LET key == <<next.episode, next.level>>
        mine == {f \in openFlags : f[1] = next.episode}
    IN  IF next.level = previous.level THEN UNCHANGED <<openFlags, oldFlags>>
        ELSE IF next.level >= 3
        THEN /\ openFlags' = openFlags \cup ({key} \ oldFlags)
             /\ UNCHANGED oldFlags
        ELSE /\ openFlags' = openFlags \ mine
             /\ oldFlags' = oldFlags \cup mine

(* The locked part of evaluate_source(): what the reads said is applied to    *)
(* the current row.                                                           *)
Apply(state, outcomes, now) ==
    LET next == evaluate(state, outcomes, now)
    IN  /\ row' = next
        /\ reductions' = reductions + (IF next.level < state.level THEN 1 ELSE 0)
        /\ _level_changed(state, next)

InFlight(kind, o, st) ==
    [kind |-> kind, occurrence |-> o, wrote |-> st[o], now |-> today,
     outcomes |-> day_outcomes(st, today), found |-> "unread"]

OtherLocks(o) == \E p \in Process : txn[p].kind = "checkin" /\ txn[p].occurrence = o

Unescalated == UNCHANGED <<row, openFlags, oldFlags, reductions>>
Elsewhere == UNCHANGED <<today, paused, openPause, reflections>>

(* A check-in locks its occurrence, writes the status and then, through       *)
(* checkin_hook(), reads the occurrences with that status among them.         *)
BeginCheckin(p, o, new) ==
    /\ txn[p] = NoTxn
    /\ status[o] = "Open" /\ ~ OtherLocks(o)
    /\ txn' = [txn EXCEPT ![p] = InFlight("checkin", o, [status EXCEPT ![o] = new])]
    /\ Elsewhere /\ Unescalated /\ UNCHANGED status

(* evaluate_user() takes a source with recent occurrences or still escalated. *)
BeginSweep(p) ==
    /\ txn[p] = NoTxn
    /\ \/ \E o \in Occurrence : window_start(today) <= DayOf[o] /\ DayOf[o] <= today
       \/ row.level > 1
    /\ txn' = [txn EXCEPT ![p] = InFlight("sweep", CHOOSE o \in Occurrence : TRUE, status)]
    /\ Elsewhere /\ Unescalated /\ UNCHANGED status

Commit(p) ==
    /\ txn' = [txn EXCEPT ![p] = NoTxn]
    /\ status' = IF txn[p].kind = "checkin"
                 THEN [status EXCEPT ![txn[p].occurrence] = txn[p].wrote] ELSE status
    /\ Elsewhere

(* The row exists: it is locked, evaluated and written.                       *)
EvaluateLocked(p) ==
    /\ txn[p] # NoTxn /\ txn[p].found = "unread" /\ row.episode # 0
    /\ Apply(row, txn[p].outcomes, txn[p].now)
    /\ Commit(p)

(* There is no row to lock, so another transaction may insert it meanwhile.   *)
FindNoRow(p) ==
    /\ txn[p] # NoTxn /\ txn[p].found = "unread" /\ row.episode = 0
    /\ txn' = [txn EXCEPT ![p].found = "none"]
    /\ Elsewhere /\ Unescalated /\ UNCHANGED status

FirstLevel(p) == evaluate(BASELINE, txn[p].outcomes, txn[p].now).level

(* Persistent state exists only once a source reaches level 3.                *)
CommitWithoutRow(p) ==
    /\ txn[p] # NoTxn /\ txn[p].found = "none" /\ FirstLevel(p) < 3
    /\ Unescalated /\ Commit(p)

InsertRow(p) ==
    /\ txn[p] # NoTxn /\ txn[p].found = "none" /\ FirstLevel(p) >= 3
    /\ row.episode = 0
    /\ Apply(BASELINE, txn[p].outcomes, txn[p].now)
    /\ Commit(p)

(* The insert meets the unique constraint of the source, or the request fails *)
(* or dies: everything it wrote is rolled back.                               *)
Rollback(p) ==
    /\ txn[p] # NoTxn
    /\ txn' = [txn EXCEPT ![p] = NoTxn]
    /\ Elsewhere /\ Unescalated /\ UNCHANGED status

(* submit_reflection(): with the row locked, clears the gate and evaluates    *)
(* the source again.                                                          *)
submit_reflection ==
    /\ row.required
    /\ reflections' = [reflections EXCEPT ![row.episode] = @ + 1]
    /\ Apply([row EXCEPT !.required = FALSE, !.done = TRUE], day_outcomes(status, today), today)
    /\ UNCHANGED <<today, status, paused, openPause, txn>>

-----------------------------------------------------------------------------
(* Around the engine *)

Still == UNCHANGED <<status, reflections, txn>> /\ Unescalated

(* HabitService.pause() and resume().  A pause that never took effect is      *)
(* deleted, another one ends yesterday.  Bound: one pause takes effect.       *)
pause(start) ==
    /\ Pausable /\ openPause = NoDay /\ start >= today
    /\ paused = {}
    /\ openPause' = start
    /\ UNCHANGED <<today, paused>> /\ Still

resume ==
    /\ openPause # NoDay
    /\ openPause' = NoDay
    /\ paused' = paused \cup (openPause .. (today - 1))
    /\ UNCHANGED today /\ Still

(* Midnight passes, or the User changes to a zone where it is another date.   *)
NewDay ==
    /\ today < MaxDay
    /\ today' = today + 1
    /\ UNCHANGED <<paused, openPause>> /\ Still

TravelBack ==
    /\ today > 1
    /\ today' = today - 1
    /\ UNCHANGED <<paused, openPause>> /\ Still

Next ==
    \/ \E p \in Process :
         \/ \E o \in Occurrence, new \in {"Completed", "Skipped"} : BeginCheckin(p, o, new)
         \/ BeginSweep(p)
         \/ EvaluateLocked(p)
         \/ FindNoRow(p)
         \/ CommitWithoutRow(p)
         \/ InsertRow(p)
         \/ Rollback(p)
    \/ submit_reflection
    \/ \E start \in Day : pause(start)
    \/ resume
    \/ NewDay
    \/ TravelBack

Spec == Init /\ [][Next]_vars

-----------------------------------------------------------------------------
(* Every row and flag is within its range.                                    *)
TypeOK ==
    /\ today \in Day /\ paused \subseteq Day /\ openPause \in Day \cup {NoDay}
    /\ status \in [Occurrence -> {"Open", "Completed", "Skipped"}]
    /\ row \in [level : Level, required : BOOLEAN, done : BOOLEAN,
                anchor : Day \cup {NoDay}, episode : Episode \cup {0}]
    /\ openFlags \subseteq Episode \X (3..5) /\ oldFlags \subseteq Episode \X (3..5)
    /\ reflections \in [Episode -> Nat] /\ reductions \in Nat
    /\ \A p \in Process : txn[p].kind \in {"none", "checkin", "sweep"}

(* An episode that ever reached level 4 or 5 (its flag says so) is below that *)
(* level only with a reflection written for it, and asks for one otherwise.   *)
ReflectionGate ==
    \A f \in openFlags \cup oldFlags :
        (f[1] = row.episode /\ f[2] >= 4 /\ reflections[f[1]] = 0) =>
            (row.required /\ row.level >= f[2])

(* No episode makes the User write a second reflection, however often it      *)
(* escalates.                                                                 *)
OneReflection == \A e \in Episode : reflections[e] <= 1

(* Each recovery is paid for with completions on RECOVERY_DAYS days of its    *)
(* own: no completed day lowers the level twice, whatever the order of        *)
(* evaluations, midnights and changes of zone.                                *)
RecoveryPaid ==
    reductions * RECOVERY_DAYS
        <= Cardinality({DayOf[o] : o \in {q \in Occurrence : status[q] = "Completed"}})

(* An open flag belongs to the current episode and the source is at level 3   *)
(* or above: leaving the escalated levels leaves no flag behind.              *)
NoStaleFlag == \A f \in openFlags : f[1] = row.episode /\ row.level >= 3

(* A skip is reflected without waiting for the sweep: once a check-in of a    *)
(* skip has committed, the level covers what the committed check-ins imply on *)
(* the local date it was made, unless this very evaluation applied a recovery.*)
SkipReflected ==
    [][ \A p \in Process :
          (status' # status /\ txn[p].kind = "checkin" /\ txn'[p] = NoTxn
             /\ txn[p].wrote = "Skipped" /\ reductions' = reductions)
          => row'.level >= pattern_level(day_outcomes(status', txn[p].now), txn[p].now,
                                         row'.anchor) ]_vars

(* An evaluation repeated with no new check-in changes nothing: right after   *)
(* an evaluation, evaluating again on the same local date keeps the level.    *)
Idempotent ==
    [][ (\E p \in Process : (EvaluateLocked(p) \/ InsertRow(p)) /\ txn[p].now = today)
          => evaluate(row', day_outcomes(status', today), today).level = row'.level ]_vars

(* A source at level 3 or above has an open flag of its episode.              *)
EscalationFlagged == row.level >= 3 => \E f \in openFlags : f[1] = row.episode
=============================================================================
