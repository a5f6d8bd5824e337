---------------------------- MODULE HabitMetrics ----------------------------
(* Streaks and misses of a habit (domain/habit_metrics.py).                   *)
(* A habit is [daily, days, target, first, last, pauses]: whether it recurs   *)
(* daily, else on which weekdays; how often a week; its first and last date;  *)
(* the dates <<starts_on, ends_on>> of its pauses.  Records map dates to      *)
(* results.  Dates count from a Monday.                                       *)
EXTENDS Integers, Sequences, FiniteSets, Functions, SequencesExt

CONSTANTS
    Week      \* days in a week

ASSUME WeekAssumption == Week \in Nat \ {0}

Never == -1
Nothing == "none"
Result == {"completed", "skipped", "partial"}

iso_week_start(d) == d - (d % Week)

period_kind(h) == IF h.daily /\ h.target = 1 THEN "day" ELSE "week"
Step(h) == IF period_kind(h) = "day" THEN 1 ELSE Week

(* Fault: the last date of a pause is not paused.                             *)
PausedUntil(h, d) == \E p \in h.pauses : p[1] <= d /\ (p[2] = Never \/ d < p[2])

is_paused(h, d) == \E p \in h.pauses : p[1] <= d /\ (p[2] = Never \/ d <= p[2])

is_scheduled(h, d) ==
    /\ h.first <= d /\ (h.last = Never \/ d <= h.last) /\ ~ is_paused(h, d)
    /\ h.daily \/ d % Week \in h.days

(* The first dates of the periods up to as_of.                                *)
_periods(h, as_of) ==
    LET start == IF period_kind(h) = "day" THEN h.first ELSE iso_week_start(h.first)
    IN  IF as_of < start THEN <<>>
        ELSE [i \in 1..((as_of - start) \div Step(h) + 1) |-> start + (i - 1) * Step(h)]

Days(h, start) == start..(start + Step(h) - 1)

PeriodStat(h, records, as_of, start) ==
    LET scheduled == {d \in Days(h, start) : is_scheduled(h, d)}
        n == Cardinality(scheduled)
    IN  [end |-> start + Step(h) - 1,
         completed |-> Cardinality({d \in Days(h, start) : /\ d <= as_of /\ ~ is_paused(h, d)
                                                           /\ records[d] = "completed"}),
         required |-> IF h.target <= n THEN h.target ELSE n,
         in_progress |-> start + Step(h) - 1 >= as_of]

excluded(stat) == stat.required = 0
met(stat) == ~ excluded(stat) /\ stat.completed >= stat.required

Stats(h, records, as_of) ==
    LET p == _periods(h, as_of)
    IN  [i \in 1..Len(p) |-> PeriodStat(h, records, as_of, p[i])]

(* Fault: an unfinished period breaks the streak.                             *)
SkippedIfExcluded(stat) == excluded(stat)

(* Neither breaks nor extends a streak.                                       *)
Skipped(stat) == excluded(stat) \/ (stat.in_progress /\ ~ met(stat))

(* From the end, the met periods before one that breaks the streak.           *)
current_streak(stats) ==
    Cardinality({i \in DOMAIN stats : /\ met(stats[i]) /\ ~ Skipped(stats[i])
                                      /\ \A j \in i..Len(stats) : met(stats[j]) \/ Skipped(stats[j])})

longest_streak(stats) ==
    LET run[i \in 0..Len(stats)] ==
          IF i = 0 THEN 0
          ELSE IF Skipped(stats[i]) THEN run[i - 1]
          ELSE IF met(stats[i]) THEN run[i - 1] + 1 ELSE 0
    IN  CHOOSE n \in Range(run) : \A i \in DOMAIN run : run[i] <= n

missed(h, records, as_of) ==
    Cardinality({d \in UNION {Days(h, start) : start \in ToSet(_periods(h, as_of))} :
                   /\ d < as_of /\ is_scheduled(h, d)
                   /\ records[d] \notin {"completed", "partial"}})

compute_metrics(h, records, as_of) ==
    LET stats == Stats(h, records, as_of)
    IN  [current |-> current_streak(stats), longest |-> longest_streak(stats),
         missed |-> missed(h, records, as_of)]
=============================================================================
