------------------------------ MODULE Integrity ------------------------------
(* Local dates (domain/timeutil.py) and the Personal Integrity Score rules of *)
(* domain/integrity.py and domain/proactive.py, as operators on plain values. *)
(* An instant is a number of ticks; a User's zone is an offset in ticks added *)
(* to the UTC instant.  A change of offset stands for a move between zones    *)
(* and for a DST switch alike: both make a local day shorter or longer.       *)
EXTENDS Integers, FiniteSets

CONSTANTS
    DayLen,      \* ticks in a local day
    WindowDays   \* length of the score window in local days (WINDOW_DAYS = 30)

ASSUME DayLenAssumption == DayLen \in Nat \ {0}
ASSUME WindowDaysAssumption == WindowDays \in Nat \ {0}

(* The local calendar date of an instant, and the instant it starts and ends. *)
local_date(t, tz) == (t + tz) \div DayLen
day_start(d, tz) == d * DayLen - tz
day_end(d, tz) == (d + 1) * DayLen - tz

-----------------------------------------------------------------------------
NoScore == -1

(* Kept / (Kept + Broken + OverdueDeferred) x 100, half-up to one decimal, in *)
(* tenths of a percent; no score without resolved commitments.                *)
integrity_score(kept, broken, overdue) ==
    LET n == kept + broken + overdue
    IN  IF n = 0 THEN NoScore ELSE (2000 * kept + n) \div (2 * n)

window_first_day(today) == today - (WindowDays - 1)

crossed_below(previous, current, threshold) ==
    /\ current # NoScore
    /\ current < 10 * threshold
    /\ previous = NoScore \/ previous >= 10 * threshold

(* The three counts over a ledger: a function from commitments to rows with   *)
(* the fields status, resolved (kept_at / broken_at) and due.                 *)
compute(ledger, today, tz) ==
    LET first == window_first_day(today)
        InWindow(t) == day_start(first, tz) <= t /\ t < day_end(today, tz)
        Resolved(s) == {c \in DOMAIN ledger :
                          ledger[c].status = s /\ InWindow(ledger[c].resolved)}
    IN  [kept    |-> Cardinality(Resolved("Kept")),
         broken  |-> Cardinality(Resolved("Broken")),
         overdue |-> Cardinality({c \in DOMAIN ledger :
                                    /\ ledger[c].status = "Deferred"
                                    /\ first <= ledger[c].due
                                    /\ ledger[c].due < today})]

ScoreOf(counts) == integrity_score(counts.kept, counts.broken, counts.overdue)

(* snapshots maps the local dates that have a snapshot row to its counts.     *)
(* The score read as `previous` is that of the latest one not after today.    *)
PreviousScore(snapshots, today) ==
    LET past == {d \in DOMAIN snapshots : d <= today}
    IN  IF past = {} THEN NoScore
        ELSE ScoreOf(snapshots[CHOOSE d \in past : \A e \in past : e <= d])

Upsert(snapshots, today, counts) ==
    [d \in DOMAIN snapshots \cup {today} |->
        IF d = today THEN counts ELSE snapshots[d]]

(* flags maps the dates of the dedupe keys in use to "open" or "resolved".    *)
(* INSERT ... ON CONFLICT DO NOTHING: a key in use keeps its row as it is.    *)
raise_flag(flags, day) ==
    [d \in DOMAIN flags \cup {day} |->
        IF d \in DOMAIN flags THEN flags[d] ELSE "open"]

resolve_flags(flags) == [d \in DOMAIN flags |-> "resolved"]

(* The flag table after refresh() computed `counts` for today.                *)
FlagsAfter(flags, snapshots, today, counts, threshold) ==
    LET score == ScoreOf(counts)
    IN  IF crossed_below(PreviousScore(snapshots, today), score, threshold)
        THEN raise_flag(flags, today)
        ELSE IF score # NoScore /\ score >= 10 * threshold
             THEN resolve_flags(flags)
             ELSE flags
=============================================================================
