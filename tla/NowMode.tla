------------------------------- MODULE NowMode -------------------------------
(* The pure rules of domain/now_mode.py: what the User should be doing now.   *)
(* Actions with equal keys are ordered by their random ids, so the candidate  *)
(* that comes first is a set here, any member of which may be it.             *)
EXTENDS Integers

OPEN_STATUSES == {"Planned", "Started"}

(* The order of the current block: started ones, earlier ones, higher goals.  *)
Sooner(a, b) ==
    LET late(v) == IF v.status = "Started" THEN 0 ELSE 1
    IN  \/ late(a) < late(b)
        \/ late(a) = late(b) /\ a.start < b.start
        \/ late(a) = late(b) /\ a.start = b.start /\ a.priority > b.priority

Foremost(views) == {a \in views : \A b \in views : ~ Sooner(b, a)}

current_block(views, at) ==
    {a \in views : a.start <= at /\ at < a.end /\ a.status \in OPEN_STATUSES}

(* Fault: an action is behind only after the instant it ends at.              *)
LateAfterEnd(views, at) == {a \in views : at > a.end /\ a.status \in OPEN_STATUSES}

behind_schedule(views, at) == {a \in views : at >= a.end /\ a.status \in OPEN_STATUSES}

next_unstarted(views, at) ==
    LET upcoming == {a \in views : a.start > at /\ a.status = "Planned"}
    IN  {a \in upcoming : \A b \in upcoming : a.start <= b.start}

(* The recommendation with its kind; the buffer only when the day holds       *)
(* nothing else.                                                              *)
plan(views, at, buffer) ==
    LET current == current_block(views, at)
        upcoming == next_unstarted(views, at)
        ids(S) == {a.id : a \in S}
    IN  [recommended |-> IF current # {} THEN ids(Foremost(current))
                         ELSE IF upcoming # {} THEN ids(upcoming) ELSE buffer,
         behind |-> ids(behind_schedule(views, at))]
=============================================================================
