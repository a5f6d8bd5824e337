----------------------------- MODULE Completion -----------------------------
(* Completion Rate (domain/analytics/completion.py).  A snapshot of a Daily   *)
(* Action is [date, created, cancelled, checkins], its check-ins a sequence   *)
(* of [at, previous, new] in the order the database returns them.             *)
EXTENDS Integers, Sequences, FiniteSets, FiniteSetsExt

NotYet == -1
Status == {"Planned", "Started", "Skipped", "Completed"}

(* Fault: the first record of the latest instant.                             *)
HeadsFirst(checkins, tied) == {k \in tied : \A j \in tied : k <= j}

(* The records of one instant no other of them leads on from.                 *)
Heads(checkins, tied) == {k \in tied : checkins[k].new \notin {checkins[j].previous : j \in tied}}

(* Records are known by their places in the list.                             *)
status_as_of(checkins, as_of) ==
    LET visible == {k \in DOMAIN checkins : checkins[k].at <= as_of}
        tied == {k \in visible : \A j \in visible : checkins[j].at <= checkins[k].at}
        heads == Heads(checkins, tied)
    IN  IF visible = {} THEN "Planned"
        ELSE checkins[Max(IF heads # {} THEN heads ELSE tied)].new

(* What compute() counts.                                                     *)
Counted(snap, start, end, as_of) ==
    /\ start <= snap.date /\ snap.date <= end
    /\ snap.created <= as_of
    /\ ~ (snap.cancelled # NotYet /\ snap.cancelled <= as_of)

(* How many snapshots have each status.                                       *)
compute(snaps, start, end, as_of) ==
    [s \in Status |-> Cardinality({x \in DOMAIN snaps : /\ Counted(snaps[x], start, end, as_of)
                                                        /\ status_as_of(snaps[x].checkins, as_of) = s})]

(* Fault: a closed period is evaluated as of now.                             *)
AsOfNow(now, period_end) == now

(* load_snapshots(): the evaluation instant.                                  *)
AsOf(now, period_end) == IF now <= period_end THEN now ELSE period_end
=============================================================================
