----------------------------- MODULE Idempotency -----------------------------
(* domain/idempotency.py: the two-phase claim behind every mutating request.  *)
(* The module follows the requests that carry one (user, key) pair; requests  *)
(* with other pairs touch other rows.  Each transaction of run() is a step,   *)
(* taken when it commits, except that _claim() reads the row before the       *)
(* UPDATE of _reclaim() and other transactions may commit in between.         *)
EXTENDS Integers, FiniteSets

CONSTANTS
    Request,      \* the requests that arrive with the key
    Fingerprint,  \* request bodies, as their fingerprints
    RETENTION,    \* a record answers duplicates for this long
    STALE_AFTER,  \* a processing record this old is taken for a crash
    MaxRun,       \* longest time from _claim() to the end of run(), crashes aside
    MaxTime       \* bound: the clock stops here

ASSUME TimesAssumption ==
    /\ RETENTION \in Nat \ {0} /\ STALE_AFTER \in Nat \ {0}
    /\ MaxRun \in Nat /\ MaxTime \in Nat

VARIABLES
    clock,
    record,   \* the idempotency_records row
    pc,       \* where each request is in run()
    now,      \* the instant each request read at the start of _claim()
    fp,       \* the fingerprint of each request
    answer,   \* for a replayed request, the execution whose result it got
    effects   \* committed executions: the request, when it claimed and when it committed

vars == <<clock, record, pc, now, fp, answer, effects>>

NoTime == -1
NoOne == "no one"

ASSUME NamesAssumption == NoOne \notin Request \cup Fingerprint

InClaim == {"look", "reclaim"}
InPhase2 == {"run", "failing"}
Answered == {"done", "replayed", "in_progress", "key_reused", "failed"}

Init ==
    /\ clock = 0
    /\ record = [status |-> "absent", fp |-> NoOne, updated |-> NoTime,
                 expires |-> NoTime, result |-> NoOne]
    /\ pc = [r \in Request |-> "idle"]
    /\ now = [r \in Request |-> NoTime]
    /\ fp = [r \in Request |-> NoOne]
    /\ answer = [r \in Request |-> NoOne]
    /\ effects = {}

(* Time passes, but no live request outlasts MaxRun.                          *)
Tick ==
    /\ clock < MaxTime
    /\ \A r \in Request : pc[r] \in InClaim \cup InPhase2 => clock < now[r] + MaxRun
    /\ clock' = clock + 1
    /\ UNCHANGED <<record, pc, now, fp, answer, effects>>

-----------------------------------------------------------------------------
(* Phase 1: _claim() *)

Claimed(r) ==
    [status |-> "processing", fp |-> fp[r], updated |-> now[r],
     expires |-> now[r] + RETENTION, result |-> NoOne]

Arrive(r, f) ==
    /\ pc[r] = "idle"
    /\ pc' = [pc EXCEPT ![r] = "look"]
    /\ now' = [now EXCEPT ![r] = clock]
    /\ fp' = [fp EXCEPT ![r] = f]
    /\ UNCHANGED <<clock, record, answer, effects>>

(* Fault: the fingerprint of an existing record is not compared.              *)
VerdictAnyBody(r) ==
    LET expired == record.expires <= now[r]
    IN  CASE ~ expired /\ record.status = "completed" -> "replayed"
          [] ~ expired /\ record.status = "processing"
                       /\ record.updated > now[r] - STALE_AFTER -> "in_progress"
          [] OTHER -> "reclaim"

(* What _claim() makes of the existing record.                                *)
Verdict(r) ==
    LET expired == record.expires <= now[r]
    IN  CASE ~ expired /\ record.fp # fp[r] -> "key_reused"
          [] ~ expired /\ record.fp = fp[r] /\ record.status = "completed" -> "replayed"
          [] ~ expired /\ record.fp = fp[r] /\ record.status = "processing"
                       /\ record.updated > now[r] - STALE_AFTER -> "in_progress"
          [] OTHER -> "reclaim"

(* INSERT ... ON CONFLICT DO NOTHING won: the key is claimed.                 *)
Insert(r) ==
    /\ pc[r] = "look"
    /\ record.status = "absent"
    /\ record' = Claimed(r)
    /\ pc' = [pc EXCEPT ![r] = "run"]
    /\ UNCHANGED <<clock, now, fp, answer, effects>>

(* The insert found a row: read it and decide.                                *)
Look(r) ==
    /\ pc[r] = "look"
    /\ record.status # "absent"
    /\ pc' = [pc EXCEPT ![r] = Verdict(r)]
    /\ answer' = [answer EXCEPT ![r] = IF Verdict(r) = "replayed" THEN record.result ELSE @]
    /\ UNCHANGED <<clock, record, now, fp, effects>>

(* Fault: the takeover trusts the row as it was read.                         *)
ReclaimUnchecked(r) ==
    /\ pc[r] = "reclaim"
    /\ record' = Claimed(r)
    /\ pc' = [pc EXCEPT ![r] = "run"]
    /\ UNCHANGED <<clock, now, fp, answer, effects>>

Reclaimable(r) ==
    \/ record.status = "failed"
    \/ record.status = "processing" /\ record.updated <= now[r] - STALE_AFTER
    \/ record.expires <= now[r]

(* Fault: a takeover leaves the expiry of the first claim in place.           *)
ReclaimOldExpiry(r) ==
    /\ pc[r] = "reclaim"
    /\ IF Reclaimable(r)
       THEN /\ record' = [Claimed(r) EXCEPT !.expires = record.expires]
            /\ pc' = [pc EXCEPT ![r] = "run"]
       ELSE /\ pc' = [pc EXCEPT ![r] = "in_progress"]
            /\ UNCHANGED record
    /\ UNCHANGED <<clock, now, fp, answer, effects>>

(* The conditional UPDATE of _reclaim(): only one caller wins.                *)
Reclaim(r) ==
    /\ pc[r] = "reclaim"
    /\ IF Reclaimable(r)
       THEN /\ record' = Claimed(r)
            /\ pc' = [pc EXCEPT ![r] = "run"]
       ELSE /\ pc' = [pc EXCEPT ![r] = "in_progress"]
            /\ UNCHANGED record
    /\ UNCHANGED <<clock, now, fp, answer, effects>>

-----------------------------------------------------------------------------
(* Phase 2: the operation and the completion marker commit together *)

Commit(r) ==
    /\ pc[r] = "run"
    /\ effects' = effects \cup {[req |-> r, claimed |-> now[r], at |-> clock]}
    /\ record' = [record EXCEPT !.status = "completed", !.result = r, !.updated = clock]
    /\ pc' = [pc EXCEPT ![r] = "done"]
    /\ UNCHANGED <<clock, now, fp, answer>>

(* The operation raises: its transaction is rolled back ...                   *)
Raise(r) ==
    /\ pc[r] = "run"
    /\ pc' = [pc EXCEPT ![r] = "failing"]
    /\ UNCHANGED <<clock, record, now, fp, answer, effects>>

(* ... and another transaction marks the record failed, whoever claimed it.   *)
MarkFailed(r) ==
    /\ pc[r] = "failing"
    /\ record' = IF record.status = "processing"
                 THEN [record EXCEPT !.status = "failed", !.updated = clock]
                 ELSE record
    /\ pc' = [pc EXCEPT ![r] = "failed"]
    /\ UNCHANGED <<clock, now, fp, answer, effects>>

(* The process dies: whatever it had not committed is rolled back.            *)
Crash(r) ==
    /\ pc[r] \in InClaim \cup InPhase2
    /\ pc' = [pc EXCEPT ![r] = "dead"]
    /\ UNCHANGED <<clock, record, now, fp, answer, effects>>

Next ==
    \/ Tick
    \/ \E r \in Request, f \in Fingerprint : Arrive(r, f)
    \/ \E r \in Request : Insert(r)
    \/ \E r \in Request : Look(r)
    \/ \E r \in Request : Reclaim(r)
    \/ \E r \in Request : Commit(r)
    \/ \E r \in Request : Raise(r)
    \/ \E r \in Request : MarkFailed(r)
    \/ \E r \in Request : Crash(r)

Spec == Init /\ [][Next]_vars

-----------------------------------------------------------------------------
(* Properties *)

(* Every variable has its type, and the record holds a result exactly when it *)
(* is completed: no takeover or failure leaves an old result behind.          *)
TypeOK ==
    /\ clock \in Nat
    /\ record \in [status : {"absent", "processing", "completed", "failed"},
                   fp : Fingerprint \cup {NoOne}, updated : Int, expires : Int,
                   result : Request \cup {NoOne}]
    /\ record.status = "completed" <=> record.result # NoOne
    /\ pc \in [Request -> {"idle", "dead"} \cup InClaim \cup InPhase2 \cup Answered]
    /\ now \in [Request -> Int]
    /\ fp \in [Request -> Fingerprint \cup {NoOne}]
    /\ answer \in [Request -> Request \cup {NoOne}]
    /\ effects \subseteq [req : Request, claimed : Int, at : Int]

(* The key executes once per retention period (R15.5), whatever crashes,      *)
(* failures and concurrent duplicates happen: of two executions, one commits  *)
(* no earlier than RETENTION after the claim of the other.                    *)
ExecutedOnce ==
    \A e, f \in effects :
        e # f => e.claimed + RETENTION <= f.at \/ f.claimed + RETENTION <= e.at

(* A committed execution is remembered: until its claim expires the record is *)
(* completed and holds its result, so no late failure, takeover or duplicate  *)
(* can make the key run again.                                                *)
CompletedSticks ==
    \A e \in effects :
        clock < e.claimed + RETENTION =>
            record.status = "completed" /\ record.result = e.req

(* What the client of a request has been told; one whose process died hears  *)
(* nothing.                                                                   *)
Told(r) ==
    CASE pc[r] = "done" -> "executed"
      [] pc[r] = "replayed" -> "replayed"
      [] pc[r] \in {"in_progress", "key_reused", "failed"} -> "refused"
      [] OTHER -> "none"

Promise == INSTANCE OncePerPeriod WITH
    body <- fp,
    reply <- [r \in Request |-> Told(r)],
    source <- answer,
    memory <- IF record.status = "completed"
              THEN [req |-> record.result, until |-> record.expires]
              ELSE [req |-> NoOne, until |-> 0]

(* run() keeps the promise of OncePerPeriod, whatever dies or fails between   *)
(* its transactions: claiming, taking over and failing do nothing the client  *)
(* can tell, a commit is an execution at a time when nothing is remembered, a *)
(* duplicate is told only the result of the same body, and a result is        *)
(* dropped no earlier than it expires.                                        *)
ImplementsOncePerPeriod == Promise!Spec
=============================================================================
