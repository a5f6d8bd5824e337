-------------------------- MODULE IdempotencyProofs --------------------------
(* Machine-checked theorems about the specification of module Idempotency.    *)
(* The clock has no bound here: MaxTime is any natural number.                *)
EXTENDS Idempotency, TLAPS

(* What _claim() counts on when it takes a processing record for a crash: a   *)
(* live request ends before its record goes stale, and before it expires.     *)
Prompt == MaxRun < STALE_AFTER /\ MaxRun < RETENTION

Live(r) == pc[r] \in InClaim \cup InPhase2

(* A request has no body before it arrives and one while it is served, and a  *)
(* live one has been served for no longer than MaxRun.                        *)
Served ==
    \A r \in Request :
        /\ pc[r] = "idle" => fp[r] = NoOne
        /\ Live(r) => fp[r] # NoOne /\ 0 <= now[r] /\ now[r] <= clock /\ clock <= now[r] + MaxRun

(* A request in phase 2 owns the record: it is the one the request claimed,   *)
(* and no other request is in phase 2.                                        *)
Owned ==
    \A r \in Request :
        pc[r] \in InPhase2 =>
            /\ record = Claimed(r)
            /\ \A q \in Request \ {r} : pc[q] \notin InPhase2

(* The record of an execution is its own until its claim expires.             *)
Remembered ==
    \A e \in effects :
        /\ e.at <= clock
        /\ clock < e.claimed + RETENTION =>
               record.status = "completed" /\ record.result = e.req
                                           /\ record.expires = e.claimed + RETENTION

(* A completed record carries the body of the request whose result it holds,  *)
(* which has been told so.                                                    *)
ResultOfBody ==
    record.status = "completed" => record.result \in Request /\ record.fp = fp[record.result]
                                   /\ pc[record.result] # "idle"

(* The inductive invariant.                                                   *)
IInv == TypeOK /\ Served /\ Owned /\ Remembered /\ ExecutedOnce /\ ResultOfBody

-----------------------------------------------------------------------------
(* Type correctness *)

(* What _claim() decides is one of four verdicts, and a replay is of a        *)
(* completed record with the body of the request.                             *)
LEMMA VerdictCases ==
  ASSUME TypeOK, NEW r \in Request
  PROVE  /\ Verdict(r) \in {"key_reused", "replayed", "in_progress", "reclaim"}
         /\ Verdict(r) = "replayed" => record.status = "completed" /\ record.fp = fp[r]
  BY DEF Verdict

(* The record a claim writes is well formed.                                  *)
LEMMA ClaimedOK ==
  ASSUME TypeOK, NEW r \in Request
  PROVE  /\ Claimed(r) \in [status : {"absent", "processing", "completed", "failed"},
                            fp : Fingerprint \cup {NoOne}, updated : Int, expires : Int,
                            result : Request \cup {NoOne}]
         /\ Claimed(r).status = "processing" /\ Claimed(r).result = NoOne
         /\ Claimed(r).expires = now[r] + RETENTION
         /\ Claimed(r).fp = fp[r]
  BY TimesAssumption DEF TypeOK, Claimed

(* Every step of run() and of the clock keeps the types.                      *)
LEMMA TypeStep == TypeOK /\ [Next]_vars => TypeOK'
  <1> SUFFICES ASSUME TypeOK, [Next]_vars PROVE TypeOK'
    OBVIOUS
  <1>1. CASE Tick
    BY <1>1 DEF Tick, TypeOK
  <1>2. ASSUME NEW r \in Request, NEW f \in Fingerprint, Arrive(r, f) PROVE TypeOK'
    BY <1>2 DEF Arrive, TypeOK, InClaim
  <1>3. ASSUME NEW r \in Request, Insert(r) PROVE TypeOK'
    BY <1>3, ClaimedOK DEF Insert, TypeOK, InPhase2
  <1>4. ASSUME NEW r \in Request, Look(r) PROVE TypeOK'
    BY <1>4, VerdictCases DEF Look, TypeOK, InClaim, Answered
  <1>5. ASSUME NEW r \in Request, Reclaim(r) PROVE TypeOK'
    BY <1>5, ClaimedOK DEF Reclaim, TypeOK, InPhase2, Answered
  <1>6. ASSUME NEW r \in Request, Commit(r) PROVE TypeOK'
    <2>1. [req |-> r, claimed |-> now[r], at |-> clock] \in [req : Request, claimed : Int, at : Int]
      BY DEF TypeOK
    <2>2. effects' \subseteq [req : Request, claimed : Int, at : Int]
      BY <1>6, <2>1 DEF Commit, TypeOK
    <2>3. r # NoOne
      BY NamesAssumption
    <2>4. QED
      BY <1>6, <2>2, <2>3 DEF Commit, TypeOK, Answered
  <1>7. ASSUME NEW r \in Request, Raise(r) PROVE TypeOK'
    BY <1>7 DEF Raise, TypeOK, InPhase2
  <1>8. ASSUME NEW r \in Request, MarkFailed(r) PROVE TypeOK'
    <2>1. CASE record.status = "processing"
      <3>1. record' = [record EXCEPT !.status = "failed", !.updated = clock] /\ clock \in Int
        BY <1>8, <2>1 DEF MarkFailed, TypeOK
      <3>2. /\ record' \in [status : {"absent", "processing", "completed", "failed"},
                            fp : Fingerprint \cup {NoOne}, updated : Int, expires : Int,
                            result : Request \cup {NoOne}]
            /\ record'.status = "failed" /\ record'.result = NoOne
        BY <2>1, <3>1 DEF TypeOK
      <3>3. QED
        BY <1>8, <3>2 DEF MarkFailed, TypeOK, Answered
    <2>2. CASE record.status # "processing"
      BY <1>8, <2>2 DEF MarkFailed, TypeOK, Answered
    <2>3. QED
      BY <2>1, <2>2
  <1>9. ASSUME NEW r \in Request, Crash(r) PROVE TypeOK'
    BY <1>9 DEF Crash, TypeOK
  <1>10. CASE UNCHANGED vars
    BY <1>10 DEF vars, TypeOK
  <1>11. QED
    BY <1>1, <1>2, <1>3, <1>4, <1>5, <1>6, <1>7, <1>8, <1>9, <1>10 DEF Next

(* run() keeps the types whatever MaxRun is, and a record holds a result      *)
(* exactly when it is completed: neither a takeover nor _fail() leaves the    *)
(* result of an earlier execution in a record that is not.                    *)
THEOREM TypeCorrect == Spec => []TypeOK
  <1>1. Init => TypeOK
    BY DEF Init, TypeOK, NoTime
  <1>2. QED
    BY <1>1, TypeStep, PTL DEF Spec

-----------------------------------------------------------------------------
(* The claim is exclusive *)

(* Time, arrivals and the steps of a request keep Served: this is where the   *)
(* clock waits for the live requests.                                         *)
LEMMA ServedStep == TypeOK /\ Served /\ [Next]_vars => Served'
  <1> SUFFICES ASSUME TypeOK, Served, [Next]_vars PROVE Served'
    OBVIOUS
  <1> USE DEF Served, Live, InClaim, InPhase2
  <1>1. CASE Tick
    <2> SUFFICES ASSUME NEW r \in Request, Live(r)
                 PROVE  0 <= now[r] /\ now[r] <= clock + 1 /\ clock + 1 <= now[r] + MaxRun
      BY <1>1 DEF Tick
    <2>1. clock < now[r] + MaxRun /\ 0 <= now[r] /\ now[r] <= clock
      BY <1>1 DEF Tick
    <2>2. QED
      BY <2>1, TimesAssumption DEF TypeOK
  <1>2. ASSUME NEW r \in Request, NEW f \in Fingerprint, Arrive(r, f) PROVE Served'
    BY <1>2, NamesAssumption, TimesAssumption DEF Arrive, TypeOK
  <1>3. ASSUME NEW r \in Request, Insert(r) PROVE Served'
    BY <1>3 DEF Insert, TypeOK
  <1>4. ASSUME NEW r \in Request, Look(r) PROVE Served'
    BY <1>4, VerdictCases DEF Look, TypeOK
  <1>5. ASSUME NEW r \in Request, Reclaim(r) PROVE Served'
    BY <1>5 DEF Reclaim, TypeOK
  <1>6. ASSUME NEW r \in Request, Commit(r) PROVE Served'
    BY <1>6 DEF Commit, TypeOK
  <1>7. ASSUME NEW r \in Request, Raise(r) PROVE Served'
    BY <1>7 DEF Raise, TypeOK
  <1>8. ASSUME NEW r \in Request, MarkFailed(r) PROVE Served'
    BY <1>8 DEF MarkFailed, TypeOK
  <1>9. ASSUME NEW r \in Request, Crash(r) PROVE Served'
    BY <1>9 DEF Crash, TypeOK
  <1>10. CASE UNCHANGED vars
    BY <1>10 DEF vars
  <1>11. QED
    BY <1>1, <1>2, <1>3, <1>4, <1>5, <1>6, <1>7, <1>8, <1>9, <1>10 DEF Next

(* When requests are prompt, the conditional UPDATE of _reclaim() never finds *)
(* the record of a request that is still in phase 2.                          *)
LEMMA ReclaimFindsNoOwner ==
  ASSUME Prompt, TypeOK, Served, Owned, NEW r \in Request, pc[r] = "reclaim", Reclaimable(r)
  PROVE  \A q \in Request : pc[q] \notin InPhase2
  <1> SUFFICES ASSUME NEW q \in Request, pc[q] \in InPhase2 PROVE FALSE
    OBVIOUS
  <1>1. record.status = "processing" /\ record.updated = now[q]
          /\ record.expires = now[q] + RETENTION
    BY DEF Owned, Claimed
  <1>2. now[r] <= clock /\ clock <= now[q] + MaxRun
    BY DEF Served, Live, InClaim
  <1>3. now[q] <= now[r] - STALE_AFTER \/ now[q] + RETENTION <= now[r]
    BY <1>1 DEF Reclaimable
  <1>4. clock \in Int /\ now[r] \in Int /\ now[q] \in Int
    BY DEF TypeOK
  <1>5. QED
    BY <1>2, <1>3, <1>4, TimesAssumption DEF Prompt

(* So a request that enters phase 2 is alone in it, with its own record.      *)
LEMMA OwnedStep ==
  ASSUME Prompt
  PROVE  TypeOK /\ Served /\ Owned /\ [Next]_vars => Owned'
  <1> SUFFICES ASSUME TypeOK, Served, Owned, [Next]_vars PROVE Owned'
    OBVIOUS
  <1> USE DEF Owned, Claimed
  <1>1. CASE Tick
    BY <1>1 DEF Tick
  <1>2. ASSUME NEW r \in Request, NEW f \in Fingerprint, Arrive(r, f) PROVE Owned'
    BY <1>2 DEF Arrive, TypeOK, InPhase2
  <1>3. ASSUME NEW r \in Request, Insert(r) PROVE Owned'
    <2>1. \A q \in Request : pc[q] \notin InPhase2
      BY <1>3 DEF Insert
    <2>2. QED
      BY <1>3, <2>1 DEF Insert, TypeOK
  <1>4. ASSUME NEW r \in Request, Look(r) PROVE Owned'
    BY <1>4, VerdictCases DEF Look, TypeOK, InPhase2
  <1>5. ASSUME NEW r \in Request, Reclaim(r) PROVE Owned'
    <2>1. CASE Reclaimable(r)
      <3>1. \A q \in Request : pc[q] \notin InPhase2
        BY <1>5, <2>1, ReclaimFindsNoOwner DEF Reclaim
      <3>2. QED
        BY <1>5, <2>1, <3>1 DEF Reclaim, TypeOK
    <2>2. CASE ~ Reclaimable(r)
      BY <1>5, <2>2 DEF Reclaim, TypeOK, InPhase2
    <2>3. QED
      BY <2>1, <2>2
  <1>6. ASSUME NEW r \in Request, Commit(r) PROVE Owned'
    BY <1>6 DEF Commit, TypeOK, InPhase2
  <1>7. ASSUME NEW r \in Request, Raise(r) PROVE Owned'
    BY <1>7 DEF Raise, TypeOK, InPhase2
  <1>8. ASSUME NEW r \in Request, MarkFailed(r) PROVE Owned'
    BY <1>8 DEF MarkFailed, TypeOK, InPhase2
  <1>9. ASSUME NEW r \in Request, Crash(r) PROVE Owned'
    BY <1>9 DEF Crash, TypeOK, InPhase2
  <1>10. CASE UNCHANGED vars
    BY <1>10 DEF vars
  <1>11. QED
    BY <1>1, <1>2, <1>3, <1>4, <1>5, <1>6, <1>7, <1>8, <1>9, <1>10 DEF Next

-----------------------------------------------------------------------------
(* One execution per period *)

(* The instants of the committed executions are not in the future.            *)
LEMMA RememberedStep ==
  ASSUME Prompt
  PROVE  IInv /\ [Next]_vars => Remembered' /\ ExecutedOnce'
  <1> SUFFICES ASSUME IInv, [Next]_vars PROVE Remembered' /\ ExecutedOnce'
    OBVIOUS
  <1> USE DEF Remembered, ExecutedOnce
  <1>0. /\ TypeOK /\ Remembered /\ ExecutedOnce
        /\ clock \in Nat /\ RETENTION \in Nat
        /\ \A e \in effects : e.claimed \in Int /\ e.at \in Int
    BY TimesAssumption DEF IInv, TypeOK
  <1>1. CASE Tick
    BY <1>0, <1>1 DEF Tick
  <1>2. ASSUME NEW r \in Request, NEW f \in Fingerprint, Arrive(r, f)
        PROVE  Remembered' /\ ExecutedOnce'
    BY <1>0, <1>2 DEF Arrive
  <1>3. ASSUME NEW r \in Request, Insert(r) PROVE Remembered' /\ ExecutedOnce'
    BY <1>0, <1>3 DEF Insert
  <1>4. ASSUME NEW r \in Request, Look(r) PROVE Remembered' /\ ExecutedOnce'
    BY <1>0, <1>4 DEF Look
  <1>5. ASSUME NEW r \in Request, Reclaim(r) PROVE Remembered' /\ ExecutedOnce'
    <2>1. CASE Reclaimable(r)
      <3>1. now[r] <= clock /\ now[r] \in Int
        BY <1>5 DEF IInv, Served, Live, InClaim, Reclaim, TypeOK
      <3>2. \A e \in effects : ~ (clock < e.claimed + RETENTION)
        BY <1>0, <2>1, <3>1 DEF Reclaimable
      <3>3. QED
        BY <1>0, <1>5, <3>2 DEF Reclaim
    <2>2. CASE ~ Reclaimable(r)
      BY <1>0, <1>5, <2>2 DEF Reclaim
    <2>3. QED
      BY <2>1, <2>2
  <1>6. ASSUME NEW r \in Request, Commit(r) PROVE Remembered' /\ ExecutedOnce'
    <2> DEFINE new == [req |-> r, claimed |-> now[r], at |-> clock]
    <2>1. record = Claimed(r) /\ now[r] \in Int
      BY <1>6 DEF IInv, Owned, Commit, InPhase2, TypeOK
    <2>2. \A e \in effects : e.claimed + RETENTION <= clock
      BY <1>0, <2>1, ClaimedOK
    <2>3. effects' = effects \cup {new} /\ clock' = clock
      BY <1>6 DEF Commit
    <2>4. record'.status = "completed" /\ record'.result = r
          /\ record'.expires = now[r] + RETENTION
      BY <1>0, <1>6, <2>1, ClaimedOK DEF Commit, Claimed
    <2>5. Remembered'
      BY <1>0, <2>2, <2>3, <2>4
    <2>6. ExecutedOnce'
      BY <1>0, <2>2, <2>3
    <2>7. QED
      BY <2>5, <2>6
  <1>7. ASSUME NEW r \in Request, Raise(r) PROVE Remembered' /\ ExecutedOnce'
    BY <1>0, <1>7 DEF Raise
  <1>8. ASSUME NEW r \in Request, MarkFailed(r) PROVE Remembered' /\ ExecutedOnce'
    BY <1>0, <1>8 DEF MarkFailed
  <1>9. ASSUME NEW r \in Request, Crash(r) PROVE Remembered' /\ ExecutedOnce'
    BY <1>0, <1>9 DEF Crash
  <1>10. CASE UNCHANGED vars
    BY <1>0, <1>10 DEF vars
  <1>11. QED
    BY <1>1, <1>2, <1>3, <1>4, <1>5, <1>6, <1>7, <1>8, <1>9, <1>10 DEF Next

(* A record is completed only by the request that claimed it, so it carries   *)
(* that request's body.                                                       *)
LEMMA ResultOfBodyStep == IInv /\ [Next]_vars => ResultOfBody'
  <1> SUFFICES ASSUME IInv, [Next]_vars PROVE ResultOfBody'
    OBVIOUS
  <1> USE DEF ResultOfBody
  <1>0. TypeOK /\ ResultOfBody
    BY DEF IInv
  <1>1. CASE Tick
    BY <1>0, <1>1 DEF Tick
  <1>2. ASSUME NEW r \in Request, NEW f \in Fingerprint, Arrive(r, f) PROVE ResultOfBody'
    BY <1>0, <1>2 DEF Arrive, TypeOK
  <1>3. ASSUME NEW r \in Request, Insert(r) PROVE ResultOfBody'
    BY <1>0, <1>3, ClaimedOK DEF Insert
  <1>4. ASSUME NEW r \in Request, Look(r) PROVE ResultOfBody'
    BY <1>0, <1>4, VerdictCases DEF Look, TypeOK
  <1>5. ASSUME NEW r \in Request, Reclaim(r) PROVE ResultOfBody'
    BY <1>0, <1>5, ClaimedOK DEF Reclaim, TypeOK
  <1>6. ASSUME NEW r \in Request, Commit(r) PROVE ResultOfBody'
    <2>1. record = Claimed(r)
      BY <1>6 DEF IInv, Owned, Commit, InPhase2
    <2>2. record'.result = r /\ record'.fp = fp[r]
      BY <1>0, <1>6, <2>1, ClaimedOK DEF Commit, Claimed
    <2>3. QED
      BY <1>0, <1>6, <2>2 DEF Commit, TypeOK
  <1>7. ASSUME NEW r \in Request, Raise(r) PROVE ResultOfBody'
    BY <1>0, <1>7 DEF Raise, TypeOK
  <1>8. ASSUME NEW r \in Request, MarkFailed(r) PROVE ResultOfBody'
    BY <1>0, <1>8 DEF MarkFailed, TypeOK
  <1>9. ASSUME NEW r \in Request, Crash(r) PROVE ResultOfBody'
    BY <1>0, <1>9 DEF Crash, TypeOK
  <1>10. CASE UNCHANGED vars
    BY <1>0, <1>10 DEF vars
  <1>11. QED
    BY <1>1, <1>2, <1>3, <1>4, <1>5, <1>6, <1>7, <1>8, <1>9, <1>10 DEF Next

(* The invariant holds of every behaviour in which requests are prompt.       *)
LEMMA InvariantHolds ==
  ASSUME Prompt
  PROVE  Spec => []IInv
  <1>1. Init => IInv
    BY DEF Init, IInv, TypeOK, Served, Live, Owned, Remembered, ExecutedOnce, ResultOfBody,
           InClaim, InPhase2, NoTime
  <1>2. IInv /\ [Next]_vars => IInv'
    BY TypeStep, ServedStep, OwnedStep, RememberedStep, ResultOfBodyStep DEF IInv
  <1>3. QED
    BY <1>1, <1>2, PTL DEF Spec

(* When every live request ends before its record goes stale and before it    *)
(* expires, the key executes once per retention period, for any number of     *)
(* requests, bodies, crashes, failures and takeovers.                         *)
THEOREM OnceHolds ==
  ASSUME Prompt
  PROVE  Spec => []ExecutedOnce
  <1>1. IInv => ExecutedOnce
    BY DEF IInv
  <1>2. QED
    BY <1>1, InvariantHolds, PTL

(* Under the same condition a committed execution stays in the record until   *)
(* its claim expires: neither _fail() of a late request nor _reclaim() of a   *)
(* concurrent one touches a completed record that has not expired.            *)
THEOREM CompletedHolds ==
  ASSUME Prompt
  PROVE  Spec => []CompletedSticks
  <1>1. IInv => CompletedSticks
    BY DEF IInv, Remembered, CompletedSticks
  <1>2. QED
    BY <1>1, InvariantHolds, PTL

-----------------------------------------------------------------------------
(* The refinement of OncePerPeriod *)

Reply == [r \in Request |-> Told(r)]

Memory == IF record.status = "completed"
          THEN [req |-> record.result, until |-> record.expires]
          ELSE [req |-> NoOne, until |-> 0]

(* A step that moves one request changes no other request's reply.            *)
LEMMA ReplyMoves ==
  ASSUME TypeOK, NEW r \in Request, NEW s, pc' = [pc EXCEPT ![r] = s]
  PROVE  /\ s = "done" => Reply' = [Reply EXCEPT ![r] = "executed"]
         /\ s = "replayed" => Reply' = [Reply EXCEPT ![r] = "replayed"]
         /\ s \in {"in_progress", "key_reused", "failed"} =>
              Reply' = [Reply EXCEPT ![r] = "refused"]
         /\ s \in {"dead"} \cup InClaim \cup InPhase2 =>
              Reply' = [Reply EXCEPT ![r] = "none"]
  <1>1. \A q \in Request : pc'[q] = IF q = r THEN s ELSE pc[q]
    BY DEF TypeOK
  <1>2. Reply = [q \in Request |-> Told(q)]
    BY DEF Reply
  <1>3. Reply' = [q \in Request |-> Told(q)']
    BY DEF Reply
  <1>4. \A q \in Request \ {r} : Told(q)' = Told(q)
    BY <1>1 DEF Told
  <1>5. /\ s = "done" => Told(r)' = "executed"
        /\ s = "replayed" => Told(r)' = "replayed"
        /\ s \in {"in_progress", "key_reused", "failed"} => Told(r)' = "refused"
        /\ s \in {"dead"} \cup InClaim \cup InPhase2 => Told(r)' = "none"
    BY <1>1 DEF Told, InClaim, InPhase2
  <1>6. ASSUME NEW v, Told(r)' = v PROVE Reply' = [Reply EXCEPT ![r] = v]
    BY <1>2, <1>3, <1>4, <1>6
  <1>7. QED
    BY <1>5, <1>6

(* A live request has sent its body and has not been told anything.           *)
LEMMA LiveIsPending ==
  ASSUME TypeOK, Served, NEW r \in Request, Live(r)
  PROVE  fp[r] # NoOne /\ Reply[r] = "none" /\ [Reply EXCEPT ![r] = "none"] = Reply
  <1>1. fp[r] # NoOne
    BY DEF Served
  <1>2. Reply[r] = "none"
    BY DEF Reply, Told, Live, InClaim, InPhase2
  <1>3. [Reply EXCEPT ![r] = "none"] = Reply
    BY <1>2 DEF Reply
  <1>4. QED
    BY <1>1, <1>2, <1>3

(* Every step of run() is a step of OncePerPeriod or changes nothing that a   *)
(* client can tell.                                                           *)
LEMMA RefinementStep ==
  ASSUME Prompt, IInv, [Next]_vars
  PROVE  [Promise!Next]_(Promise!vars)
  <1> DEFINE Stutter == UNCHANGED <<clock, fp, Reply, answer, Memory>>
  <1>a. TypeOK /\ Served /\ Owned /\ ResultOfBody
    BY DEF IInv
  <1>b. Stutter => UNCHANGED Promise!vars
    BY DEF Promise!vars, Reply, Memory
  <1>c. ASSUME NEW r \in Request, Live(r), Reply' = [Reply EXCEPT ![r] = "refused"],
               UNCHANGED <<clock, fp, answer, Memory>>
        PROVE  Promise!Refuse(r)
    BY <1>a, <1>c, LiveIsPending
       DEF Promise!Refuse, Promise!Pending, Promise!NoOne, NoOne, Reply, Memory
  <1>1. ASSUME Tick PROVE Promise!Tick
    BY <1>1 DEF Tick, Promise!Tick, Told
  <1>2. ASSUME NEW r \in Request, NEW f \in Fingerprint, Arrive(r, f)
        PROVE  Promise!Send(r, f)
    <2>1. Reply' = [Reply EXCEPT ![r] = "none"]
      BY <1>a, <1>2, ReplyMoves DEF Arrive, InClaim
    <2>2. Reply[r] = "none"
      BY <1>2 DEF Arrive, Reply, Told
    <2>3. Reply' = Reply
      BY <2>1, <2>2 DEF Reply
    <2>4. fp[r] = NoOne
      BY <1>a, <1>2 DEF Arrive, Served
    <2>5. QED
      BY <1>2, <2>3, <2>4 DEF Arrive, Promise!Send, Promise!NoOne, NoOne, Reply, Memory
  <1>3. ASSUME NEW r \in Request, Insert(r) PROVE Stutter
    <2>1. Reply' = Reply
      BY <1>a, <1>3, ReplyMoves, LiveIsPending DEF Insert, InPhase2, Live, InClaim
    <2>2. Memory' = Memory
      BY <1>a, <1>3, ClaimedOK DEF Insert, Memory
    <2>3. QED
      BY <1>3, <2>1, <2>2 DEF Insert
  <1>4. ASSUME NEW r \in Request, Look(r)
        PROVE  Promise!Replay(r) \/ Promise!Refuse(r) \/ Stutter
    <2>1. Live(r) /\ Memory' = Memory
      BY <1>4 DEF Look, Live, InClaim, Memory
    <2>2. CASE Verdict(r) = "replayed"
      <3>1. record.status = "completed" /\ record.fp = fp[r] /\ fp[record.result] = fp[r]
        BY <1>a, <2>2, VerdictCases DEF ResultOfBody
      <3>2. Memory.req = record.result /\ record.result # NoOne
        BY <1>a, <3>1 DEF Memory, TypeOK
      <3>3. Memory # [req |-> NoOne, until |-> 0]
        BY <3>2
      <3>4. Reply' = [Reply EXCEPT ![r] = "replayed"]
        BY <1>a, <1>4, <2>2, ReplyMoves DEF Look
      <3>5. answer' = [answer EXCEPT ![r] = Memory.req]
        BY <1>4, <2>2, <3>2 DEF Look
      <3>6. fp[r] # NoOne /\ Reply[r] = "none"
        BY <1>a, <2>1, LiveIsPending
      <3>7. Promise!Replay(r)
        BY <1>4, <2>1, <3>1, <3>2, <3>3, <3>4, <3>5, <3>6
           DEF Look, Promise!Replay, Promise!Pending, Promise!NoOne, Promise!Nothing,
               NoOne, Reply, Memory
      <3>8. QED
        BY <3>7
    <2>3. CASE Verdict(r) \in {"key_reused", "in_progress"}
      <3>1. Reply' = [Reply EXCEPT ![r] = "refused"]
        BY <1>a, <1>4, <2>3, ReplyMoves DEF Look
      <3>2. answer' = answer
        BY <1>a, <1>4, <2>3 DEF Look, TypeOK
      <3>3. QED
        BY <1>4, <1>c, <2>1, <3>1, <3>2 DEF Look
    <2>4. CASE Verdict(r) = "reclaim"
      <3>1. Reply' = Reply
        BY <1>a, <1>4, <2>1, <2>4, ReplyMoves, LiveIsPending DEF Look, InClaim
      <3>2. answer' = answer
        BY <1>a, <1>4, <2>4 DEF Look, TypeOK
      <3>3. QED
        BY <1>4, <2>1, <3>1, <3>2 DEF Look
    <2>5. QED
      BY <1>a, <2>2, <2>3, <2>4, VerdictCases
  <1>5. ASSUME NEW r \in Request, Reclaim(r)
        PROVE  Promise!Forget \/ Promise!Refuse(r) \/ Stutter
    <2>1. Live(r)
      BY <1>5 DEF Reclaim, Live, InClaim
    <2>2. CASE ~ Reclaimable(r)
      <3>1. Reply' = [Reply EXCEPT ![r] = "refused"]
        BY <1>a, <1>5, <2>2, ReplyMoves DEF Reclaim
      <3>2. QED
        BY <1>5, <1>c, <2>1, <2>2, <3>1 DEF Reclaim, Memory
    <2>3. CASE Reclaimable(r)
      <3>1. Reply' = Reply /\ UNCHANGED <<clock, fp, answer>>
        BY <1>a, <1>5, <2>1, <2>3, ReplyMoves, LiveIsPending DEF Reclaim, InPhase2
      <3>2. Memory' = [req |-> NoOne, until |-> 0]
        BY <1>a, <1>5, <2>3, ClaimedOK DEF Reclaim, Memory
      <3>3. CASE record.status # "completed"
        BY <3>1, <3>2, <3>3 DEF Memory
      <3>4. CASE record.status = "completed"
        <4>1. record.expires <= now[r] /\ now[r] <= clock
          BY <1>a, <2>1, <2>3, <3>4 DEF Reclaimable, Served
        <4>2. Memory.until <= clock
          BY <1>a, <3>4, <4>1 DEF Memory, TypeOK
        <4>3. Memory # [req |-> NoOne, until |-> 0]
          BY <1>a, <3>4 DEF Memory, TypeOK
        <4>4. Promise!Forget
          BY <3>1, <3>2, <4>2, <4>3
             DEF Promise!Forget, Promise!Nothing, Promise!NoOne, NoOne, Reply, Memory
        <4>5. QED
          BY <4>4
      <3>5. QED
        BY <3>3, <3>4
    <2>4. QED
      BY <2>2, <2>3
  <1>6. ASSUME NEW r \in Request, Commit(r) PROVE Promise!Execute(r)
    <2>1. Live(r) /\ record = Claimed(r) /\ now[r] \in Int
      BY <1>a, <1>6 DEF Commit, Live, InPhase2, Owned, TypeOK
    <2>2. Memory = [req |-> NoOne, until |-> 0]
      BY <1>a, <2>1, ClaimedOK DEF Memory
    <2>3. 0 <= now[r] /\ now[r] <= clock /\ clock <= now[r] + MaxRun /\ clock \in Nat
      BY <1>a, <2>1 DEF Served, TypeOK
    <2>4. now[r] \in 0 .. clock /\ clock < now[r] + RETENTION
      BY <2>1, <2>3, TimesAssumption DEF Prompt
    <2>5. record'.status = "completed" /\ record'.result = r
          /\ record'.expires = now[r] + RETENTION
      BY <1>a, <1>6, <2>1, ClaimedOK DEF Commit, Claimed
    <2>6. Memory' = [req |-> r, until |-> now[r] + RETENTION]
      BY <2>5 DEF Memory
    <2>7. Reply' = [Reply EXCEPT ![r] = "executed"] /\ Reply[r] = "none" /\ fp[r] # NoOne
      BY <1>a, <1>6, <2>1, ReplyMoves, LiveIsPending DEF Commit
    <2>8. Memory.until <= clock
      BY <2>2, <2>3
    <2>9. \E since \in 0 .. clock :
             clock < since + RETENTION /\ Memory' = [req |-> r, until |-> since + RETENTION]
      BY <2>4, <2>6
    <2>10. UNCHANGED <<clock, fp, answer>>
      BY <1>6 DEF Commit
    <2>11. QED
      BY <2>7, <2>8, <2>9, <2>10
         DEF Promise!Execute, Promise!Pending, Promise!NoOne, NoOne, Reply, Memory
  <1>7. ASSUME NEW r \in Request, Raise(r) PROVE Stutter
    <2>1. Reply' = Reply
      BY <1>a, <1>7, ReplyMoves, LiveIsPending DEF Raise, InPhase2, Live
    <2>2. QED
      BY <1>7, <2>1 DEF Raise, Memory
  <1>8. ASSUME NEW r \in Request, MarkFailed(r) PROVE Promise!Refuse(r)
    <2>1. Live(r) /\ record = Claimed(r)
      BY <1>a, <1>8 DEF MarkFailed, Live, InPhase2, Owned
    <2>2. record.status = "processing" /\ record'.status = "failed"
      BY <1>a, <1>8, <2>1, ClaimedOK DEF MarkFailed, Claimed
    <2>3. Memory' = Memory
      BY <2>2 DEF Memory
    <2>4. Reply' = [Reply EXCEPT ![r] = "refused"]
      BY <1>a, <1>8, ReplyMoves DEF MarkFailed
    <2>5. QED
      BY <1>8, <1>c, <2>1, <2>3, <2>4 DEF MarkFailed
  <1>9. ASSUME NEW r \in Request, Crash(r) PROVE Stutter
    <2>1. Reply' = Reply
      BY <1>a, <1>9, ReplyMoves, LiveIsPending DEF Crash, Live
    <2>2. QED
      BY <1>9, <2>1 DEF Crash, Memory
  <1>10. CASE UNCHANGED vars
    <2>1. Stutter
      BY <1>10 DEF vars, Reply, Memory, Told
    <2>2. QED
      BY <1>b, <2>1
  <1>11. Promise!Next \/ Stutter \/ UNCHANGED vars
    BY <1>1, <1>2, <1>3, <1>4, <1>5, <1>6, <1>7, <1>8, <1>9 DEF Next, Promise!Next
  <1>12. QED
    BY <1>b, <1>10, <1>11

(* When requests are prompt, run() implements OncePerPeriod: what the clients *)
(* of a key are told is what one atomic execution per retention period, whose *)
(* result is remembered and replayed, would have told them.                   *)
THEOREM Refinement ==
  ASSUME Prompt
  PROVE  Spec => ImplementsOncePerPeriod
  <1>1. Init => Promise!Init
    <2> SUFFICES ASSUME Init PROVE Promise!Init
      OBVIOUS
    <2>1. \A r \in Request : Told(r) = "none"
      BY DEF Init, Told
    <2>2. record.status = "absent"
      BY DEF Init
    <2>3. QED
      BY <2>1, <2>2 DEF Init, Promise!Init, Promise!NoOne, Promise!Nothing, NoOne
  <1>2. IInv /\ [Next]_vars => [Promise!Next]_(Promise!vars)
    BY RefinementStep
  <1>3. QED
    BY <1>1, <1>2, InvariantHolds, PTL DEF Spec, ImplementsOncePerPeriod, Promise!Spec
=============================================================================
