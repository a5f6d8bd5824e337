------------------------------- MODULE Outbox -------------------------------
(* The transactional outbox: events/outbox.py writes domain events,           *)
(* events/consumer.py delivers them.  Several consumers run process_one() in  *)
(* a loop.  The claim holds a row lock until its transaction ends; recording  *)
(* a failure is another transaction, which reads the event and then writes it *)
(* without a lock.  Instants matter only through available_at, kept as the    *)
(* time left until the event may be claimed again.                            *)
EXTENDS Integers, FiniteSets

CONSTANTS
    Consumer,      \* the worker processes
    MaxEvents,     \* bound: the events have ids 1..MaxEvents
    MAX_ATTEMPTS,  \* recorded failures after which an event is dead-lettered
    MAX_BACKOFF,   \* longest retry delay, in ticks
    MaxTries,      \* bound on `tries`, which only counts for a property
    MaxCrashes     \* bound: how many times workers die

ASSUME BoundsAssumption ==
    /\ MaxEvents \in Nat /\ MAX_ATTEMPTS \in Nat \ {0}
    /\ MAX_BACKOFF \in Nat /\ MaxTries \in Nat /\ MaxCrashes \in Nat

EventId == 1..MaxEvents
None == 0

VARIABLES
    published,  \* ids of the events that exist
    event,      \* domain_events rows
    alerts,     \* developer alerts raised for each event
    tries,      \* how often the handlers of each event have run
    effects,    \* how often they have committed
    pc,         \* where each consumer is in process_one()
    holding,    \* the event each consumer works on
    seen,       \* the attempts each consumer read in _record_failure()
    crashes     \* worker deaths so far

vars == <<published, event, alerts, tries, effects, pc, holding, seen, crashes>>

Fresh == [attempts |-> 0, wait |-> 0, processed |-> FALSE, dead |-> FALSE]

Init ==
    /\ published = {}
    /\ event = [e \in EventId |-> Fresh]
    /\ alerts = [e \in EventId |-> 0]
    /\ tries = [e \in EventId |-> 0]
    /\ effects = [e \in EventId |-> 0]
    /\ pc = [k \in Consumer |-> "idle"]
    /\ holding = [k \in Consumer |-> None]
    /\ seen = [k \in Consumer |-> 0]
    /\ crashes = 0

(* The transaction that changes state commits its event with it; ids are      *)
(* drawn before the commit, so they need not become visible in order.         *)
publish(e) ==
    /\ e \notin published
    /\ published' = published \cup {e}
    /\ UNCHANGED <<event, alerts, tries, effects, pc, holding, seen, crashes>>

(* One tick of the clock brings every delayed event closer.                   *)
Tick ==
    /\ \E e \in EventId : event[e].wait > 0
    /\ event' = [e \in EventId |-> [event[e] EXCEPT !.wait = IF @ > 0 THEN @ - 1 ELSE 0]]
    /\ UNCHANGED <<published, alerts, tries, effects, pc, holding, seen, crashes>>

-----------------------------------------------------------------------------
(* process_one() *)

Locked(e) == \E k \in Consumer : pc[k] = "handling" /\ holding[k] = e

(* Fault: the claim is not a locking read.                                    *)
ClaimableUnlocked(e) ==
    /\ e \in published
    /\ ~ event[e].processed /\ ~ event[e].dead
    /\ event[e].wait = 0

(* The WHERE clause and SKIP LOCKED.                                          *)
Claimable(e) ==
    /\ e \in published
    /\ ~ event[e].processed /\ ~ event[e].dead
    /\ event[e].wait = 0
    /\ ~ Locked(e)

(* ORDER BY id LIMIT 1 FOR UPDATE SKIP LOCKED, then the handlers start.       *)
Claim(k) ==
    /\ pc[k] = "idle"
    /\ \E e \in EventId :
          /\ Claimable(e)
          /\ \A f \in EventId : Claimable(f) => e <= f
          /\ holding' = [holding EXCEPT ![k] = e]
          /\ tries' = [tries EXCEPT ![e] = IF @ < MaxTries THEN @ + 1 ELSE @]
    /\ pc' = [pc EXCEPT ![k] = "handling"]
    /\ UNCHANGED <<published, event, alerts, effects, seen, crashes>>

(* The handlers succeed: their writes and processed_at commit together.       *)
Succeed(k) ==
    /\ pc[k] = "handling"
    /\ event' = [event EXCEPT ![holding[k]].processed = TRUE]
    /\ effects' = [effects EXCEPT ![holding[k]] = @ + 1]
    /\ pc' = [pc EXCEPT ![k] = "idle"]
    /\ UNCHANGED <<published, alerts, tries, holding, seen, crashes>>

(* A handler raises: rollback, which also releases the row.                   *)
HandlerFails(k) ==
    /\ pc[k] = "handling"
    /\ pc' = [pc EXCEPT ![k] = "failed"]
    /\ UNCHANGED <<published, event, alerts, tries, effects, holding, seen, crashes>>

(* The worker dies and is restarted; its transaction is rolled back.          *)
Crash(k) ==
    /\ pc[k] # "idle"
    /\ crashes < MaxCrashes
    /\ crashes' = crashes + 1
    /\ pc' = [pc EXCEPT ![k] = "idle"]
    /\ UNCHANGED <<published, event, alerts, tries, effects, holding, seen>>

-----------------------------------------------------------------------------
(* _record_failure() *)

(* 2^attempts, capped.                                                        *)
backoff(attempts) == IF 2 ^ attempts < MAX_BACKOFF THEN 2 ^ attempts ELSE MAX_BACKOFF

ReadFailure(k) ==
    /\ pc[k] = "failed"
    /\ seen' = [seen EXCEPT ![k] = event[holding[k]].attempts]
    /\ pc' = [pc EXCEPT ![k] = "recording"]
    /\ UNCHANGED <<published, event, alerts, tries, effects, holding, crashes>>

(* Fault: the attempt is never counted.                                       *)
WriteSameAttempts(k) ==
    /\ pc[k] = "recording"
    /\ ~ Locked(holding[k])
    /\ \E left \in 0..backoff(seen[k]) :
          event' = [event EXCEPT ![holding[k]].wait = left]
    /\ pc' = [pc EXCEPT ![k] = "idle"]
    /\ UNCHANGED <<published, alerts, tries, effects, holding, seen, crashes>>

(* available_at counts from the start of _record_failure(), so some of the    *)
(* delay may be over when the write commits.  The UPDATE waits for the row    *)
(* while another consumer's claim has it locked.                              *)
WriteFailure(k) ==
    LET attempts == seen[k] + 1
        e == holding[k]
    IN  /\ pc[k] = "recording"
        /\ ~ Locked(e)
        /\ IF attempts >= MAX_ATTEMPTS
           THEN /\ event' = [event EXCEPT ![e].attempts = attempts, ![e].dead = TRUE]
                /\ alerts' = [alerts EXCEPT ![e] = @ + 1]
           ELSE /\ \E left \in 0..backoff(attempts) :
                      event' = [event EXCEPT ![e].attempts = attempts, ![e].wait = left]
                /\ UNCHANGED alerts
        /\ pc' = [pc EXCEPT ![k] = "idle"]
        /\ UNCHANGED <<published, tries, effects, holding, seen, crashes>>

Next ==
    \/ \E e \in EventId : publish(e)
    \/ Tick
    \/ \E k \in Consumer : Claim(k)
    \/ \E k \in Consumer : Succeed(k)
    \/ \E k \in Consumer : HandlerFails(k)
    \/ \E k \in Consumer : Crash(k)
    \/ \E k \in Consumer : ReadFailure(k)
    \/ \E k \in Consumer : WriteFailure(k)

(* run_forever() loops without end, a handler returns or raises, and the      *)
(* clock runs; publishing and crashing are never forced.                      *)
Fairness ==
    /\ WF_vars(Tick)
    /\ \A k \in Consumer :
          /\ WF_vars(Claim(k))
          /\ WF_vars(Succeed(k) \/ HandlerFails(k))
          /\ WF_vars(ReadFailure(k))
          /\ WF_vars(WriteFailure(k))

Spec == Init /\ [][Next]_vars /\ Fairness

-----------------------------------------------------------------------------
(* Properties *)

(* Every variable has its type; in particular no retry delay exceeds the cap. *)
TypeOK ==
    /\ published \subseteq EventId
    /\ event \in [EventId -> [attempts : Nat, wait : 0..MAX_BACKOFF,
                              processed : BOOLEAN, dead : BOOLEAN]]
    /\ alerts \in [EventId -> Nat]
    /\ tries \in [EventId -> 0..MaxTries]
    /\ effects \in [EventId -> Nat]
    /\ pc \in [Consumer -> {"idle", "handling", "failed", "recording"}]
    /\ holding \in [Consumer -> EventId \cup {None}]
    /\ seen \in [Consumer -> Nat]
    /\ crashes \in 0..MaxCrashes

(* Whatever consumers overlap, fail, crash and retry, the handlers of an      *)
(* event commit at most once.                                                 *)
DeliveredOnce == \A e \in EventId : effects[e] <= 1

(* No event is lost or retried for ever: once published it is processed or    *)
(* dead-lettered in the end, although failures are recorded by unlocked reads *)
(* and writes that can take the attempt counter back.                         *)
EventuallySettled ==
    \A e \in EventId : e \in published ~> event[e].processed \/ event[e].dead

(* "After 10 attempts the event is dead-lettered" (design 4.3): the handlers  *)
(* of an event run at most MAX_ATTEMPTS times.                                *)
AttemptsBounded == \A e \in EventId : tries[e] <= MAX_ATTEMPTS

(* A dead-lettered event is one that was not delivered.                       *)
DeadNotDelivered == \A e \in EventId : ~ (event[e].dead /\ event[e].processed)
=============================================================================
