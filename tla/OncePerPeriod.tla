---------------------------- MODULE OncePerPeriod ----------------------------
(* What an Idempotency-Key promises to the client that sends it (R15.5,       *)
(* design 22.3), without records, claims and takeovers: an execution is       *)
(* remembered from its claim on for RETENTION, nothing executes while one is  *)
(* remembered, and a duplicate is told only what is remembered.               *)
EXTENDS Integers

CONSTANTS Request, Fingerprint, RETENTION

VARIABLES
    clock,
    body,    \* the fingerprint each request was sent with
    reply,   \* what the client of each request has been told
    source,  \* for a replayed reply, the execution it reports
    memory   \* the execution that is remembered, and until when

vars == <<clock, body, reply, source, memory>>

NoOne == "no one"
Nothing == [req |-> NoOne, until |-> 0]

Init ==
    /\ clock = 0
    /\ body = [r \in Request |-> NoOne]
    /\ reply = [r \in Request |-> "none"]
    /\ source = [r \in Request |-> NoOne]
    /\ memory = Nothing

Tick ==
    /\ clock' = clock + 1
    /\ UNCHANGED <<body, reply, source, memory>>

Send(r, f) ==
    /\ body[r] = NoOne
    /\ body' = [body EXCEPT ![r] = f]
    /\ UNCHANGED <<clock, reply, source, memory>>

Pending(r) == body[r] # NoOne /\ reply[r] = "none"

(* Nothing is remembered any more: the request executes, and is remembered    *)
(* for RETENTION counted from an instant at which it was already claimed.     *)
Execute(r) ==
    /\ Pending(r)
    /\ memory.until <= clock
    /\ \E since \in 0 .. clock :
          /\ clock < since + RETENTION
          /\ memory' = [req |-> r, until |-> since + RETENTION]
    /\ reply' = [reply EXCEPT ![r] = "executed"]
    /\ UNCHANGED <<clock, body, source>>

(* A duplicate with the body of the remembered execution gets its result.     *)
Replay(r) ==
    /\ Pending(r)
    /\ memory # Nothing
    /\ body[r] = body[memory.req]
    /\ reply' = [reply EXCEPT ![r] = "replayed"]
    /\ source' = [source EXCEPT ![r] = memory.req]
    /\ UNCHANGED <<clock, body, memory>>

(* In progress, key reused, or the operation failed: nothing has been done.   *)
Refuse(r) ==
    /\ Pending(r)
    /\ reply' = [reply EXCEPT ![r] = "refused"]
    /\ UNCHANGED <<clock, body, source, memory>>

Forget ==
    /\ memory # Nothing
    /\ memory.until <= clock
    /\ memory' = Nothing
    /\ UNCHANGED <<clock, body, reply, source>>

Next ==
    \/ Tick
    \/ \E r \in Request, f \in Fingerprint : Send(r, f)
    \/ \E r \in Request : Execute(r) \/ Replay(r) \/ Refuse(r)
    \/ Forget

Spec == Init /\ [][Next]_vars
=============================================================================
