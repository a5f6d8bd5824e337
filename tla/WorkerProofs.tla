---------------------------- MODULE WorkerProofs ----------------------------
(* Machine-checked theorems about what the worker process runs: the           *)
(* specification of module Outbox, for any number of consumers, events and    *)
(* crashes, and that of module MemoryStore, whose backfill it runs, for any   *)
(* number of entries, editors and workers and any batch limit.                *)
EXTENDS Outbox, MemoryStore, TLAPS

-----------------------------------------------------------------------------
(* The outbox *)

(* A consumer that is not idle works on an event.                             *)
Working == \A k \in Consumer : pc[k] # "idle" => holding[k] \in EventId

(* The row lock of a claim: an event that is being handled has not been       *)
(* processed and is handled by nobody else.                                   *)
HeldAlone ==
    \A k \in Consumer :
        pc[k] = "handling" =>
            /\ ~ event[holding[k]].processed
            /\ \A j \in Consumer \ {k} : pc[j] = "handling" => holding[j] # holding[k]

(* The handlers of an event commit together with processed_at.                *)
EffectsMarked == \A e \in EventId : effects[e] = IF event[e].processed THEN 1 ELSE 0

(* The inductive invariant.                                                   *)
IInv == TypeOK /\ Working /\ HeldAlone /\ EffectsMarked

EventRow == [attempts : Nat, wait : 0..MAX_BACKOFF, processed : BOOLEAN, dead : BOOLEAN]

-----------------------------------------------------------------------------
(* Lemmas on the rows *)

(* A retry delay is a number of ticks up to the cap.                          *)
LEMMA BackoffCapped ==
  ASSUME NEW attempts \in Nat, NEW left \in 0..backoff(attempts)
  PROVE  left \in 0..MAX_BACKOFF
  <1>1. 2 ^ attempts \in Int
    OBVIOUS
  <1>2. QED
    BY <1>1, BoundsAssumption DEF backoff

(* Recording a failure keeps the rows well formed and leaves processed_at of  *)
(* every event alone.                                                         *)
LEMMA FailureRow ==
  ASSUME TypeOK, Working, NEW k \in Consumer, WriteFailure(k)
  PROVE  /\ event' \in [EventId -> EventRow]
         /\ \A e \in EventId : event'[e].processed = event[e].processed
         /\ alerts' \in [EventId -> Nat]
  <1> DEFINE e == holding[k]
             attempts == seen[k] + 1
  <1>1. e \in EventId /\ attempts \in Nat
    BY DEF Working, WriteFailure, TypeOK
  <1>2. event[e] \in EventRow /\ event \in [EventId -> EventRow]
    BY <1>1 DEF TypeOK, EventRow
  <1>3. CASE attempts >= MAX_ATTEMPTS
    <2> DEFINE row == [event[e] EXCEPT !.attempts = attempts, !.dead = TRUE]
    <2>1. event' = [event EXCEPT ![e] = row] /\ alerts' = [alerts EXCEPT ![e] = @ + 1]
      BY <1>1, <1>2, <1>3 DEF WriteFailure
    <2>2. row \in EventRow /\ row.processed = event[e].processed
      BY <1>1, <1>2 DEF EventRow
    <2>3. QED
      BY <1>1, <1>2, <2>1, <2>2 DEF TypeOK
  <1>4. CASE ~ (attempts >= MAX_ATTEMPTS)
    <2>1. PICK left \in 0..backoff(attempts) :
            event' = [event EXCEPT ![e].attempts = attempts, ![e].wait = left]
      BY <1>4 DEF WriteFailure
    <2> DEFINE row == [event[e] EXCEPT !.attempts = attempts, !.wait = left]
    <2>2. event' = [event EXCEPT ![e] = row] /\ alerts' = alerts
      BY <1>1, <1>2, <1>4, <2>1 DEF WriteFailure
    <2>3. left \in 0..MAX_BACKOFF
      BY <1>1, BackoffCapped
    <2>4. row \in EventRow /\ row.processed = event[e].processed
      BY <1>1, <1>2, <2>3 DEF EventRow
    <2>5. QED
      BY <1>1, <1>2, <2>2, <2>4 DEF TypeOK
  <1>5. QED
    BY <1>3, <1>4

(* Marking an event processed keeps the rows well formed and leaves the       *)
(* processed_at of the others alone.                                          *)
LEMMA SuccessRow ==
  ASSUME TypeOK, Working, NEW k \in Consumer, Succeed(k)
  PROVE  /\ event' \in [EventId -> EventRow]
         /\ event'[holding[k]].processed
         /\ \A e \in EventId \ {holding[k]} : event'[e] = event[e]
  <1> DEFINE e == holding[k]
             row == [event[e] EXCEPT !.processed = TRUE]
  <1>1. e \in EventId /\ event \in [EventId -> EventRow]
    BY DEF Working, Succeed, TypeOK, EventRow
  <1>2. event' = [event EXCEPT ![e] = row]
    BY DEF Succeed
  <1>3. row \in EventRow /\ row.processed = TRUE
    BY <1>1 DEF EventRow
  <1>4. QED
    BY <1>1, <1>2, <1>3

(* A tick keeps the rows well formed and changes nothing but the delays.      *)
LEMMA TickRow ==
  ASSUME TypeOK, Tick
  PROVE  /\ event' \in [EventId -> EventRow]
         /\ \A e \in EventId : event'[e].processed = event[e].processed
  <1> DEFINE row(e) == [event[e] EXCEPT !.wait = IF @ > 0 THEN @ - 1 ELSE 0]
  <1>1. event' = [e \in EventId |-> row(e)]
    BY DEF Tick
  <1>2. ASSUME NEW e \in EventId PROVE row(e) \in EventRow /\ row(e).processed = event[e].processed
    <2>1. event[e] \in EventRow
      BY DEF TypeOK, EventRow
    <2>2. (IF event[e].wait > 0 THEN event[e].wait - 1 ELSE 0) \in 0..MAX_BACKOFF
      BY <2>1, BoundsAssumption DEF EventRow
    <2>3. QED
      BY <2>1, <2>2 DEF EventRow
  <1>3. QED
    BY <1>1, <1>2

(* What a claim does to the consumer and to the counters.                     *)
LEMMA ClaimStep ==
  ASSUME TypeOK, NEW k \in Consumer, Claim(k)
  PROVE  /\ holding'[k] \in EventId /\ Claimable(holding'[k])
         /\ holding' = [holding EXCEPT ![k] = holding'[k]]
         /\ tries' \in [EventId -> 0..MaxTries]
  <1>1. PICK e \in EventId :
          /\ Claimable(e)
          /\ holding' = [holding EXCEPT ![k] = e]
          /\ tries' = [tries EXCEPT ![e] = IF @ < MaxTries THEN @ + 1 ELSE @]
    BY DEF Claim
  <1>2. holding'[k] = e
    BY <1>1 DEF TypeOK
  <1>3. (IF tries[e] < MaxTries THEN tries[e] + 1 ELSE tries[e]) \in 0..MaxTries
    BY BoundsAssumption DEF TypeOK
  <1>4. QED
    BY <1>1, <1>2, <1>3 DEF TypeOK

-----------------------------------------------------------------------------
(* The invariant *)

(* Every step keeps the types, and a busy consumer has an event.              *)
LEMMA TypeStep ==
  ASSUME TypeOK, Working, [Next]_vars
  PROVE  TypeOK' /\ Working'
  <1> USE DEF Working
  <1>1. ASSUME NEW e \in EventId, publish(e) PROVE TypeOK' /\ Working'
    BY <1>1 DEF publish, TypeOK
  <1>2. CASE Tick
    BY <1>2, TickRow DEF Tick, TypeOK, EventRow
  <1>3. ASSUME NEW k \in Consumer, Claim(k) PROVE TypeOK' /\ Working'
    BY <1>3, ClaimStep DEF Claim, TypeOK
  <1>4. ASSUME NEW k \in Consumer, Succeed(k) PROVE TypeOK' /\ Working'
    <2>1. effects' \in [EventId -> Nat]
      BY <1>4 DEF Succeed, TypeOK
    <2>2. event' \in [EventId -> EventRow]
      BY <1>4, SuccessRow
    <2>3. QED
      BY <1>4, <2>1, <2>2 DEF Succeed, TypeOK, EventRow
  <1>5. ASSUME NEW k \in Consumer, HandlerFails(k) PROVE TypeOK' /\ Working'
    BY <1>5 DEF HandlerFails, TypeOK
  <1>6. ASSUME NEW k \in Consumer, Crash(k) PROVE TypeOK' /\ Working'
    BY <1>6, BoundsAssumption DEF Crash, TypeOK
  <1>7. ASSUME NEW k \in Consumer, ReadFailure(k) PROVE TypeOK' /\ Working'
    <2>1. event[holding[k]].attempts \in Nat
      BY <1>7 DEF ReadFailure, TypeOK
    <2>2. QED
      BY <1>7, <2>1 DEF ReadFailure, TypeOK
  <1>8. ASSUME NEW k \in Consumer, WriteFailure(k) PROVE TypeOK' /\ Working'
    <2>1. UNCHANGED <<published, tries, effects, holding, seen, crashes>>
          /\ pc' = [pc EXCEPT ![k] = "idle"]
      BY <1>8 DEF WriteFailure
    <2>2. QED
      BY <1>8, <2>1, FailureRow DEF TypeOK, EventRow
  <1>9. CASE UNCHANGED vars
    BY <1>9 DEF vars, TypeOK
  <1>10. QED
    BY <1>1, <1>2, <1>3, <1>4, <1>5, <1>6, <1>7, <1>8, <1>9 DEF Next

(* A claim takes an event that nobody handles and that is not processed, and  *)
(* only the holder of that lock marks it.                                     *)
LEMMA DeliveryStep ==
  ASSUME IInv, [Next]_vars
  PROVE  HeldAlone' /\ EffectsMarked'
  <1> USE DEF HeldAlone, EffectsMarked
  <1>0. TypeOK /\ Working /\ HeldAlone /\ EffectsMarked
    BY DEF IInv
  <1>1. ASSUME NEW e \in EventId, publish(e) PROVE HeldAlone' /\ EffectsMarked'
    BY <1>0, <1>1 DEF publish
  <1>2. CASE Tick
    <2>1. UNCHANGED <<pc, holding, effects>>
      BY <1>2 DEF Tick
    <2>2. QED
      BY <1>0, <1>2, <2>1, TickRow DEF Working
  <1>3. ASSUME NEW k \in Consumer, Claim(k) PROVE HeldAlone' /\ EffectsMarked'
    <2>1. UNCHANGED <<event, effects>> /\ pc' = [pc EXCEPT ![k] = "handling"]
      BY <1>3 DEF Claim
    <2>2. ~ event[holding'[k]].processed /\ ~ Locked(holding'[k])
      BY <1>0, <1>3, ClaimStep DEF Claimable
    <2>3. \A j \in Consumer \ {k} : holding'[j] = holding[j] /\ pc'[j] = pc[j]
      BY <1>0, <1>3, <2>1, ClaimStep DEF TypeOK
    <2>4. QED
      BY <1>0, <2>1, <2>2, <2>3 DEF Locked
  <1>4. ASSUME NEW k \in Consumer, Succeed(k) PROVE HeldAlone' /\ EffectsMarked'
    <2>1. /\ pc[k] = "handling" /\ pc' = [pc EXCEPT ![k] = "idle"] /\ holding' = holding
          /\ effects' = [effects EXCEPT ![holding[k]] = @ + 1]
      BY <1>4 DEF Succeed
    <2>2. \A j \in Consumer : pc'[j] = "handling" => pc[j] = "handling" /\ j # k
      BY <1>0, <2>1 DEF TypeOK
    <2>3. \A j \in Consumer : pc'[j] = "handling" =>
             holding[j] \in EventId /\ holding[j] # holding[k] /\ ~ event[holding[j]].processed
      BY <1>0, <2>1, <2>2 DEF Working
    <2>4. HeldAlone'
      BY <1>0, <1>4, <2>1, <2>2, <2>3, SuccessRow
    <2>5. ~ event[holding[k]].processed /\ effects[holding[k]] = 0
      BY <1>0, <2>1 DEF Working
    <2>6. EffectsMarked'
      <3>1. effects'[holding[k]] = 1
        BY <1>0, <2>1, <2>5 DEF TypeOK, Working
      <3>2. \A e \in EventId \ {holding[k]} : effects'[e] = effects[e]
        BY <1>0, <2>1 DEF TypeOK
      <3>3. QED
        BY <1>0, <1>4, <3>1, <3>2, SuccessRow
    <2>7. QED
      BY <2>4, <2>6
  <1>5. ASSUME NEW k \in Consumer, HandlerFails(k) PROVE HeldAlone' /\ EffectsMarked'
    BY <1>0, <1>5 DEF HandlerFails, TypeOK
  <1>6. ASSUME NEW k \in Consumer, Crash(k) PROVE HeldAlone' /\ EffectsMarked'
    BY <1>0, <1>6 DEF Crash, TypeOK
  <1>7. ASSUME NEW k \in Consumer, ReadFailure(k) PROVE HeldAlone' /\ EffectsMarked'
    BY <1>0, <1>7 DEF ReadFailure, TypeOK
  <1>8. ASSUME NEW k \in Consumer, WriteFailure(k) PROVE HeldAlone' /\ EffectsMarked'
    <2>1. UNCHANGED <<effects, holding>> /\ pc' = [pc EXCEPT ![k] = "idle"]
      BY <1>8 DEF WriteFailure
    <2>2. \A j \in Consumer : pc'[j] = "handling" => pc[j] = "handling"
      BY <1>0, <2>1 DEF TypeOK
    <2>3. QED
      BY <1>0, <1>8, <2>1, <2>2, FailureRow DEF Working
  <1>9. CASE UNCHANGED vars
    BY <1>0, <1>9 DEF vars
  <1>10. QED
    BY <1>1, <1>2, <1>3, <1>4, <1>5, <1>6, <1>7, <1>8, <1>9 DEF Next

(* The inductive invariant holds of every behaviour.                          *)
LEMMA InvariantHolds == Spec => []IInv
  <1>1. Init => IInv
    <2> SUFFICES ASSUME Init PROVE IInv
      OBVIOUS
    <2>1. Fresh \in EventRow /\ Fresh.processed = FALSE
      BY BoundsAssumption DEF Fresh, EventRow
    <2>2. TypeOK
      BY <2>1, BoundsAssumption DEF Init, TypeOK, EventRow
    <2>3. QED
      BY <2>1, <2>2 DEF Init, IInv, Working, HeldAlone, EffectsMarked
  <1>2. IInv /\ [Next]_vars => IInv'
    BY TypeStep, DeliveryStep DEF IInv
  <1>3. QED
    BY <1>1, <1>2, PTL DEF Spec

(* The outbox rows, counters and consumers keep their types; in particular no *)
(* retry delay exceeds MAX_BACKOFF however often an event fails.              *)
THEOREM TypeCorrect == Spec => []TypeOK
  <1>1. IInv => TypeOK
    BY DEF IInv
  <1>2. QED
    BY <1>1, InvariantHolds, PTL

(* The handlers of an event commit at most once, for any number of consumers  *)
(* that overlap, fail, crash and record their failures without a lock.        *)
THEOREM Delivered == Spec => []DeliveredOnce
  <1>1. IInv => DeliveredOnce
    BY DEF IInv, EffectsMarked, DeliveredOnce
  <1>2. QED
    BY <1>1, InvariantHolds, PTL

-----------------------------------------------------------------------------
(* The Memory Store *)

EntryRow == [live : BOOLEAN, own : BOOLEAN, content : Text \cup {NoText},
             status : {"pending", "ready", "failed"},
             vector : Text \cup {NoText}, superseded : EntryId \cup {NoId}]
EditRow == [target : EntryId \cup {NoId}, new : Text \cup {NoText},
            content : Text \cup {NoText}, status : {"pending", "ready", "failed"}]

(* Entries have been inserted in the order of their ids, with a content, and  *)
(* an edit in flight has a target and a text.                                 *)
Inserted ==
    /\ \A e \in EntryId : entry[e].live => e <= created /\ entry[e].content \in Text
    /\ \A u \in Editor : edit[u] # NoEdit => edit[u].target \in EntryId /\ edit[u].new \in Text
    /\ DOMAIN batch = Worker

(* The row locks of a pass: a locked entry is live, has the content the pass  *)
(* loaded, and is locked by no other pass.                                    *)
LockedAsLoaded ==
    \A w \in Worker : \A e \in DOMAIN batch[w] :
        /\ e \in EntryId /\ entry[e].live /\ batch[w][e] = entry[e].content
        /\ \A v \in Worker \ {w} : e \notin DOMAIN batch[v]

(* The inductive invariant.                                                   *)
StoreInv == StoreTypeOK /\ Inserted /\ LockedAsLoaded /\ ReplacementLives

-----------------------------------------------------------------------------
(* Lemmas on the rows *)

(* The type invariant, row by row.                                            *)
LEMMA Rows ==
  StoreTypeOK <=>
             /\ created \in 0..MaxEntries
             /\ entry \in [EntryId -> EntryRow]
             /\ \A e \in EntryId : entry[e].status = "ready" => entry[e].vector # NoText
             /\ edit \in [Editor -> EditRow]
             /\ \A w \in Worker : batch[w] \in [DOMAIN batch[w] -> Text]
  BY DEF StoreTypeOK, EntryRow, EditRow

(* The same after a step.                                                     *)
LEMMA RowsNext ==
  ASSUME created' \in 0..MaxEntries, entry' \in [EntryId -> EntryRow],
         \A e \in EntryId : entry'[e].status = "ready" => entry'[e].vector # NoText,
         edit' \in [Editor -> EditRow],
         \A w \in Worker : batch'[w] \in [DOMAIN batch'[w] -> Text]
  PROVE  StoreTypeOK'
  BY DEF StoreTypeOK, EntryRow, EditRow

(* A new entry is live, has its text, and is to be embedded.                  *)
LEMMA NewEntryOK ==
  ASSUME NEW text \in Text, NEW own \in BOOLEAN
  PROVE  /\ NewEntry(text, own) \in EntryRow
         /\ NewEntry(text, own).live /\ NewEntry(text, own).content = text
         /\ NewEntry(text, own).status = "pending" /\ NewEntry(text, own).superseded = NoId
  BY DEF NewEntry, NoEntry, EntryRow

(* A deleted entry.                                                           *)
LEMMA NoEntryOK ==
  NoEntry \in EntryRow /\ ~ NoEntry.live /\ NoEntry.status = "pending" /\ NoEntry.superseded = NoId
  BY DEF NoEntry, EntryRow

(* The flush of an edit leaves the vector, the replacement and the existence  *)
(* of the entry alone, and never makes it ready.                              *)
LEMMA FlushedOK ==
  ASSUME NEW row \in EntryRow, NEW change \in EditRow, change.new \in Text
  PROVE  LET after == Flushed(row, change)
         IN  /\ after \in EntryRow
             /\ after.live = row.live /\ after.vector = row.vector
             /\ after.superseded = row.superseded
             /\ after.content \in {row.content, change.new}
             /\ after.status = "ready" => row.status = "ready"
  BY DEF Flushed, EntryRow, EditRow

(* A pass that ends is no longer in flight; the others are as they were.      *)
LEMMA BatchEnds ==
  ASSUME DOMAIN batch = Worker, StoreTypeOK, NEW w \in Worker, batch' = [batch EXCEPT ![w] = NoBatch]
  PROVE  /\ DOMAIN batch' = Worker /\ DOMAIN batch'[w] = {}
         /\ \A v \in Worker \ {w} : batch'[v] = batch[v]
         /\ \A v \in Worker : batch'[v] \in [DOMAIN batch'[v] -> Text]
  <1>1. batch'[w] = NoBatch /\ DOMAIN batch' = Worker
    OBVIOUS
  <1>2. DOMAIN NoBatch = {} /\ NoBatch \in [{} -> Text]
    BY DEF NoBatch
  <1>3. \A v \in Worker \ {w} : batch'[v] = batch[v]
    OBVIOUS
  <1>4. QED
    BY <1>1, <1>2, <1>3, Rows

(* What changes no locked row and no pass keeps the locks.                    *)
LEMMA LocksKept ==
  ASSUME LockedAsLoaded, batch' = batch,
         \A e \in EntryId : RowLocked(e) => entry'[e] = entry[e]
  PROVE  LockedAsLoaded'
  BY DEF LockedAsLoaded, RowLocked

-----------------------------------------------------------------------------
(* The invariant, action by action *)

(* create() keeps the invariant.                                              *)
LEMMA CreateStep ==
  ASSUME StoreInv, NEW text \in Text, NEW own \in BOOLEAN, create(text, own)
  PROVE  StoreInv'
  <1> DEFINE n == created + 1
             row == NewEntry(text, own)
  <1>1. StoreTypeOK /\ Inserted /\ LockedAsLoaded /\ ReplacementLives
    BY DEF StoreInv
  <1>2. created \in 0..MaxEntries /\ created < MaxEntries /\ created' = n
        /\ n \in EntryId /\ entry' = [entry EXCEPT ![n] = row] /\ edit' = edit /\ batch' = batch
    BY <1>1, Rows, LimitAssumption DEF create, EntryId
  <1>3. \A e \in EntryId : entry'[e] = IF e = n THEN row ELSE entry[e]
    BY <1>1, <1>2, Rows
  <1>4. ~ entry[n].live /\ \A e \in EntryId : entry[e].superseded # n
    BY <1>1, <1>2 DEF Inserted, ReplacementLives, NoId, EntryId
  <1>5. StoreTypeOK'
    <2>1. entry' \in [EntryId -> EntryRow]
      BY <1>1, <1>2, NewEntryOK, Rows
    <2>2. \A e \in EntryId : entry'[e].status = "ready" => entry'[e].vector # NoText
      BY <1>1, <1>3, NewEntryOK, Rows
    <2>3. edit' \in [Editor -> EditRow]
          /\ \A w \in Worker : batch'[w] \in [DOMAIN batch'[w] -> Text]
      BY <1>1, <1>2, Rows
    <2>4. created' \in 0..MaxEntries
      BY <1>2, LimitAssumption
    <2>5. QED
      BY <2>1, <2>2, <2>3, <2>4, RowsNext
  <1>6. Inserted'
    BY <1>1, <1>2, <1>3, NewEntryOK DEF Inserted, EntryId
  <1>7. LockedAsLoaded'
    <2>1. ~ RowLocked(n)
      BY <1>1, <1>4 DEF LockedAsLoaded, RowLocked
    <2>2. QED
      BY <1>1, <1>2, <1>3, <2>1, LocksKept
  <1>8. ReplacementLives'
    <2>1. \A e \in EntryId : entry'[e].superseded # NoId =>
             e # n /\ entry'[e] = entry[e] /\ entry[e].superseded \in EntryId \ {n}
      BY <1>1, <1>3, <1>4, NewEntryOK, Rows DEF EntryRow
    <2>2. QED
      BY <1>1, <1>3, <2>1 DEF ReplacementLives
  <1>9. QED
    BY <1>5, <1>6, <1>7, <1>8 DEF StoreInv

(* The load of an edit keeps the invariant.                                   *)
LEMMA BeginUpdateStep ==
  ASSUME StoreInv, NEW u \in Editor, NEW e \in EntryId, NEW text \in Text, BeginUpdate(u, e, text)
  PROVE  StoreInv'
  <1> DEFINE change == [target |-> e, new |-> text, content |-> entry[e].content,
                        status |-> entry[e].status]
  <1>1. StoreTypeOK /\ Inserted /\ LockedAsLoaded /\ ReplacementLives
    BY DEF StoreInv
  <1>2. edit' = [edit EXCEPT ![u] = change] /\ UNCHANGED <<created, entry, batch>>
    BY DEF BeginUpdate
  <1>3. change \in EditRow
    <2>1. entry[e] \in EntryRow
      BY <1>1, Rows
    <2>2. QED
      BY <2>1 DEF EntryRow, EditRow
  <1>4. \A v \in Editor : edit'[v] = IF v = u THEN change ELSE edit[v]
    BY <1>1, <1>2, Rows
  <1>5. StoreTypeOK'
    BY <1>1, <1>2, <1>3, Rows, RowsNext
  <1>6. Inserted'
    BY <1>1, <1>2, <1>4 DEF Inserted
  <1>7. QED
    BY <1>1, <1>2, <1>5, <1>6 DEF StoreInv, LockedAsLoaded, ReplacementLives

(* The flush of an edit keeps the invariant: it waits for the row lock, so it *)
(* changes no content that a pass has loaded.                                 *)
LEMMA FlushUpdateStep ==
  ASSUME StoreInv, NEW u \in Editor, FlushUpdate(u)
  PROVE  StoreInv'
  <1> DEFINE e == edit[u].target
             row == Flushed(entry[e], edit[u])
  <1>1. StoreTypeOK /\ Inserted /\ LockedAsLoaded /\ ReplacementLives
    BY DEF StoreInv
  <1>2. /\ edit[u] # NoEdit /\ ~ RowLocked(e) /\ UNCHANGED <<created, batch>>
        /\ edit' = [edit EXCEPT ![u] = NoEdit]
    BY DEF FlushUpdate
  <1>3. e \in EntryId /\ edit[u] \in EditRow /\ edit[u].new \in Text /\ entry[e] \in EntryRow
    BY <1>1, <1>2, Rows DEF Inserted
  <1>4. NoEdit \in EditRow
    BY DEF NoEdit, EditRow
  <1>5. edit' \in [Editor -> EditRow]
    BY <1>1, <1>2, <1>4, Rows
  <1>6. \A v \in Editor : edit'[v] # NoEdit => edit'[v] = edit[v]
    BY <1>1, <1>2, Rows
  <1>7. CASE ~ entry[e].live
    <2>1. entry' = entry
      BY <1>7 DEF FlushUpdate
    <2>2. StoreTypeOK'
      BY <1>1, <1>2, <1>5, <2>1, Rows, RowsNext
    <2>3. Inserted'
      BY <1>1, <1>2, <1>6, <2>1 DEF Inserted
    <2>4. QED
      BY <1>1, <1>2, <2>1, <2>2, <2>3 DEF StoreInv, LockedAsLoaded, ReplacementLives
  <1>8. CASE entry[e].live
    <2>1. entry' = [entry EXCEPT ![e] = row]
      BY <1>8 DEF FlushUpdate
    <2>2. /\ row \in EntryRow
          /\ row.live = entry[e].live /\ row.vector = entry[e].vector
          /\ row.superseded = entry[e].superseded
          /\ row.content \in {entry[e].content, edit[u].new}
          /\ row.status = "ready" => entry[e].status = "ready"
      BY <1>3, FlushedOK
    <2>3. \A f \in EntryId : entry'[f] = IF f = e THEN row ELSE entry[f]
      BY <1>1, <2>1, Rows
    <2> HIDE DEF row
    <2>4. StoreTypeOK'
      <3>1. entry' \in [EntryId -> EntryRow]
        BY <1>1, <1>3, <2>1, <2>2, Rows
      <3>2. \A f \in EntryId : entry'[f].status = "ready" => entry'[f].vector # NoText
        BY <1>1, <2>2, <2>3, Rows
      <3>3. QED
        BY <1>1, <1>2, <1>5, <3>1, <3>2, Rows, RowsNext
    <2>5. Inserted'
      <3>1. row.content \in Text
        BY <1>1, <1>3, <1>8, <2>2 DEF Inserted
      <3>2. \A f \in EntryId : entry'[f].live => f <= created' /\ entry'[f].content \in Text
        BY <1>1, <1>2, <1>3, <2>2, <2>3, <3>1 DEF Inserted
      <3>3. QED
        BY <1>1, <1>2, <1>6, <3>2 DEF Inserted
    <2>6. LockedAsLoaded'
      BY <1>1, <1>2, <2>3, LocksKept
    <2>7. ReplacementLives'
      <3>1. \A f \in EntryId : entry'[f].live = entry[f].live
                               /\ entry'[f].superseded = entry[f].superseded
        BY <2>2, <2>3
      <3>2. \A f \in EntryId : entry[f].superseded # NoId => entry[f].superseded \in EntryId
        BY <1>1, Rows DEF EntryRow
      <3>3. QED
        BY <1>1, <3>1, <3>2 DEF ReplacementLives
    <2>8. QED
      BY <2>4, <2>5, <2>6, <2>7 DEF StoreInv
  <1>9. QED
    BY <1>7, <1>8

(* supersede() keeps the invariant: the replacement is newer than the entry   *)
(* it replaces.                                                               *)
LEMMA SupersedeStep ==
  ASSUME StoreInv, NEW e \in EntryId, NEW text \in Text, NEW own \in BOOLEAN, supersede(e, text, own)
  PROVE  StoreInv'
  <1> DEFINE n == created + 1
             row == NewEntry(text, own)
             old == [entry[e] EXCEPT !.superseded = n]
  <1>1. StoreTypeOK /\ Inserted /\ LockedAsLoaded /\ ReplacementLives
    BY DEF StoreInv
  <1>2. /\ created \in 0..MaxEntries /\ created < MaxEntries /\ created' = n
        /\ n \in EntryId /\ edit' = edit /\ batch' = batch
        /\ entry[e].live /\ ~ RowLocked(e)
    BY <1>1, Rows, LimitAssumption DEF supersede, EntryId
  <1>3. e # n /\ n > e
    BY <1>1, <1>2 DEF Inserted, EntryId
  <1>4. entry' = [entry EXCEPT ![n] = row, ![e].superseded = n]
    BY DEF supersede
  <1>5. \A f \in EntryId : entry'[f] = IF f = n THEN row ELSE IF f = e THEN old ELSE entry[f]
    BY <1>1, <1>2, <1>3, <1>4, Rows
  <1>6. /\ entry[e] \in EntryRow /\ old \in EntryRow /\ old.live = entry[e].live
        /\ old.content = entry[e].content /\ old.status = entry[e].status
        /\ old.vector = entry[e].vector /\ old.superseded = n
    <2>1. entry[e] \in EntryRow
      BY <1>1, Rows
    <2>2. QED
      BY <1>2, <2>1 DEF EntryRow
  <1>7. /\ row \in EntryRow /\ row.live /\ row.content = text
        /\ row.status = "pending" /\ row.superseded = NoId
    BY NewEntryOK
  <1>8. ~ entry[n].live /\ \A f \in EntryId : entry[f].superseded # n
    BY <1>1, <1>2 DEF Inserted, ReplacementLives, NoId, EntryId
  <1> HIDE DEF row, old
  <1>9. StoreTypeOK'
    <2>1. entry' \in [EntryId -> EntryRow]
      <3>1. \A f \in EntryId : entry'[f] \in EntryRow
        BY <1>1, <1>5, <1>6, <1>7, Rows
      <3>2. entry' = [f \in EntryId |-> entry'[f]]
        BY <1>1, <1>4, Rows
      <3>3. QED
        BY <3>1, <3>2
    <2>2. \A f \in EntryId : entry'[f].status = "ready" => entry'[f].vector # NoText
      BY <1>1, <1>5, <1>6, <1>7, Rows
    <2>3. edit' \in [Editor -> EditRow]
          /\ \A w \in Worker : batch'[w] \in [DOMAIN batch'[w] -> Text]
      BY <1>1, <1>2, Rows
    <2>4. created' \in 0..MaxEntries
      BY <1>2, LimitAssumption
    <2>5. QED
      BY <2>1, <2>2, <2>3, <2>4, RowsNext
  <1>10. Inserted'
    <2>1. \A f \in EntryId : entry'[f].live => f <= created' /\ entry'[f].content \in Text
      BY <1>1, <1>2, <1>5, <1>6, <1>7 DEF Inserted, EntryId
    <2>2. QED
      BY <1>1, <1>2, <2>1 DEF Inserted
  <1>11. LockedAsLoaded'
    <2>1. ~ RowLocked(n)
      BY <1>1, <1>8 DEF LockedAsLoaded, RowLocked
    <2>2. QED
      BY <1>1, <1>2, <1>5, <2>1, LocksKept
  <1>12. ReplacementLives'
    <2>1. ASSUME NEW f \in EntryId, entry'[f].superseded # NoId
          PROVE  entry'[f].superseded > f /\ entry'[entry'[f].superseded].live
      <3>1. CASE f = e
        BY <1>2, <1>3, <1>5, <1>6, <1>7, <3>1
      <3>2. CASE f # e
        <4>1. f # n /\ entry'[f] = entry[f]
          BY <1>5, <1>7, <2>1, <3>2
        <4>2. entry[f].superseded \in EntryId /\ entry[f].superseded # n
          BY <1>1, <1>8, <2>1, <4>1, Rows DEF EntryRow
        <4>3. entry[f].superseded > f /\ entry[entry[f].superseded].live
          BY <1>1, <2>1, <4>1 DEF ReplacementLives
        <4>4. QED
          BY <1>5, <1>6, <4>1, <4>2, <4>3
      <3>3. QED
        BY <3>1, <3>2
    <2>2. QED
      BY <2>1 DEF ReplacementLives
  <1>13. QED
    BY <1>9, <1>10, <1>11, <1>12 DEF StoreInv

(* delete() keeps the invariant: whatever pointed at the entry points nowhere.*)
LEMMA DeleteStep ==
  ASSUME StoreInv, NEW e \in EntryId, delete(e)
  PROVE  StoreInv'
  <1> DEFINE replaced == {f \in EntryId : entry[f].superseded = e}
             freed(f) == [entry[f] EXCEPT !.superseded = NoId]
             after(f) == IF f = e THEN NoEntry ELSE IF f \in replaced THEN freed(f) ELSE entry[f]
  <1>1. StoreTypeOK /\ Inserted /\ LockedAsLoaded /\ ReplacementLives
    BY DEF StoreInv
  <1>2. /\ \A f \in replaced \cup {e} : ~ RowLocked(f)
        /\ entry' = [f \in EntryId |-> after(f)]
        /\ UNCHANGED <<created, edit, batch>>
    BY DEF delete
  <1>3. ASSUME NEW f \in EntryId
        PROVE  /\ entry[f] \in EntryRow /\ freed(f) \in EntryRow
               /\ freed(f).live = entry[f].live /\ freed(f).content = entry[f].content
               /\ freed(f).status = entry[f].status /\ freed(f).vector = entry[f].vector
               /\ freed(f).superseded = NoId
    <2>1. entry[f] \in EntryRow
      BY <1>1, Rows
    <2>2. QED
      BY <2>1 DEF EntryRow
  <1>4. \A f \in EntryId : entry'[f] = after(f)
    BY <1>2
  <1> HIDE DEF freed
  <1>5. StoreTypeOK'
    <2>1. entry' \in [EntryId -> EntryRow]
      BY <1>2, <1>3, NoEntryOK
    <2>2. \A f \in EntryId : entry'[f].status = "ready" => entry'[f].vector # NoText
      BY <1>1, <1>3, <1>4, NoEntryOK, Rows
    <2>3. QED
      BY <1>1, <1>2, <2>1, <2>2, Rows, RowsNext
  <1>6. Inserted'
    <2>1. \A f \in EntryId : entry'[f].live => f <= created' /\ entry'[f].content \in Text
      BY <1>1, <1>2, <1>3, <1>4, NoEntryOK DEF Inserted
    <2>2. QED
      BY <1>1, <1>2, <2>1 DEF Inserted
  <1>7. LockedAsLoaded'
    BY <1>1, <1>2, <1>4, LocksKept
  <1>8. ReplacementLives'
    <2>1. ASSUME NEW f \in EntryId, entry'[f].superseded # NoId
          PROVE  entry'[f].superseded > f /\ entry'[entry'[f].superseded].live
      <3>1. f # e /\ f \notin replaced /\ entry'[f] = entry[f]
        BY <1>3, <1>4, <2>1, NoEntryOK
      <3>2. entry[f].superseded \in EntryId \ {e}
        BY <1>3, <2>1, <3>1 DEF EntryRow
      <3>3. entry[f].superseded > f /\ entry[entry[f].superseded].live
        BY <1>1, <2>1, <3>1 DEF ReplacementLives
      <3>4. QED
        BY <1>3, <1>4, <3>1, <3>2, <3>3
    <2>2. QED
      BY <2>1 DEF ReplacementLives
  <1>9. QED
    BY <1>5, <1>6, <1>7, <1>8 DEF StoreInv

(* LockBatch keeps the invariant: SKIP LOCKED takes live rows nobody else has *)
(* and loads their contents.                                                  *)
LEMMA LockBatchStep ==
  ASSUME StoreInv, NEW w \in Worker, LockBatch(w)
  PROVE  StoreInv'
  <1>1. StoreTypeOK /\ Inserted /\ LockedAsLoaded /\ ReplacementLives
    BY DEF StoreInv
  <1>2. PICK taken \in SUBSET {e \in EntryId : Retryable(e)} :
          batch' = [batch EXCEPT ![w] = [e \in taken |-> entry[e].content]]
    <2> DEFINE queue == {e \in EntryId : Retryable(e)}
               oldest == {e \in queue : Cardinality({f \in queue : f < e}) < BatchLimit}
    <2>1. batch' = [batch EXCEPT ![w] = [e \in oldest |-> entry[e].content]]
      BY DEF LockBatch
    <2>2. oldest \in SUBSET queue
      OBVIOUS
    <2> HIDE DEF oldest
    <2>3. QED
      BY <2>1, <2>2
  <1>3. UNCHANGED <<created, entry, edit>>
    BY DEF LockBatch
  <1>4. \A e \in taken : e \in EntryId /\ entry[e].live /\ ~ RowLocked(e) /\ entry[e].content \in Text
    BY <1>1, <1>2 DEF Retryable, Inserted
  <1>5. /\ DOMAIN batch' = Worker /\ batch'[w] = [e \in taken |-> entry[e].content]
        /\ \A v \in Worker \ {w} : batch'[v] = batch[v]
    BY <1>1, <1>2 DEF Inserted
  <1>6. batch'[w] \in [taken -> Text] /\ DOMAIN batch'[w] = taken
    BY <1>4, <1>5
  <1>7. \A v \in Worker : batch'[v] \in [DOMAIN batch'[v] -> Text]
    BY <1>1, <1>5, <1>6, Rows
  <1>8. StoreTypeOK'
    BY <1>1, <1>3, <1>7, Rows, RowsNext
  <1>9. Inserted'
    BY <1>1, <1>3, <1>5 DEF Inserted
  <1>10. LockedAsLoaded'
    <2>1. ASSUME NEW v \in Worker, NEW e \in DOMAIN batch'[v]
          PROVE  /\ e \in EntryId /\ entry[e].live /\ batch'[v][e] = entry[e].content
                 /\ \A x \in Worker \ {v} : e \notin DOMAIN batch'[x]
      <3>1. CASE v = w
        <4>1. e \in taken /\ batch'[v][e] = entry[e].content
          BY <1>5, <1>6, <2>1, <3>1
        <4>2. QED
          BY <1>4, <1>5, <3>1, <4>1 DEF RowLocked
      <3>2. CASE v # w
        <4>1. batch'[v] = batch[v] /\ e \in DOMAIN batch[v]
          BY <1>5, <2>1, <3>2
        <4>2. e \notin taken
          BY <1>4, <4>1 DEF RowLocked
        <4>3. QED
          BY <1>1, <1>5, <1>6, <3>2, <4>1, <4>2 DEF LockedAsLoaded
      <3>3. QED
        BY <3>1, <3>2
    <2>2. QED
      BY <1>3, <2>1 DEF LockedAsLoaded
  <1>11. QED
    BY <1>1, <1>3, <1>8, <1>9, <1>10 DEF StoreInv, ReplacementLives

(* What a pass that ends writes: nothing but the vector and the status of the *)
(* rows it has locked.  The lemma covers a pass that succeeds, one that fails *)
(* and one whose worker dies.                                                 *)
LEMMA PassEnds ==
  ASSUME StoreInv, NEW w \in Worker,
         batch' = [batch EXCEPT ![w] = NoBatch], UNCHANGED <<created, edit>>,
         entry' \in [EntryId -> EntryRow],
         \A e \in EntryId : entry'[e].status = "ready" => entry'[e].vector # NoText,
         \A e \in EntryId : /\ entry'[e].live = entry[e].live
                            /\ entry'[e].content = entry[e].content
                            /\ entry'[e].superseded = entry[e].superseded
  PROVE  StoreInv'
  <1>1. StoreTypeOK /\ Inserted /\ LockedAsLoaded /\ ReplacementLives
    BY DEF StoreInv
  <1>2. /\ DOMAIN batch' = Worker /\ DOMAIN batch'[w] = {}
        /\ \A v \in Worker \ {w} : batch'[v] = batch[v]
        /\ \A v \in Worker : batch'[v] \in [DOMAIN batch'[v] -> Text]
    BY <1>1, BatchEnds DEF Inserted
  <1>3. StoreTypeOK'
    BY <1>1, <1>2, Rows, RowsNext
  <1>4. Inserted'
    BY <1>1, <1>2 DEF Inserted
  <1>5. LockedAsLoaded'
    BY <1>1, <1>2 DEF LockedAsLoaded
  <1>6. ReplacementLives'
    <2>1. \A e \in EntryId : entry[e].superseded # NoId => entry[e].superseded \in EntryId
      BY <1>1, Rows DEF EntryRow
    <2>2. QED
      BY <1>1, <2>1 DEF ReplacementLives
  <1>7. QED
    BY <1>3, <1>4, <1>5, <1>6 DEF StoreInv

(* The rows after a pass that succeeded: the locked entries are ready, with   *)
(* the vector of the content they have.                                       *)
LEMMA EmbedRows ==
  ASSUME StoreInv, NEW w \in Worker, Embed(w)
  PROVE  /\ entry' \in [EntryId -> EntryRow]
         /\ \A e \in EntryId :
               IF e \in DOMAIN batch[w]
               THEN /\ entry'[e].live /\ entry'[e].live = entry[e].live
                    /\ entry'[e].content = entry[e].content
                    /\ entry'[e].superseded = entry[e].superseded
                    /\ entry'[e].vector = entry[e].content /\ entry'[e].vector \in Text
               ELSE entry'[e] = entry[e]
  <1> DEFINE row(e) == [entry[e] EXCEPT !.vector = batch[w][e], !.status = "ready"]
  <1>1. StoreTypeOK /\ Inserted /\ LockedAsLoaded
    BY DEF StoreInv
  <1>2. entry' = [e \in EntryId |-> IF e \in DOMAIN batch[w] THEN row(e) ELSE entry[e]]
    BY DEF Embed
  <1>3. ASSUME NEW e \in EntryId, e \in DOMAIN batch[w]
        PROVE  /\ row(e) \in EntryRow /\ row(e).live /\ row(e).live = entry[e].live
               /\ row(e).content = entry[e].content
               /\ row(e).superseded = entry[e].superseded
               /\ row(e).vector = entry[e].content /\ row(e).vector \in Text
    <2>1. entry[e] \in EntryRow /\ entry[e].live
          /\ batch[w][e] = entry[e].content /\ entry[e].content \in Text
      BY <1>1, <1>3, Rows DEF LockedAsLoaded, Inserted
    <2>2. QED
      BY <2>1 DEF EntryRow
  <1>4. \A e \in EntryId : entry'[e] = IF e \in DOMAIN batch[w] THEN row(e) ELSE entry[e]
    BY <1>2
  <1>5. \A e \in EntryId : entry[e] \in EntryRow
    BY <1>1, Rows
  <1> HIDE DEF row
  <1>6. QED
    BY <1>2, <1>3, <1>4, <1>5

(* The rows after a pass whose provider call failed.                          *)
LEMMA EmbedFailsRows ==
  ASSUME StoreInv, NEW w \in Worker, EmbedFails(w)
  PROVE  /\ entry' \in [EntryId -> EntryRow]
         /\ \A e \in EntryId : /\ entry'[e].live = entry[e].live
                               /\ entry'[e].content = entry[e].content
                               /\ entry'[e].superseded = entry[e].superseded
                               /\ entry'[e].status = "failed" \/ entry'[e] = entry[e]
  <1> DEFINE row(e) == [entry[e] EXCEPT !.status = "failed"]
  <1>1. \A e \in EntryId : entry[e] \in EntryRow
    BY Rows DEF StoreInv
  <1>2. entry' = [e \in EntryId |-> IF e \in DOMAIN batch[w] THEN row(e) ELSE entry[e]]
    BY DEF EmbedFails
  <1>3. \A e \in EntryId : /\ row(e) \in EntryRow /\ row(e).live = entry[e].live
                           /\ row(e).content = entry[e].content
                           /\ row(e).superseded = entry[e].superseded
                           /\ row(e).status = "failed"
    BY <1>1 DEF EntryRow
  <1> HIDE DEF row
  <1>4. QED
    BY <1>1, <1>2, <1>3

(* The inductive invariant is preserved by every step.                        *)
LEMMA InvariantStep == StoreInv /\ [NextStore]_storeVars => StoreInv'
  <1> SUFFICES ASSUME StoreInv, [NextStore]_storeVars PROVE StoreInv'
    OBVIOUS
  <1>0. \A e \in EntryId : entry[e].status = "ready" => entry[e].vector # NoText
    BY Rows DEF StoreInv
  <1>1. ASSUME NEW w \in Worker, Embed(w) PROVE StoreInv'
    <2>1. \A e \in EntryId : entry'[e].status = "ready" => entry'[e].vector # NoText
      BY <1>0, <1>1, EmbedRows, TextAssumption
    <2>2. batch' = [batch EXCEPT ![w] = NoBatch] /\ UNCHANGED <<created, edit>>
      BY <1>1 DEF Embed
    <2>3. \A e \in EntryId : /\ entry'[e].live = entry[e].live
                             /\ entry'[e].content = entry[e].content
                             /\ entry'[e].superseded = entry[e].superseded
      BY <1>1, EmbedRows
    <2>4. QED
      BY <1>1, <2>1, <2>2, <2>3, EmbedRows, PassEnds
  <1>2. ASSUME NEW w \in Worker, EmbedFails(w) PROVE StoreInv'
    <2>1. \A e \in EntryId : entry'[e].status = "ready" => entry'[e].vector # NoText
      BY <1>0, <1>2, EmbedFailsRows
    <2>2. batch' = [batch EXCEPT ![w] = NoBatch] /\ UNCHANGED <<created, edit>>
      BY <1>2 DEF EmbedFails
    <2>3. QED
      BY <1>2, <2>1, <2>2, EmbedFailsRows, PassEnds
  <1>3. ASSUME NEW w \in Worker, CrashBackfill(w) PROVE StoreInv'
    <2>1. batch' = [batch EXCEPT ![w] = NoBatch] /\ UNCHANGED <<created, entry, edit>>
      BY <1>3 DEF CrashBackfill
    <2>2. entry' \in [EntryId -> EntryRow]
      BY <2>1, Rows DEF StoreInv
    <2>3. QED
      BY <1>0, <2>1, <2>2, PassEnds
  <1>4. CASE UNCHANGED storeVars
    BY <1>4 DEF storeVars, StoreInv, StoreTypeOK, Inserted, LockedAsLoaded, ReplacementLives
  <1>5. QED
    BY <1>1, <1>2, <1>3, <1>4, CreateStep, BeginUpdateStep, FlushUpdateStep, SupersedeStep,
       DeleteStep, LockBatchStep DEF NextStore

(* The inductive invariant holds of every behaviour.                          *)
LEMMA StoreInvariantHolds == StoreSpec => []StoreInv
  <1>1. InitStore => StoreInv
    <2> SUFFICES ASSUME InitStore PROVE StoreInv
      OBVIOUS
    <2>1. NoEdit \in EditRow
      BY DEF NoEdit, EditRow
    <2>2. DOMAIN NoBatch = {} /\ NoBatch \in [{} -> Text]
      BY DEF NoBatch
    <2>3. StoreTypeOK
      BY <2>1, <2>2, NoEntryOK, Rows, LimitAssumption DEF InitStore
    <2>4. QED
      BY <2>2, <2>3, NoEntryOK DEF InitStore, StoreInv, Inserted, LockedAsLoaded, ReplacementLives
  <1>2. QED
    BY <1>1, InvariantStep, PTL DEF StoreSpec

(* The rows, edits and passes keep their types, and a ready entry has a       *)
(* vector: neither an edit nor a failed pass breaks the CHECK constraint.     *)
THEOREM StoreTypeCorrect == StoreSpec => []StoreTypeOK
  <1>1. StoreInv => StoreTypeOK
    BY DEF StoreInv
  <1>2. QED
    BY <1>1, StoreInvariantHolds, PTL

(* Superseding, deleting and editing in any order leave no entry that points  *)
(* at a deleted one, and no cycle of replacements.                            *)
THEOREM ReplacementsLive == StoreSpec => []ReplacementLives
  <1>1. StoreInv => ReplacementLives
    BY DEF StoreInv
  <1>2. QED
    BY <1>1, StoreInvariantHolds, PTL

(* Only a pass makes an entry ready, and the row locks it holds while the     *)
(* provider works ensure that the vector is of the text the entry has then.   *)
THEOREM PassesAreFresh == StoreSpec => FreshVectors
  <1> DEFINE FreshNow == \A e \in EntryId :
               entry'[e].status = "ready" /\ entry[e].status # "ready" =>
                   entry'[e].live /\ entry'[e].vector = entry'[e].content
  <1>1. StoreInv /\ [NextStore]_storeVars => [FreshNow]_storeVars
    <2> SUFFICES ASSUME StoreInv, NextStore, NEW e \in EntryId,
                        entry'[e].status = "ready", entry[e].status # "ready"
                 PROVE  entry'[e].live /\ entry'[e].vector = entry'[e].content
      BY DEF storeVars
    <2>0. StoreTypeOK /\ Inserted /\ entry \in [EntryId -> EntryRow] /\ created \in 0..MaxEntries
      BY Rows DEF StoreInv
    <2>1. ASSUME NEW text \in Text, NEW own \in BOOLEAN, create(text, own) PROVE FALSE
      BY <2>0, <2>1, NewEntryOK DEF create
    <2>2. ASSUME NEW u \in Editor, NEW f \in EntryId, NEW text \in Text, BeginUpdate(u, f, text)
          PROVE  FALSE
      BY <2>2 DEF BeginUpdate
    <2>3. ASSUME NEW u \in Editor, FlushUpdate(u) PROVE FALSE
      <3>1. edit[u].target \in EntryId /\ edit[u] \in EditRow /\ edit[u].new \in Text
        BY <2>0, <2>3, Rows DEF FlushUpdate, Inserted
      <3>2. entry'[e] \in {entry[e], Flushed(entry[e], edit[u])}
        BY <2>0, <2>3, <3>1 DEF FlushUpdate
      <3>3. QED
        BY <2>0, <3>1, <3>2, FlushedOK
    <2>4. ASSUME NEW f \in EntryId, NEW text \in Text, NEW own \in BOOLEAN, supersede(f, text, own)
          PROVE  FALSE
      <3>1. entry' = [entry EXCEPT ![created + 1] = NewEntry(text, own),
                                   ![f].superseded = created + 1]
        BY <2>4 DEF supersede
      <3>2. f # created + 1
        BY <2>0, <2>4 DEF supersede, Inserted, EntryId
      <3>3. CASE e = created + 1
        BY <2>0, <3>1, <3>2, <3>3, NewEntryOK
      <3>4. CASE e # created + 1
        <4>1. entry'[e] \in {entry[e], [entry[e] EXCEPT !.superseded = created + 1]}
          BY <2>0, <3>1, <3>2, <3>4
        <4>2. entry[e] \in EntryRow
          BY <2>0
        <4>3. entry'[e].status = entry[e].status
          BY <4>1, <4>2 DEF EntryRow
        <4>4. QED
          BY <4>3
      <3>5. QED
        BY <3>3, <3>4
    <2>5. ASSUME NEW f \in EntryId, delete(f) PROVE FALSE
      <3>1. entry'[e] \in {NoEntry, entry[e], [entry[e] EXCEPT !.superseded = NoId]}
        BY <2>5 DEF delete
      <3>2. entry[e] \in EntryRow
        BY <2>0
      <3>3. [entry[e] EXCEPT !.superseded = NoId].status = entry[e].status
        BY <3>2 DEF EntryRow
      <3>4. QED
        BY <3>1, <3>3, NoEntryOK
    <2>6. ASSUME NEW w \in Worker, LockBatch(w) PROVE FALSE
      BY <2>6 DEF LockBatch
    <2>7. ASSUME NEW w \in Worker, Embed(w)
          PROVE  entry'[e].live /\ entry'[e].vector = entry'[e].content
      BY <2>7, EmbedRows
    <2>8. ASSUME NEW w \in Worker, EmbedFails(w) PROVE FALSE
      BY <2>8, EmbedFailsRows
    <2>9. ASSUME NEW w \in Worker, CrashBackfill(w) PROVE FALSE
      BY <2>9 DEF CrashBackfill
    <2>10. QED
      BY <2>1, <2>2, <2>3, <2>4, <2>5, <2>6, <2>7, <2>8, <2>9 DEF NextStore
  <1>2. QED
    BY <1>1, StoreInvariantHolds, PTL DEF StoreSpec, FreshVectors
=============================================================================
