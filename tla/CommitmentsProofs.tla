-------------------------- MODULE CommitmentsProofs --------------------------
(* Machine-checked theorems about the specification of module Commitments.    *)
EXTENDS Commitments, FiniteSetTheorems, TLAPS

(* What an explanation is worth: a commitment that was never deferred has no  *)
(* window; deferrals exceed explanations by at most one; and while a window   *)
(* is set, an explanation given in it has not been spent yet.                 *)
Credit(row) ==
    /\ row.status \in {"Absent", "Open"} => row.deferrals = 0 /\ row.window = NoTime
    /\ row.deferrals <= row.facts + 1
    /\ row.window # NoTime /\ window_explanation(row) => row.deferrals <= row.facts

(* A create() in flight is for a commitment that does not exist yet.          *)
PendingAbsent == \A c \in Commitment : pending[c] # NoRequest => rows[c].status = "Absent"

(* The inductive invariant.                                                   *)
IInv == TypeOK /\ PendingAbsent /\ \A c \in Commitment : Credit(rows[c])

-----------------------------------------------------------------------------
(* Lemmas on the effects on one row *)

(* The local date of a clock reading is an integer.                           *)
LEMMA TodayType == TypeOK => today \in Int /\ profile.tz \in Nat
  BY DayLenAssumption, OffsetsAssumption DEF TypeOK, today, local_date

(* Appending a ledger event keeps a row well formed.                          *)
LEMMA EventOK ==
  ASSUME now \in Nat, NEW row \in Row, NEW type \in EventType, NEW new \in Status, NEW due \in Int
  PROVE  Event(row, type, new, due) \in Row
  <1> DEFINE e == [type |-> type, new |-> new, due |-> due, at |-> now]
  <1>1. e \in EventRecord
    BY DEF EventRecord
  <1>2. row.events \in Seq(EventRecord)
    BY DEF Row
  <1>3. Append(row.events, e) \in Seq(EventRecord)
    BY <1>1, <1>2
  <1>4. [row EXCEPT !.events = Append(row.events, e)] \in Row
    BY <1>3 DEF Row
  <1>5. QED
    BY <1>4 DEF Event

(* Publishing a message keeps a row well formed.                              *)
LEMMA PublishOK ==
  ASSUME NEW row \in Row, NEW topic \in Topic, NEW due \in Int
  PROVE  Publish(row, topic, due) \in Row
  <1> DEFINE msg == [topic |-> topic, status |-> row.status, due |-> due]
  <1>1. msg \in Message
    BY DEF Message, Row
  <1>2. row.outbox \in Seq(Message)
    BY DEF Row
  <1>3. Append(row.outbox, msg) \in Seq(Message)
    BY <1>1, <1>2
  <1>4. [row EXCEPT !.outbox = Append(row.outbox, msg)] \in Row
    BY <1>3 DEF Row
  <1>5. QED
    BY <1>4 DEF Publish

(* A status transition keeps a row well formed.                               *)
LEMMA TransitionOK ==
  ASSUME now \in Nat, NEW row \in Row, NEW new \in Status \ {"Absent"}, NEW kind \in EventType
  PROVE  transition(row, new, kind) \in Row
  <1> DEFINE moved == [row EXCEPT !.status = new,
                                  !.resolved = IF new \in ACTIVE THEN @ ELSE now]
  <1>1. moved \in Row /\ moved.due \in Int
    <2>1. row.resolved \in Int /\ row.due \in Int /\ now \in Int
      BY DEF Row
    <2>2. (IF new \in ACTIVE THEN row.resolved ELSE now) \in Int
      BY <2>1
    <2>3. QED
      BY <2>1, <2>2 DEF Row
  <1>2. Event(moved, kind, new, moved.due) \in Row
    BY <1>1, EventOK
  <1>3. Publish(Event(moved, kind, new, moved.due), "status_changed", moved.due) \in Row
    BY <1>1, <1>2, PublishOK DEF Topic
  <1>4. QED
    BY <1>3 DEF transition

(* The cases of the deadline rule.                                            *)
LEMMA DeadlineCases ==
  ASSUME TypeOK, NEW row \in Row
  PROVE  /\ deadline_action(row) \in {"none", "break", "open_window"}
         /\ deadline_action(row) = "break" => row.status \in ACTIVE /\ row.due < today
         /\ deadline_action(row) = "open_window" =>
              row.status = "Deferred" /\ row.window = NoTime
         /\ row.status \notin ACTIVE => deadline_action(row) = "none"
  <1>1. row.due \in Int /\ today \in Int /\ row.status \in Status
    BY TodayType DEF Row
  <1>2. QED
    BY <1>1 DEF deadline_action, ACTIVE, Status

(* Opening an explanation window keeps a row well formed.                     *)
LEMMA OpenWindowOK ==
  ASSUME TypeOK, NEW row \in Row
  PROVE  OpenWindow(row) \in Row
  <1> DEFINE due_end == day_end(row.due, profile.tz)
             from == IF due_end > now THEN due_end ELSE now
             opened == [row EXCEPT !.window = from + Window]
  <1>1. now \in Nat /\ row.due \in Int /\ profile.tz \in Nat
    BY TodayType DEF TypeOK, Row
  <1>2. due_end \in Int
    BY <1>1, DayLenAssumption DEF day_end
  <1>3. from + Window \in Int
    BY <1>1, <1>2, WindowAssumption
  <1>4. opened \in Row
    BY <1>3 DEF Row
  <1>5. Event(opened, "explanation_window_opened", "Deferred", NoDate) \in Row
    BY <1>1, <1>4, EventOK DEF EventType, Status, NoDate
  <1>6. QED
    BY <1>5, PublishOK DEF OpenWindow, Topic, NoDate

(* Applying the deadline rules keeps a row well formed.                       *)
LEMMA ApplyDeadlineOK ==
  ASSUME TypeOK, NEW row \in Row
  PROVE  apply_deadline(row) \in Row
  <1>1. transition(row, "Broken", "broken") \in Row
    BY TransitionOK DEF TypeOK, Status, EventType
  <1>2. QED
    BY <1>1, OpenWindowOK, DeadlineCases DEF apply_deadline

(* Re-evaluating a commitment keeps its row well formed.                      *)
LEMMA ReevaluateOK ==
  ASSUME TypeOK, NEW row \in Row, NEW acts
  PROVE  reevaluate(row, acts) \in Row
  <1>1. apply_deadline(row) \in Row
    BY ApplyDeadlineOK
  <1>2. transition(apply_deadline(row), "Kept", "kept") \in Row
    BY <1>1, TransitionOK DEF TypeOK, Status, EventType
  <1>3. QED
    BY <1>1, <1>2 DEF reevaluate

(* The row with its cancelled links removed, before it is re-evaluated, is    *)
(* well formed.                                                               *)
LEMMA CancelLinksParts ==
  ASSUME TypeOK, NEW row \in Row, NEW lost \in SUBSET DailyAction, NEW acts
  PROVE  LET removal == [type |-> "link_removed", new |-> row.status, due |-> NoDate, at |-> now]
             tail == [i \in 1..Cardinality(lost) |-> removal]
             cut == [row EXCEPT !.links = @ \ lost, !.events = @ \o tail]
             adjusted == IF Backing(cut, acts) = {} /\ cut.condition # "explicit"
                         THEN Event([cut EXCEPT !.condition = "explicit"],
                                    "condition_changed", cut.status, NoDate)
                         ELSE cut
         IN  Publish(adjusted, "condition_changed", NoDate) \in Row
  <1> DEFINE removal == [type |-> "link_removed", new |-> row.status, due |-> NoDate, at |-> now]
             tail == [i \in 1..Cardinality(lost) |-> removal]
             cut == [row EXCEPT !.links = @ \ lost, !.events = @ \o tail]
             adjusted == IF Backing(cut, acts) = {} /\ cut.condition # "explicit"
                         THEN Event([cut EXCEPT !.condition = "explicit"],
                                    "condition_changed", cut.status, NoDate)
                         ELSE cut
  <1>1. now \in Nat
    BY DEF TypeOK
  <1>2. tail \in Seq(EventRecord)
    <2>1. removal \in EventRecord
      BY <1>1 DEF EventRecord, Row, EventType, NoDate
    <2>2. Cardinality(lost) \in Nat
      BY FiniteAssumption, FS_Subset, FS_CardinalityType
    <2>3. QED
      BY <2>1, <2>2
  <1>3. cut \in Row
    <2>1. row.events \in Seq(EventRecord) /\ row.links \in SUBSET DailyAction
      BY DEF Row
    <2>2. row.events \o tail \in Seq(EventRecord)
      BY <2>1, <1>2
    <2>3. row.links \ lost \in SUBSET DailyAction
      BY <2>1
    <2> HIDE DEF tail
    <2>4. QED
      BY <2>2, <2>3 DEF Row
  <1>4. adjusted \in Row
    <2> HIDE DEF cut
    <2>1. [cut EXCEPT !.condition = "explicit"] \in Row
      BY <1>3 DEF Row, Condition
    <2>2. cut.status \in Status
      BY <1>3 DEF Row
    <2>3. Event([cut EXCEPT !.condition = "explicit"],
                "condition_changed", cut.status, NoDate) \in Row
      BY <1>1, <2>1, <2>2, EventOK DEF EventType, NoDate
    <2>4. QED
      BY <1>3, <2>3
  <1>5. QED
    BY <1>4, PublishOK DEF Topic, NoDate

(* Removing cancelled links keeps a row well formed.                          *)
LEMMA CancelLinksOK ==
  ASSUME TypeOK, NEW row \in Row, NEW lost \in SUBSET DailyAction, NEW acts
  PROVE  CancelLinks(row, lost, acts) \in Row
  BY CancelLinksParts, ReevaluateOK DEF CancelLinks

(* A deferral keeps a row well formed.                                        *)
LEMMA DeferredRowOK ==
  ASSUME TypeOK, NEW row \in Row, NEW new_due \in Int
  PROVE  DeferredRow(row, new_due) \in Row
  <1> DEFINE moved == [row EXCEPT !.deferrals = @ + 1, !.due = new_due, !.window = NoTime]
             kind == IF row.status = "Open" THEN "deferred" ELSE "redeferred"
  <1>1. moved \in Row
    <2>1. row.deferrals + 1 \in Nat /\ NoTime \in Int
      BY DEF Row, NoTime
    <2>2. QED
      BY <2>1 DEF Row
  <1>2. kind \in EventType
    BY DEF EventType
  <1> HIDE DEF moved, kind
  <1>3. transition(moved, "Deferred", kind) \in Row
    BY <1>1, <1>2, TransitionOK DEF TypeOK, Status
  <1>4. QED
    BY <1>3 DEF DeferredRow, moved, kind

(* An explanation keeps a row well formed.                                    *)
LEMMA ExplainedRowOK ==
  ASSUME TypeOK, NEW row \in Row
  PROVE  ExplainedRow(row) \in Row
  <1> DEFINE told == Event(row, "explanation_submitted", "Deferred", NoDate)
  <1>1. told \in Row
    BY EventOK DEF TypeOK, EventType, Status, NoDate
  <1> HIDE DEF told
  <1>2. told.facts + 1 \in Nat
    BY <1>1 DEF Row
  <1>3. [told EXCEPT !.facts = told.facts + 1] \in Row
    BY <1>1, <1>2 DEF Row
  <1>4. QED
    BY <1>3 DEF ExplainedRow, told

(* The row of a commitment not created yet is well formed.                    *)
LEMMA NoRowOK == NoRow \in Row
  BY DEF NoRow, Row, Status, Condition, NoDate, NoTime

(* A committed request is a well-formed row.                                  *)
LEMMA CreatedRowOK ==
  ASSUME NEW r \in Request
  PROVE  CreatedRow(r) \in Row
  <1> DEFINE e == [type |-> "created", new |-> "Open", due |-> r.due, at |-> r.at]
  <1>1. e \in EventRecord
    BY DEF EventRecord, Request, EventType, Status
  <1>2. <<e>> \in Seq(EventRecord)
    BY <1>1
  <1>3. /\ r.due \in Int /\ r.condition \in Condition /\ r.links \in SUBSET DailyAction
        /\ "Open" \in Status
    BY DEF Request, Status
  <1> HIDE DEF e
  <1>4. [NoRow EXCEPT !.status = "Open", !.due = r.due, !.condition = r.condition,
                      !.links = r.links, !.events = <<e>>] \in Row
    BY <1>2, <1>3, NoRowOK DEF Row
  <1>5. QED
    BY <1>4 DEF CreatedRow, e

(* The part of the type invariant about the score.                            *)
SnapshotsOK ==
    /\ DOMAIN snapshots \subseteq Int
    /\ snapshots \in [DOMAIN snapshots -> [kept : Nat, broken : Nat, overdue : Nat]]
    /\ DOMAIN flags \subseteq Int
    /\ flags \in [DOMAIN flags -> {"open", "resolved"}]

(* refresh() leaves well-formed snapshots and flags.                          *)
LEMMA RefreshOK ==
  ASSUME TypeOK, rows' \in [Commitment -> Row], refresh
  PROVE  SnapshotsOK'
  <1> DEFINE counts == compute(rows', today, profile.tz)
  <1>1. today \in Int
    BY TodayType
  <1>2. counts \in [kept : Nat, broken : Nat, overdue : Nat]
    <2>1. DOMAIN rows' = Commitment
      OBVIOUS
    <2>2. \A S \in SUBSET Commitment : Cardinality(S) \in Nat
      BY FiniteAssumption, FS_Subset, FS_CardinalityType
    <2>3. QED
      BY <2>1, <2>2 DEF compute
  <1> HIDE DEF counts
  <1>3. /\ snapshots' = Upsert(snapshots, today, counts)
        /\ flags' = FlagsAfter(flags, snapshots, today, counts, profile.threshold)
    BY DEF refresh, counts
  <1>4. /\ DOMAIN snapshots' \subseteq Int
        /\ snapshots' \in [DOMAIN snapshots' -> [kept : Nat, broken : Nat, overdue : Nat]]
    BY <1>1, <1>2, <1>3 DEF Upsert, TypeOK
  <1>5. \/ flags' = raise_flag(flags, today)
        \/ flags' = resolve_flags(flags)
        \/ flags' = flags
    BY <1>3 DEF FlagsAfter
  <1>6. DOMAIN flags' \subseteq Int /\ flags' \in [DOMAIN flags' -> {"open", "resolved"}]
    BY <1>1, <1>5 DEF raise_flag, resolve_flags, TypeOK
  <1>7. QED
    BY <1>4, <1>6 DEF SnapshotsOK

-----------------------------------------------------------------------------
(* Type correctness *)

(* The initial state is well typed.                                           *)
LEMMA TypeInit == Init => TypeOK
  <1> SUFFICES ASSUME Init PROVE TypeOK
    OBVIOUS
  <1>1. now \in Nat /\ profile \in [tz : Offsets, threshold : Thresholds]
    BY DEF Init
  <1>2. actions \in [DailyAction -> ActionRow]
    BY DEF Init, ActionRow
  <1>3. rows \in [Commitment -> Row]
    BY NoRowOK DEF Init
  <1>4. pending \in [Commitment -> Request]
    <2>1. NoRequest \in Request
      BY DEF NoRequest, Request, Condition, NoDate, NoTime
    <2>2. QED
      BY <2>1 DEF Init
  <1>5. SnapshotsOK
    BY DEF Init, SnapshotsOK
  <1>6. QED
    BY <1>1, <1>2, <1>3, <1>4, <1>5 DEF TypeOK, SnapshotsOK

(* A step of a handler that leaves well-formed rows and daily actions, and    *)
(* refreshes the score or leaves it alone, leaves a well-typed state.         *)
LEMMA HandlerType ==
  ASSUME TypeOK,
         rows' \in [Commitment -> Row],
         actions' \in [DailyAction -> ActionRow],
         refresh \/ UNCHANGED <<snapshots, flags>>,
         UNCHANGED <<now, profile, pending>>
  PROVE  TypeOK'
  <1>1. SnapshotsOK'
    <2>1. CASE refresh
      BY <2>1, RefreshOK
    <2>2. CASE UNCHANGED <<snapshots, flags>>
      BY <2>2 DEF TypeOK, SnapshotsOK
    <2>3. QED
      BY <2>1, <2>2
  <1>2. QED
    BY <1>1 DEF TypeOK, SnapshotsOK

(* Every step preserves the types.                                            *)
LEMMA TypeStep == TypeOK /\ [Next]_vars => TypeOK'
  <1> SUFFICES ASSUME TypeOK, [Next]_vars PROVE TypeOK'
    OBVIOUS
  <1>0. /\ now \in Nat /\ rows \in [Commitment -> Row]
        /\ actions \in [DailyAction -> ActionRow] /\ pending \in [Commitment -> Request]
    BY DEF TypeOK
  <1>1. CASE Tick
    BY <1>1 DEF Tick, TypeOK
  <1>2. ASSUME NEW p \in [tz : Offsets, threshold : Thresholds], UpdateProfile(p)
        PROVE  TypeOK'
    BY <1>2 DEF UpdateProfile, TypeOK
  <1>3. ASSUME NEW c \in Commitment, NEW links \in SUBSET DailyAction,
               NEW requested \in Condition \cup {"none"}, NEW due \in 0..MaxDay,
               BeginCreate(c, links, requested, due)
        PROVE  TypeOK'
    <2> DEFINE condition == resolve_condition(requested, Cardinality(links))
               r == [links |-> links, condition |-> condition, due |-> due, at |-> now]
    <2>1. condition \in Condition
      BY <1>3 DEF BeginCreate, resolve_condition, Condition
    <2>2. r \in Request
      BY <1>0, <2>1, BoundAssumption DEF Request
    <2>3. pending' = [pending EXCEPT ![c] = r]
      BY <1>3 DEF BeginCreate
    <2> HIDE DEF r
    <2>4. pending' \in [Commitment -> Request]
      BY <1>0, <2>2, <2>3
    <2>5. QED
      BY <1>3, <2>4 DEF BeginCreate, TypeOK
  <1>4. ASSUME NEW c \in Commitment, CommitCreate(c)
        PROVE  TypeOK'
    <2>1. CreatedRow(pending[c]) \in Row
      BY <1>0, CreatedRowOK
    <2>2. rows' \in [Commitment -> Row]
      BY <1>0, <1>4, <2>1 DEF CommitCreate
    <2>3. NoRequest \in Request
      BY DEF NoRequest, Request, Condition, NoDate, NoTime
    <2>4. pending' \in [Commitment -> Request]
      BY <1>0, <1>4, <2>3 DEF CommitCreate
    <2>5. QED
      BY <1>4, <2>2, <2>4 DEF CommitCreate, TypeOK
  <1>5. ASSUME NEW c \in Commitment, NEW new \in {"Kept", "Cancelled"},
               NEW kind \in EventType, explicit(c, new, kind)
        PROVE  TypeOK'
    <2> DEFINE row == apply_deadline(rows[c])
    <2>1. row \in Row
      BY <1>0, ApplyDeadlineOK
    <2>2. transition(row, new, kind) \in Row
      BY <1>0, <2>1, TransitionOK DEF Status
    <2>3. rows' \in [Commitment -> Row] /\ refresh /\ UNCHANGED <<now, profile, actions, pending>>
      BY <1>0, <1>5, <2>2 DEF explicit
    <2>4. QED
      BY <1>0, <2>3, HandlerType
  <1>6. ASSUME NEW c \in Commitment, NEW new_due \in 0..MaxDay, NEW acknowledged \in BOOLEAN,
               Defer(c, new_due, acknowledged)
        PROVE  TypeOK'
    <2>1. DeferredRow(apply_deadline(rows[c]), new_due) \in Row
      BY <1>0, ApplyDeadlineOK, DeferredRowOK, BoundAssumption
    <2>2. rows' \in [Commitment -> Row] /\ refresh /\ UNCHANGED <<now, profile, actions, pending>>
      BY <1>0, <1>6, <2>1 DEF Defer
    <2>3. QED
      BY <1>0, <2>2, HandlerType
  <1>7. ASSUME NEW c \in Commitment, Explain(c)
        PROVE  TypeOK'
    <2>1. ExplainedRow(apply_deadline(rows[c])) \in Row
      BY <1>0, ApplyDeadlineOK, ExplainedRowOK
    <2>2. /\ rows' \in [Commitment -> Row]
          /\ UNCHANGED <<now, profile, actions, pending, snapshots, flags>>
      BY <1>0, <1>7, <2>1 DEF Explain
    <2>3. QED
      BY <1>0, <2>2, HandlerType
  <1>8. CASE EvaluateDeadlines
    <2>1. \A c \in Commitment : apply_deadline(rows[c]) \in Row
      BY <1>0, ApplyDeadlineOK
    <2>2. rows' \in [Commitment -> Row] /\ refresh /\ UNCHANGED <<now, profile, actions, pending>>
      BY <1>8, <2>1 DEF EvaluateDeadlines
    <2>3. QED
      BY <1>0, <2>2, HandlerType
  <1>9. ASSUME NEW a \in DailyAction, NEW new \in {"Started", "Completed", "Skipped"},
               RecordCheckIn(a, new)
        PROVE  TypeOK'
    <2>1. \A c \in Commitment : reevaluate(rows[c], actions') \in Row
      BY <1>0, ReevaluateOK
    <2>2. rows' \in [Commitment -> Row]
      BY <1>0, <1>9, <2>1 DEF RecordCheckIn
    <2>3. actions' \in [DailyAction -> ActionRow]
      BY <1>0, <1>9 DEF RecordCheckIn, ActionRow
    <2>4. QED
      BY <1>9, <2>2, <2>3, HandlerType DEF RecordCheckIn, RefreshIfAny
  <1>10. ASSUME NEW A \in SUBSET DailyAction, CancelActions(A)
         PROVE  TypeOK'
    <2>1. \A c \in Commitment : CancelLinks(rows[c], rows[c].links \cap A, actions') \in Row
      BY <1>0, CancelLinksOK
    <2>2. rows' \in [Commitment -> Row]
      BY <1>0, <1>10, <2>1 DEF CancelActions
    <2>3. actions' \in [DailyAction -> ActionRow]
      BY <1>0, <1>10 DEF CancelActions, ActionRow
    <2>4. QED
      BY <1>10, <2>2, <2>3, HandlerType DEF CancelActions, RefreshIfAny
  <1>11. CASE Overview
    BY <1>0, <1>11, HandlerType DEF Overview
  <1>12. CASE UNCHANGED vars
    BY <1>12 DEF vars, TypeOK
  <1>13. QED
    BY <1>1, <1>2, <1>3, <1>4, <1>5, <1>6, <1>7, <1>8, <1>9, <1>10, <1>11, <1>12
       DEF Next, Keep, Cancel, CheckIn, StaleCheckIn, CancelOne, CancelFuture, EventType

(* In every reachable state, for any sets of commitments, actions and zones   *)
(* and any clock, all rows, requests, snapshots and flags have their types.   *)
THEOREM TypeCorrect == Spec => []TypeOK
  <1>1. QED
    BY TypeInit, TypeStep, PTL DEF Spec

-----------------------------------------------------------------------------
(* Resolved commitments never change *)

(* A commitment that is neither Open nor Deferred is changed by no step but   *)
(* the commit of its own creation.                                            *)
LEMMA InactiveRowKept ==
  ASSUME TypeOK, [Next]_vars, NEW c \in Commitment, rows[c].status \notin ACTIVE
  PROVE  rows'[c] = rows[c] \/ CommitCreate(c)
  <1>0. rows \in [Commitment -> Row] /\ rows[c] \in Row /\ rows[c].status \in Status
    BY DEF TypeOK, Row
  <1>1. apply_deadline(rows[c]) = rows[c]
    BY <1>0, DeadlineCases DEF apply_deadline
  <1>2. TRANSITIONS[rows[c].status] = {}
    BY <1>0 DEF TRANSITIONS, ACTIVE, Status
  <1>3. ASSUME NEW d \in Commitment, NEW new \in {"Kept", "Cancelled"}, NEW kind \in EventType,
               explicit(d, new, kind)
        PROVE  rows'[c] = rows[c]
    BY <1>0, <1>1, <1>2, <1>3 DEF explicit
  <1>4. ASSUME NEW d \in Commitment, NEW new_due \in 0..MaxDay, NEW acknowledged \in BOOLEAN,
               Defer(d, new_due, acknowledged)
        PROVE  rows'[c] = rows[c]
    BY <1>0, <1>1, <1>4 DEF Defer, validate_deferral
  <1>5. ASSUME NEW d \in Commitment, Explain(d)
        PROVE  rows'[c] = rows[c]
    BY <1>0, <1>1, <1>5 DEF Explain, validate_explanation, ACTIVE
  <1>6. CASE EvaluateDeadlines
    BY <1>1, <1>6 DEF EvaluateDeadlines
  <1>7. ASSUME NEW a \in DailyAction, NEW new \in {"Started", "Completed", "Skipped"},
               RecordCheckIn(a, new)
        PROVE  rows'[c] = rows[c]
    <2>1. c \notin LinkedActive({a})
      BY DEF LinkedActive
    <2>2. QED
      BY <1>7, <2>1 DEF RecordCheckIn
  <1>8. ASSUME NEW A \in SUBSET DailyAction, CancelActions(A)
        PROVE  rows'[c] = rows[c]
    <2>1. c \notin LinkedActive(A)
      BY DEF LinkedActive
    <2>2. QED
      BY <1>8, <2>1 DEF CancelActions
  <1>9. ASSUME NEW d \in Commitment, CommitCreate(d)
        PROVE  rows'[c] = rows[c] \/ CommitCreate(c)
    BY <1>0, <1>9 DEF CommitCreate
  <1>10. CASE Tick \/ Overview \/ UNCHANGED vars
    BY <1>10 DEF Tick, Overview, vars
  <1>11. ASSUME NEW p, UpdateProfile(p)
         PROVE  rows'[c] = rows[c]
    BY <1>11 DEF UpdateProfile
  <1>12. ASSUME NEW d \in Commitment, NEW links, NEW requested, NEW due,
                BeginCreate(d, links, requested, due)
         PROVE  rows'[c] = rows[c]
    BY <1>12 DEF BeginCreate
  <1>13. QED
    BY <1>3, <1>4, <1>5, <1>6, <1>7, <1>8, <1>9, <1>10, <1>11, <1>12
       DEF Next, Keep, Cancel, CheckIn, StaleCheckIn, CancelOne, CancelFuture, EventType

(* Requests in flight stay in flight only for absent commitments.             *)
LEMMA PendingStep == TypeOK /\ PendingAbsent /\ [Next]_vars => PendingAbsent'
  <1> SUFFICES ASSUME TypeOK, PendingAbsent, [Next]_vars,
                      NEW c \in Commitment, pending'[c] # NoRequest
               PROVE  rows'[c].status = "Absent"
    BY DEF PendingAbsent
  <1>0. pending \in [Commitment -> Request] /\ "Absent" \notin ACTIVE
    BY DEF TypeOK, ACTIVE
  <1>1. rows[c].status = "Absent"
    <2>1. CASE pending'[c] = pending[c]
      BY <2>1 DEF PendingAbsent
    <2>2. CASE pending'[c] # pending[c]
      <3>1. \/ \E d \in Commitment, links \in SUBSET DailyAction,
                  requested \in Condition \cup {"none"}, due \in 0..MaxDay :
                  BeginCreate(d, links, requested, due)
            \/ \E d \in Commitment : CommitCreate(d)
        BY <2>2 DEF Next, vars, Tick, UpdateProfile, Keep, Cancel, explicit, Defer, Explain,
                    EvaluateDeadlines, CheckIn, StaleCheckIn, RecordCheckIn, CancelOne,
                    CancelFuture, CancelActions, Overview
      <3>2. QED
        BY <1>0, <2>2, <3>1 DEF BeginCreate, CommitCreate
    <2>3. QED
      BY <2>1, <2>2
  <1>2. ~ CommitCreate(c)
    BY <1>0 DEF CommitCreate
  <1>3. QED
    BY <1>0, <1>1, <1>2, InactiveRowKept

(* A Kept, Broken or Cancelled commitment is never changed again, in any part *)
(* of its row, however the steps of requests, hooks and sweeps interleave.    *)
THEOREM ResolvedFrozen == Spec => ResolvedRowsFrozen
  <1>1. Init => PendingAbsent
    BY DEF Init, PendingAbsent
  <1>2. TypeOK /\ PendingAbsent /\ [Next]_vars =>
          \A c \in Commitment :
              rows[c].status \in {"Kept", "Broken", "Cancelled"} => rows'[c] = rows[c]
    <2> SUFFICES ASSUME TypeOK, PendingAbsent, [Next]_vars, NEW c \in Commitment,
                        rows[c].status \in {"Kept", "Broken", "Cancelled"}
                 PROVE  rows'[c] = rows[c]
      OBVIOUS
    <2>1. ~ CommitCreate(c)
      BY DEF PendingAbsent, CommitCreate
    <2>2. QED
      BY <2>1, InactiveRowKept DEF ACTIVE
  <1>3. QED
    BY <1>1, <1>2, TypeInit, TypeStep, PendingStep, PTL DEF Spec, ResolvedRowsFrozen

-----------------------------------------------------------------------------
(* Every re-deferral is paid for by an explanation of its own *)

Marks == {"explanation_submitted", "explanation_window_opened"}

(* The explanation status of a row depends on its events alone.               *)
LEMMA SameEvents ==
  ASSUME NEW row \in Row, NEW other \in Row, row.events = other.events
  PROVE  window_explanation(row) <=> window_explanation(other)
  BY DEF window_explanation

(* An event that neither explains nor opens a window changes nothing about    *)
(* the explanation status; one that opens a window resets it.                 *)
LEMMA EventExplained ==
  ASSUME NEW row \in Row, NEW after \in Row, NEW e \in EventRecord,
         after.events = Append(row.events, e)
  PROVE  /\ e.type \notin Marks => (window_explanation(after) <=> window_explanation(row))
         /\ e.type = "explanation_window_opened" => ~ window_explanation(after)
  <1> DEFINE n == Len(row.events)
  <1>1. row.events \in Seq(EventRecord)
    BY DEF Row
  <1>2. /\ n \in Nat /\ DOMAIN row.events = 1..n /\ DOMAIN after.events = 1..(n + 1)
        /\ \A i \in 1..n : after.events[i] = row.events[i]
        /\ after.events[n + 1] = e
    BY <1>1
  <1>3. ASSUME e.type \notin Marks
        PROVE  window_explanation(after) <=> window_explanation(row)
    BY <1>2, <1>3 DEF window_explanation, Marks
  <1>4. ASSUME e.type = "explanation_window_opened"
        PROVE  ~ window_explanation(after)
    BY <1>2, <1>4 DEF window_explanation
  <1>5. QED
    BY <1>3, <1>4

(* What a status transition writes.                                           *)
LEMMA TransitionFields ==
  ASSUME NEW row \in Row, NEW new, NEW kind
  PROVE  LET t == transition(row, new, kind)
         IN  /\ t.status = new
             /\ t.deferrals = row.deferrals /\ t.facts = row.facts /\ t.window = row.window
             /\ t.events = Append(row.events,
                  [type |-> kind, new |-> new, due |-> row.due, at |-> now])
  BY DEF transition, Event, Publish, Row

(* A transition that is no deferral keeps the credit of a row.                *)
LEMMA CreditTransition ==
  ASSUME TypeOK, NEW row \in Row, Credit(row),
         NEW new \in {"Kept", "Broken", "Cancelled"}, NEW kind \in EventType \ Marks
  PROVE  Credit(transition(row, new, kind))
  <1> DEFINE t == transition(row, new, kind)
             e == [type |-> kind, new |-> new, due |-> row.due, at |-> now]
  <1>1. t \in Row
    BY TransitionOK DEF TypeOK, Status
  <1>2. e \in EventRecord /\ e.type \notin Marks
    BY DEF TypeOK, Row, EventRecord, Status
  <1>3. /\ t.status = new /\ t.deferrals = row.deferrals /\ t.facts = row.facts
        /\ t.window = row.window /\ t.events = Append(row.events, e)
    BY TransitionFields
  <1> HIDE DEF t, e
  <1>4. window_explanation(t) <=> window_explanation(row)
    BY <1>1, <1>2, <1>3, EventExplained
  <1>5. QED
    BY <1>3, <1>4 DEF Credit, t

(* What opening a window writes.                                              *)
LEMMA OpenWindowFields ==
  ASSUME NEW row \in Row
  PROVE  LET o == OpenWindow(row)
         IN  /\ o.status = row.status
             /\ o.deferrals = row.deferrals /\ o.facts = row.facts
             /\ o.events = Append(row.events,
                  [type |-> "explanation_window_opened", new |-> "Deferred",
                   due |-> NoDate, at |-> now])
  BY DEF OpenWindow, Event, Publish, Row

(* The deadline rules keep the credit of a row.                               *)
LEMMA CreditDeadline ==
  ASSUME TypeOK, NEW row \in Row, Credit(row)
  PROVE  Credit(apply_deadline(row))
  <1>1. Credit(transition(row, "Broken", "broken"))
    BY CreditTransition DEF EventType, Marks
  <1>2. ASSUME deadline_action(row) = "open_window"
        PROVE  Credit(OpenWindow(row))
    <2> DEFINE o == OpenWindow(row)
               e == [type |-> "explanation_window_opened", new |-> "Deferred",
                     due |-> NoDate, at |-> now]
    <2>1. o \in Row /\ row.status = "Deferred"
      BY <1>2, OpenWindowOK, DeadlineCases
    <2>2. e \in EventRecord /\ e.type = "explanation_window_opened"
      BY DEF TypeOK, EventRecord, EventType, Status, NoDate
    <2>3. /\ o.status = row.status /\ o.deferrals = row.deferrals /\ o.facts = row.facts
          /\ o.events = Append(row.events, e)
      BY OpenWindowFields
    <2> HIDE DEF o, e
    <2>4. ~ window_explanation(o)
      BY <2>1, <2>2, <2>3, EventExplained
    <2>5. QED
      BY <2>1, <2>3, <2>4 DEF Credit, o
  <1>3. QED
    BY <1>1, <1>2, DeadlineCases DEF apply_deadline

(* Re-evaluation keeps the credit of a row.                                   *)
LEMMA CreditReevaluate ==
  ASSUME TypeOK, NEW row \in Row, Credit(row), NEW acts
  PROVE  Credit(reevaluate(row, acts))
  <1>1. apply_deadline(row) \in Row /\ Credit(apply_deadline(row))
    BY ApplyDeadlineOK, CreditDeadline
  <1>2. Credit(transition(apply_deadline(row), "Kept", "kept"))
    BY <1>1, CreditTransition DEF EventType, Marks
  <1>3. QED
    BY <1>1, <1>2 DEF reevaluate

(* Removing cancelled links keeps the credit of a row.                        *)
LEMMA CreditCancelLinks ==
  ASSUME TypeOK, NEW row \in Row, Credit(row), NEW lost \in SUBSET DailyAction, NEW acts
  PROVE  Credit(CancelLinks(row, lost, acts))
  <1> DEFINE removal == [type |-> "link_removed", new |-> row.status, due |-> NoDate, at |-> now]
             tail == [i \in 1..Cardinality(lost) |-> removal]
             cut == [row EXCEPT !.links = @ \ lost, !.events = @ \o tail]
             note == [type |-> "condition_changed", new |-> cut.status, due |-> NoDate, at |-> now]
             changed == Event([cut EXCEPT !.condition = "explicit"],
                              "condition_changed", cut.status, NoDate)
             adjusted == IF Backing(cut, acts) = {} /\ cut.condition # "explicit"
                         THEN changed ELSE cut
             told == Publish(adjusted, "condition_changed", NoDate)
  <1>1. now \in Nat /\ Cardinality(lost) \in Nat /\ row.events \in Seq(EventRecord)
    BY FiniteAssumption, FS_Subset, FS_CardinalityType DEF TypeOK, Row
  <1>2. removal \in EventRecord /\ removal.type = "link_removed"
    BY <1>1 DEF EventRecord, Row, EventType, NoDate
  <1>3. tail \in Seq(EventRecord) /\ Len(tail) = Cardinality(lost)
        /\ \A i \in 1..Len(tail) : tail[i].type = "link_removed"
    BY <1>1, <1>2
  <1>4. /\ row.events \o tail \in Seq(EventRecord)
        /\ row.links \ lost \in SUBSET DailyAction
    BY <1>1, <1>3 DEF Row
  <1>5. /\ cut \in Row /\ cut.status = row.status /\ cut.deferrals = row.deferrals
        /\ cut.facts = row.facts /\ cut.window = row.window /\ cut.events = row.events \o tail
    <2> HIDE DEF tail
    <2>1. QED
      BY <1>4 DEF Row
  <1>6. window_explanation(cut) <=> window_explanation(row)
    <2> DEFINE n == Len(row.events)
               k == Len(tail)
    <2>1. /\ n \in Nat /\ k \in Nat /\ DOMAIN row.events = 1..n /\ DOMAIN cut.events = 1..(n + k)
          /\ \A i \in 1..n : cut.events[i] = row.events[i]
          /\ \A i \in (n + 1)..(n + k) : cut.events[i] = tail[i - n]
      <3> HIDE DEF tail, cut
      <3>1. QED
        BY <1>1, <1>3, <1>5
    <2>2. \A i \in (n + 1)..(n + k) : cut.events[i].type = "link_removed"
      <3> HIDE DEF tail, cut
      <3>1. QED
        BY <1>3, <2>1
    <2> HIDE DEF n, k, tail, cut
    <2>3. ASSUME window_explanation(cut) PROVE window_explanation(row)
      <3>1. PICK i \in 1..(n + k) :
                /\ cut.events[i].type = "explanation_submitted"
                /\ \A j \in 1..(n + k) :
                      cut.events[j].type = "explanation_window_opened" => j < i
        BY <2>1, <2>3 DEF window_explanation
      <3>2. i \in 1..n
        BY <2>1, <2>2, <3>1
      <3>3. \A j \in 1..n : row.events[j].type = "explanation_window_opened" => j < i
        BY <2>1, <3>1
      <3>4. QED
        BY <2>1, <3>1, <3>2, <3>3 DEF window_explanation
    <2>4. ASSUME window_explanation(row) PROVE window_explanation(cut)
      <3>1. PICK i \in 1..n :
                /\ row.events[i].type = "explanation_submitted"
                /\ \A j \in 1..n :
                      row.events[j].type = "explanation_window_opened" => j < i
        BY <2>1, <2>4 DEF window_explanation
      <3>2. ASSUME NEW j \in 1..(n + k), cut.events[j].type = "explanation_window_opened"
            PROVE  j < i
        <4>1. j \in 1..n
          BY <2>1, <2>2, <3>2
        <4>2. QED
          BY <2>1, <3>1, <3>2, <4>1
      <3>3. i \in 1..(n + k) /\ cut.events[i].type = "explanation_submitted"
        BY <2>1, <3>1
      <3>4. QED
        BY <2>1, <3>2, <3>3 DEF window_explanation
    <2>5. QED
      BY <2>3, <2>4
  <1>7. Credit(cut)
    <2> HIDE DEF cut
    <2>1. QED
      BY <1>5, <1>6 DEF Credit
  <1> HIDE DEF cut
  <1>8. note \in EventRecord /\ note.type \notin Marks
    BY <1>1, <1>5 DEF EventRecord, EventType, Row, NoDate, Marks
  <1>9. changed \in Row /\ Credit(changed)
    <2>1. [cut EXCEPT !.condition = "explicit"] \in Row /\ cut.status \in Status
      BY <1>5 DEF Row, Condition
    <2>2. changed \in Row
      BY <1>1, <2>1, EventOK DEF EventType, NoDate
    <2>3. /\ changed.status = cut.status /\ changed.deferrals = cut.deferrals
          /\ changed.facts = cut.facts /\ changed.window = cut.window
          /\ changed.events = Append(cut.events, note)
      BY <1>5 DEF Event, Row
    <2> HIDE DEF changed, note
    <2>4. window_explanation(changed) <=> window_explanation(cut)
      BY <1>5, <1>8, <2>2, <2>3, EventExplained
    <2>5. QED
      BY <1>7, <2>2, <2>3, <2>4 DEF Credit
  <1> HIDE DEF changed
  <1>10. adjusted \in Row /\ Credit(adjusted)
    BY <1>5, <1>7, <1>9
  <1> HIDE DEF adjusted
  <1>11. told \in Row /\ Credit(told)
    <2>1. told \in Row
      BY <1>10, PublishOK DEF Topic, NoDate
    <2>2. /\ told.status = adjusted.status /\ told.deferrals = adjusted.deferrals
          /\ told.facts = adjusted.facts /\ told.window = adjusted.window
          /\ told.events = adjusted.events
      BY <1>10 DEF Publish, Row
    <2> HIDE DEF told
    <2>3. window_explanation(told) <=> window_explanation(adjusted)
      BY <1>10, <2>1, <2>2, SameEvents
    <2>4. QED
      BY <1>10, <2>1, <2>2, <2>3 DEF Credit
  <1>12. Credit(reevaluate(told, acts))
    <2> HIDE DEF told
    <2>1. QED
      BY <1>11, CreditReevaluate
  <1>13. QED
    BY <1>12 DEF CancelLinks, told, adjusted, changed, cut

(* A deferral spends the explanation it required.                             *)
LEMMA CreditDeferred ==
  ASSUME TypeOK, NEW row \in Row, Credit(row), NEW new_due \in Int, NEW acknowledged,
         validate_deferral(row, new_due, acknowledged)
  PROVE  Credit(DeferredRow(row, new_due))
  <1> DEFINE moved == [row EXCEPT !.deferrals = @ + 1, !.due = new_due, !.window = NoTime]
             kind == IF row.status = "Open" THEN "deferred" ELSE "redeferred"
             t == transition(moved, "Deferred", kind)
  <1>1. row.deferrals \in Nat /\ row.facts \in Nat
    BY DEF Row
  <1>2. moved \in Row
    <2>1. row.deferrals + 1 \in Nat /\ NoTime \in Int
      BY <1>1 DEF NoTime
    <2>2. QED
      BY <2>1 DEF Row
  <1>3. moved.deferrals = row.deferrals + 1 /\ moved.facts = row.facts /\ moved.window = NoTime
    BY DEF Row
  <1> HIDE DEF moved, kind
  <1>4. /\ t.status = "Deferred" /\ t.deferrals = row.deferrals + 1
        /\ t.facts = row.facts /\ t.window = NoTime
    <2>1. /\ t.status = "Deferred" /\ t.deferrals = moved.deferrals
          /\ t.facts = moved.facts /\ t.window = moved.window
      BY <1>2 DEF transition, Event, Publish, Row
    <2> HIDE DEF t
    <2>2. QED
      BY <1>3, <2>1
  <1>5. row.deferrals <= row.facts
    BY <1>1 DEF validate_deferral, window_open, ACTIVE, Credit
  <1> HIDE DEF t
  <1>6. Credit(t)
    BY <1>1, <1>4, <1>5 DEF Credit
  <1>7. QED
    BY <1>6 DEF DeferredRow, t, moved, kind

(* An explanation is accepted only when none is unspent.                      *)
LEMMA CreditExplained ==
  ASSUME TypeOK, NEW row \in Row, Credit(row), validate_explanation(row)
  PROVE  Credit(ExplainedRow(row))
  <1>1. row.deferrals \in Nat /\ row.facts \in Nat
    BY DEF Row
  <1>2. LET x == ExplainedRow(row)
        IN  x.status = row.status /\ x.deferrals = row.deferrals /\ x.facts = row.facts + 1
    BY DEF ExplainedRow, Event, Row
  <1>3. row.status = "Deferred"
    BY DEF validate_explanation
  <1>4. QED
    BY <1>1, <1>2, <1>3 DEF Credit

(* A new commitment starts without credit or debt.                            *)
LEMMA CreditCreated ==
  ASSUME NEW r \in Request
  PROVE  Credit(CreatedRow(r)) /\ Credit(NoRow)
  <1>1. LET x == CreatedRow(r) IN x.deferrals = 0 /\ x.facts = 0 /\ x.window = NoTime
    BY DEF CreatedRow, NoRow
  <1>2. NoRow.deferrals = 0 /\ NoRow.facts = 0 /\ NoRow.window = NoTime
    BY DEF NoRow
  <1>3. QED
    BY <1>1, <1>2 DEF Credit

(* Every step keeps the credit of every row.                                  *)
LEMMA CreditStep == IInv /\ [Next]_vars => \A c \in Commitment : Credit(rows'[c])
  <1> SUFFICES ASSUME IInv, [Next]_vars, NEW c \in Commitment
               PROVE  Credit(rows'[c])
    OBVIOUS
  <1>0. /\ TypeOK /\ rows \in [Commitment -> Row] /\ rows[c] \in Row /\ Credit(rows[c])
        /\ pending[c] \in Request
    BY DEF IInv, TypeOK
  <1>1. apply_deadline(rows[c]) \in Row /\ Credit(apply_deadline(rows[c]))
    BY <1>0, ApplyDeadlineOK, CreditDeadline
  <1>2. ASSUME rows'[c] = rows[c]
        PROVE  Credit(rows'[c])
    BY <1>0, <1>2
  <1>3. ASSUME NEW d \in Commitment, NEW new \in {"Kept", "Cancelled"},
               NEW kind \in EventType \ Marks, explicit(d, new, kind)
        PROVE  Credit(rows'[c])
    <2>1. Credit(transition(apply_deadline(rows[c]), new, kind))
      BY <1>0, <1>1, CreditTransition
    <2>2. QED
      BY <1>0, <1>2, <1>3, <2>1 DEF explicit
  <1>4. ASSUME NEW d \in Commitment, NEW new_due \in 0..MaxDay, NEW acknowledged \in BOOLEAN,
               Defer(d, new_due, acknowledged)
        PROVE  Credit(rows'[c])
    <2>1. CASE c = d
      <3>1. Credit(DeferredRow(apply_deadline(rows[c]), new_due))
        BY <1>0, <1>1, <1>4, <2>1, CreditDeferred, BoundAssumption DEF Defer
      <3>2. QED
        BY <1>0, <1>4, <2>1, <3>1 DEF Defer
    <2>2. CASE c # d
      BY <1>0, <1>2, <1>4, <2>2 DEF Defer
    <2>3. QED
      BY <2>1, <2>2
  <1>5. ASSUME NEW d \in Commitment, Explain(d)
        PROVE  Credit(rows'[c])
    <2>1. CASE c = d
      <3>1. Credit(ExplainedRow(apply_deadline(rows[c])))
        BY <1>0, <1>1, <1>5, <2>1, CreditExplained DEF Explain
      <3>2. QED
        BY <1>0, <1>5, <2>1, <3>1 DEF Explain
    <2>2. CASE c # d
      BY <1>0, <1>2, <1>5, <2>2 DEF Explain
    <2>3. QED
      BY <2>1, <2>2
  <1>6. CASE EvaluateDeadlines
    BY <1>1, <1>6 DEF EvaluateDeadlines
  <1>7. ASSUME NEW a \in DailyAction, NEW new, RecordCheckIn(a, new)
        PROVE  Credit(rows'[c])
    <2>1. Credit(reevaluate(rows[c], actions'))
      BY <1>0, CreditReevaluate
    <2>2. rows'[c] = reevaluate(rows[c], actions') \/ rows'[c] = rows[c]
      BY <1>7 DEF RecordCheckIn
    <2>3. QED
      BY <1>2, <2>1, <2>2
  <1>8. ASSUME NEW A \in SUBSET DailyAction, CancelActions(A)
        PROVE  Credit(rows'[c])
    <2>1. Credit(CancelLinks(rows[c], rows[c].links \cap A, actions'))
      BY <1>0, CreditCancelLinks
    <2>2. rows'[c] = CancelLinks(rows[c], rows[c].links \cap A, actions') \/ rows'[c] = rows[c]
      BY <1>8 DEF CancelActions
    <2>3. QED
      BY <1>2, <2>1, <2>2
  <1>9. ASSUME NEW d \in Commitment, CommitCreate(d)
        PROVE  Credit(rows'[c])
    <2>1. rows'[c] = CreatedRow(pending[c]) \/ rows'[c] = rows[c]
      BY <1>0, <1>9 DEF CommitCreate
    <2>2. QED
      BY <1>0, <1>2, <2>1, CreditCreated
  <1>10. CASE Tick \/ Overview \/ UNCHANGED vars
    BY <1>2, <1>10 DEF Tick, Overview, vars
  <1>11. ASSUME NEW p, UpdateProfile(p)
         PROVE  Credit(rows'[c])
    BY <1>2, <1>11 DEF UpdateProfile
  <1>12. ASSUME NEW d, NEW links, NEW requested, NEW due, BeginCreate(d, links, requested, due)
         PROVE  Credit(rows'[c])
    BY <1>2, <1>12 DEF BeginCreate
  <1>13. QED
    BY <1>3, <1>4, <1>5, <1>6, <1>7, <1>8, <1>9, <1>10, <1>11, <1>12
       DEF Next, Keep, Cancel, CheckIn, StaleCheckIn, CancelOne, CancelFuture, EventType, Marks

(* However windows open, expire or are cut short, and whatever the clock, the *)
(* zone and the linked actions do, a commitment is deferred at most once more *)
(* than explanations were stored for it.                                      *)
THEOREM RedeferralsPaid == Spec => []RedeferralsExplained
  <1>1. Init => IInv
    <2> SUFFICES ASSUME Init PROVE IInv
      OBVIOUS
    <2>1. TypeOK
      BY TypeInit
    <2>2. PendingAbsent
      BY DEF Init, PendingAbsent
    <2>3. \A c \in Commitment : Credit(rows[c])
      <3>1. NoRow.deferrals = 0 /\ NoRow.facts = 0 /\ NoRow.window = NoTime
        BY DEF NoRow
      <3>2. QED
        BY <3>1 DEF Init, Credit
    <2>4. QED
      BY <2>1, <2>2, <2>3 DEF IInv
  <1>2. IInv /\ [Next]_vars => IInv'
    <2> SUFFICES ASSUME IInv, [Next]_vars PROVE IInv'
      OBVIOUS
    <2>1. TypeOK' /\ PendingAbsent'
      BY TypeStep, PendingStep DEF IInv
    <2>2. \A c \in Commitment : Credit(rows'[c])
      BY CreditStep
    <2>3. QED
      BY <2>1, <2>2 DEF IInv, Credit, window_explanation
  <1>3. IInv => RedeferralsExplained
    BY DEF IInv, Credit, RedeferralsExplained
  <1>4. QED
    BY <1>1, <1>2, <1>3, PTL DEF Spec
-----------------------------------------------------------------------------
(* A late completion cannot rescue a promise *)

(* The promise of a row can still be kept at this instant.                    *)
OnTime(row) ==
    \/ row.due >= today
    \/ row.status = "Deferred" /\ (row.window = NoTime \/ now < row.window)

(* A transition writes the status it is asked for.                            *)
LEMMA TransitionStatus ==
  ASSUME NEW row \in Row, NEW new, NEW kind
  PROVE  transition(row, new, kind).status = new
  BY DEF transition, Event, Publish, Row

(* A deferral leaves a commitment Deferred.                                   *)
LEMMA DeferredStatus ==
  ASSUME NEW row \in Row, NEW new_due \in Int
  PROVE  DeferredRow(row, new_due).status = "Deferred"
  <1> DEFINE moved == [row EXCEPT !.deferrals = @ + 1, !.due = new_due, !.window = NoTime]
             kind == IF row.status = "Open" THEN "deferred" ELSE "redeferred"
  <1>1. moved \in Row
    <2>1. row.deferrals + 1 \in Nat /\ NoTime \in Int
      BY DEF Row, NoTime
    <2>2. QED
      BY <2>1 DEF Row
  <1> HIDE DEF moved, kind
  <1>2. transition(moved, "Deferred", kind).status = "Deferred"
    BY <1>1, TransitionStatus
  <1>3. QED
    BY <1>2 DEF DeferredRow, moved, kind

(* An active row that survives the deadline rules is on time, and the rules   *)
(* themselves never keep a commitment.                                        *)
LEMMA SurvivorOnTime ==
  ASSUME TypeOK, NEW row \in Row, row.status \in ACTIVE
  PROVE  /\ apply_deadline(row).status \in ACTIVE => OnTime(row)
         /\ apply_deadline(row).status # "Kept"
  <1>1. /\ row.due \in Int /\ row.window \in Int /\ today \in Int /\ now \in Nat
        /\ row.status \in Status
    BY TodayType DEF TypeOK, Row
  <1>2. transition(row, "Broken", "broken").status = "Broken"
    BY TransitionStatus
  <1>3. OpenWindow(row).status = row.status
    BY OpenWindowFields
  <1>4. ~ OnTime(row) => deadline_action(row) = "break"
    BY <1>1 DEF OnTime, deadline_action, ACTIVE
  <1>5. QED
    BY <1>2, <1>3, <1>4, DeadlineCases DEF apply_deadline, ACTIVE

(* A re-evaluation keeps only what is on time.                                *)
LEMMA ReevaluateOnTime ==
  ASSUME TypeOK, NEW row \in Row, row.status \in ACTIVE, NEW acts,
         reevaluate(row, acts).status = "Kept"
  PROVE  OnTime(row)
  BY SurvivorOnTime DEF reevaluate

(* The removal of cancelled links does not touch what the deadline rules read *)
(* before it re-evaluates, so it too keeps only what is on time.              *)
LEMMA CancelLinksOnTime ==
  ASSUME TypeOK, NEW row \in Row, row.status \in ACTIVE,
         NEW lost \in SUBSET DailyAction, NEW acts,
         CancelLinks(row, lost, acts).status = "Kept"
  PROVE  OnTime(row)
  <1> DEFINE removal == [type |-> "link_removed", new |-> row.status, due |-> NoDate, at |-> now]
             tail == [i \in 1..Cardinality(lost) |-> removal]
             cut == [row EXCEPT !.links = @ \ lost, !.events = @ \o tail]
             adjusted == IF Backing(cut, acts) = {} /\ cut.condition # "explicit"
                         THEN Event([cut EXCEPT !.condition = "explicit"],
                                    "condition_changed", cut.status, NoDate)
                         ELSE cut
             told == Publish(adjusted, "condition_changed", NoDate)
  <1>1. told \in Row
    BY CancelLinksParts
  <1>2. /\ told.status = row.status /\ told.due = row.due /\ told.window = row.window
    <2>1. cut.status = row.status /\ cut.due = row.due /\ cut.window = row.window
      BY DEF Row
    <2> HIDE DEF cut
    <2>2. adjusted.status = row.status /\ adjusted.due = row.due /\ adjusted.window = row.window
      BY <2>1 DEF Event
    <2> HIDE DEF adjusted
    <2>3. QED
      BY <2>2 DEF Publish
  <1>3. reevaluate(told, acts).status = "Kept"
    BY DEF CancelLinks
  <1> HIDE DEF told
  <1>4. OnTime(told)
    BY <1>1, <1>2, <1>3, ReevaluateOnTime
  <1>5. QED
    BY <1>2, <1>4 DEF OnTime

(* Whether through a check-in (a stale one included), the cancellation of an  *)
(* action or an explicit request, a commitment becomes Kept only on time.     *)
LEMMA KeptOnTime ==
  ASSUME TypeOK, [Next]_vars, NEW c \in Commitment,
         rows[c].status \in ACTIVE, rows'[c].status = "Kept"
  PROVE  OnTime(rows[c])
  <1> DEFINE row == rows[c]
  <1>0. /\ rows \in [Commitment -> Row] /\ row \in Row /\ row.status # "Kept"
        /\ apply_deadline(row).status \in Status
    BY ApplyDeadlineOK DEF TypeOK, Row, ACTIVE
  <1>1. ASSUME NEW d \in Commitment, NEW new \in {"Kept", "Cancelled"}, NEW kind \in EventType,
               explicit(d, new, kind)
        PROVE  OnTime(row)
    <2>1. d = c
      BY <1>0, <1>1 DEF explicit
    <2>2. TRANSITIONS[apply_deadline(row).status] # {}
      BY <1>1, <2>1 DEF explicit
    <2>3. apply_deadline(row).status \in ACTIVE
      BY <1>0, <2>2 DEF TRANSITIONS, ACTIVE, Status
    <2>4. QED
      BY <1>0, <2>3, SurvivorOnTime
  <1>2. ASSUME NEW d \in Commitment, NEW new_due \in 0..MaxDay, NEW acknowledged \in BOOLEAN,
               Defer(d, new_due, acknowledged)
        PROVE  FALSE
    <2>1. d = c /\ rows'[c] = DeferredRow(apply_deadline(row), new_due)
      BY <1>0, <1>2 DEF Defer
    <2>2. DeferredRow(apply_deadline(row), new_due).status = "Deferred"
      BY <1>0, ApplyDeadlineOK, DeferredStatus
    <2>3. QED
      BY <2>1, <2>2
  <1>3. ASSUME NEW d \in Commitment, Explain(d)
        PROVE  FALSE
    <2>1. d = c /\ rows'[c] = ExplainedRow(apply_deadline(row))
      BY <1>0, <1>3 DEF Explain
    <2>2. ExplainedRow(apply_deadline(row)).status = apply_deadline(row).status
      BY <1>0, ApplyDeadlineOK DEF ExplainedRow, Event, Row
    <2>3. QED
      BY <1>0, <2>1, <2>2, SurvivorOnTime
  <1>4. CASE EvaluateDeadlines
    BY <1>0, <1>4, SurvivorOnTime DEF EvaluateDeadlines
  <1>5. ASSUME NEW a \in DailyAction, NEW new \in {"Started", "Completed", "Skipped"},
               RecordCheckIn(a, new)
        PROVE  OnTime(row)
    <2>1. rows'[c] = reevaluate(row, actions')
      BY <1>0, <1>5 DEF RecordCheckIn
    <2>2. QED
      BY <1>0, <2>1, ReevaluateOnTime
  <1>6. ASSUME NEW A \in SUBSET DailyAction, CancelActions(A)
        PROVE  OnTime(row)
    <2>1. rows'[c] = CancelLinks(row, row.links \cap A, actions')
      BY <1>0, <1>6 DEF CancelActions
    <2>2. QED
      BY <1>0, <2>1, CancelLinksOnTime
  <1>7. ASSUME NEW d \in Commitment, CommitCreate(d)
        PROVE  FALSE
    <2>1. d = c /\ rows'[c] = CreatedRow(pending[c])
      BY <1>0, <1>7 DEF CommitCreate
    <2>2. QED
      BY <2>1 DEF CreatedRow, NoRow
  <1>8. CASE Tick \/ Overview \/ UNCHANGED vars
    BY <1>0, <1>8 DEF Tick, Overview, vars
  <1>9. ASSUME NEW p, UpdateProfile(p)
        PROVE  FALSE
    BY <1>0, <1>9 DEF UpdateProfile
  <1>10. ASSUME NEW d \in Commitment, NEW links, NEW requested, NEW due,
                BeginCreate(d, links, requested, due)
         PROVE  FALSE
    BY <1>0, <1>10 DEF BeginCreate
  <1>11. QED
    BY <1>1, <1>2, <1>3, <1>4, <1>5, <1>6, <1>7, <1>8, <1>9, <1>10
       DEF Next, Keep, Cancel, CheckIn, StaleCheckIn, CancelOne, CancelFuture, EventType

(* No completion, cancellation or request rescues a promise whose due date or *)
(* explanation window is over, whoever evaluates the deadline first.          *)
THEOREM LateNeverRescues == Spec => NoLateRescue
  <1>1. TypeOK /\ [Next]_vars =>
          \A c \in Commitment :
              rows[c].status \in ACTIVE /\ rows'[c].status = "Kept" =>
                  \/ rows[c].due >= today
                  \/ /\ rows[c].status = "Deferred"
                     /\ rows[c].window = NoTime \/ now < rows[c].window
    BY KeptOnTime DEF OnTime
  <1>2. QED
    BY <1>1, TypeInit, TypeStep, PTL DEF Spec, NoLateRescue

-----------------------------------------------------------------------------
(* One sweep settles everything *)

(* The deadline rules leave nothing for themselves to do at the same instant: *)
(* a window is opened in the future, and a broken promise is resolved.        *)
LEMMA DeadlineSettles ==
  ASSUME TypeOK, NEW row \in Row
  PROVE  deadline_action(apply_deadline(row)) = "none"
  <1>1. /\ now \in Nat /\ today \in Int /\ profile.tz \in Nat
        /\ row.due \in Int /\ row.window \in Int /\ row.status \in Status
    BY TodayType DEF TypeOK, Row
  <1>2. CASE deadline_action(row) = "none"
    BY <1>2 DEF apply_deadline
  <1>3. CASE deadline_action(row) = "break"
    <2>1. apply_deadline(row) \in Row /\ apply_deadline(row).status = "Broken"
      BY <1>3, ApplyDeadlineOK, TransitionStatus DEF apply_deadline
    <2>2. QED
      BY <2>1, DeadlineCases DEF ACTIVE
  <1>4. CASE deadline_action(row) = "open_window"
    <2> DEFINE due_end == day_end(row.due, profile.tz)
               from == IF due_end > now THEN due_end ELSE now
               o == OpenWindow(row)
    <2>1. due_end \in Int /\ from \in Int /\ from >= now
      BY <1>1, DayLenAssumption DEF day_end
    <2>2. o \in Row /\ o.status = row.status /\ o.due = row.due /\ o.window = from + Window
      BY OpenWindowOK, OpenWindowFields DEF OpenWindow, Event, Publish, Row
    <2> HIDE DEF from, o
    <2>3. row.status = "Deferred" /\ row.due < today
      BY <1>1, <1>4 DEF deadline_action, ACTIVE
    <2>4. o.window > now /\ o.window # NoTime /\ o.window \in Int
      BY <1>1, <2>1, <2>2, WindowAssumption DEF NoTime
    <2>5. deadline_action(o) = "none"
      BY <1>1, <2>2, <2>3, <2>4 DEF deadline_action, ACTIVE
    <2>6. QED
      BY <1>4, <2>5 DEF apply_deadline, o
  <1>5. QED
    BY <1>2, <1>3, <1>4, DeadlineCases

(* After evaluate_deadlines() no commitment has a deadline rule left to apply *)
(* at that instant, so a sweep repeated at once changes nothing.              *)
THEOREM OneSweepIsEnough == Spec => SweepSettles
  <1>1. TypeOK /\ EvaluateDeadlines =>
          \A c \in Commitment : deadline_action(rows[c])' = "none"
    <2> SUFFICES ASSUME TypeOK, EvaluateDeadlines, NEW c \in Commitment
                 PROVE  deadline_action(rows[c])' = "none"
      OBVIOUS
    <2>1. /\ now' = now /\ profile' = profile /\ rows[c] \in Row
          /\ rows'[c] = apply_deadline(rows[c])
      BY DEF EvaluateDeadlines, TypeOK
    <2>2. deadline_action(rows'[c]) = "none"
      BY <2>1, DeadlineSettles
    <2>3. today' = today
      BY <2>1 DEF today
    <2>4. deadline_action(rows[c])' = deadline_action(rows'[c])
      BY <2>1, <2>3 DEF deadline_action
    <2>5. QED
      BY <2>2, <2>4
  <1>2. QED
    BY <1>1, TypeInit, TypeStep, PTL DEF Spec, SweepSettles

-----------------------------------------------------------------------------
(* What a step does to one commitment *)

(* What the step does to the daily actions alone does not satisfy the         *)
(* condition of this row.                                                     *)
NotSatisfiedBy(row) == condition_satisfied(row, actions') => condition_satisfied(row, actions)

(* A check-in that is no completion, or is of an action the row is not linked *)
(* to, does not satisfy its condition.                                        *)
LEMMA CheckInElsewhere ==
  ASSUME TypeOK, NEW row \in Row, NEW a \in DailyAction,
         NEW new \in {"Started", "Completed", "Skipped"},
         actions' = [actions EXCEPT ![a].status = new],
         new # "Completed" \/ a \notin row.links
  PROVE  NotSatisfiedBy(row)
  <1>1. actions \in [DailyAction -> ActionRow] /\ row.links \subseteq DailyAction
    BY DEF TypeOK, Row
  <1>2. /\ \A b \in DailyAction : actions'[b].life = actions[b].life
        /\ \A b \in DailyAction \ {a} : actions'[b] = actions[b]
        /\ actions'[a].status = new
    BY <1>1 DEF ActionRow
  <1>3. Backing(row, actions') = Backing(row, actions)
    BY <1>1, <1>2 DEF Backing
  <1>4. \A b \in Backing(row, actions) :
            actions'[b].status = "Completed" => actions[b].status = "Completed"
    BY <1>1, <1>2 DEF Backing
  <1>5. QED
    BY <1>3, <1>4 DEF NotSatisfiedBy, condition_satisfied

(* The cancellation of actions the row is not linked to does not either.      *)
LEMMA CancelledElsewhere ==
  ASSUME TypeOK, NEW row \in Row, NEW A \in SUBSET DailyAction,
         \A a \in DailyAction \ A : actions'[a] = actions[a],
         row.links \cap A = {}
  PROVE  NotSatisfiedBy(row)
  <1>1. \A a \in row.links : actions'[a] = actions[a]
    BY DEF Row
  <1>2. Backing(row, actions') = Backing(row, actions)
    BY <1>1 DEF Backing
  <1>3. \A b \in Backing(row, actions) : actions'[b] = actions[b]
    BY <1>1 DEF Backing
  <1>4. QED
    BY <1>2, <1>3 DEF NotSatisfiedBy, condition_satisfied

(* The rows a request of the User may leave.                                  *)
Requested(row, after) ==
    \/ /\ after = transition(row, "Kept", "kept")
       /\ row.status \in ACTIVE
    \/ /\ after = transition(row, "Cancelled", "cancelled")
       /\ row.status \in ACTIVE
    \/ \E new_due \in 0..MaxDay, acknowledged \in BOOLEAN :
          /\ validate_deferral(row, new_due, acknowledged)
          /\ after = DeferredRow(row, new_due)
    \/ /\ validate_explanation(row)
       /\ after = ExplainedRow(row)
    \/ after = row

(* A step leaves a commitment alone, creates it, applies the deadline rules   *)
(* and then at most one request, or re-evaluates it in a hook.                *)
RowEffect(c) ==
    \/ rows'[c] = rows[c] /\ (rows[c].status \in ACTIVE => NotSatisfiedBy(rows[c]))
    \/ CommitCreate(c) /\ rows'[c] = CreatedRow(pending[c])
    \/ UNCHANGED actions /\ Requested(apply_deadline(rows[c]), rows'[c])
    \/ rows[c].status \in ACTIVE /\ rows'[c] = reevaluate(rows[c], actions')
    \/ /\ rows[c].status \in ACTIVE
       /\ \E A \in SUBSET DailyAction :
             rows'[c] = CancelLinks(rows[c], rows[c].links \cap A, actions')

(* Every step has one of these effects on a commitment.                       *)
LEMMA RowStep ==
  ASSUME TypeOK, [Next]_vars, NEW c \in Commitment
  PROVE  RowEffect(c)
  <1>0. /\ rows \in [Commitment -> Row] /\ rows[c] \in Row
        /\ apply_deadline(rows[c]).status \in Status
    BY ApplyDeadlineOK DEF TypeOK, Row
  <1>1. ASSUME rows'[c] = rows[c], UNCHANGED actions
        PROVE  RowEffect(c)
    BY <1>1 DEF RowEffect, NotSatisfiedBy
  <1>2. ASSUME NEW d \in Commitment, Keep(d) \/ Cancel(d)
        PROVE  RowEffect(c)
    <2>1. CASE c = d
      <3>1. apply_deadline(rows[c]).status \in ACTIVE
        BY <1>0, <1>2, <2>1 DEF Keep, Cancel, explicit, TRANSITIONS, ACTIVE, Status
      <3>2. Requested(apply_deadline(rows[c]), rows'[c]) /\ UNCHANGED actions
        BY <1>0, <1>2, <2>1, <3>1 DEF Keep, Cancel, explicit, Requested
      <3>3. QED
        BY <3>2 DEF RowEffect
    <2>2. CASE c # d
      BY <1>0, <1>1, <1>2, <2>2 DEF Keep, Cancel, explicit
    <2>3. QED
      BY <2>1, <2>2
  <1>3. ASSUME NEW d \in Commitment, NEW new_due \in 0..MaxDay, NEW acknowledged \in BOOLEAN,
               Defer(d, new_due, acknowledged)
        PROVE  RowEffect(c)
    <2>1. CASE c = d
      <3>1. Requested(apply_deadline(rows[c]), rows'[c]) /\ UNCHANGED actions
        BY <1>0, <1>3, <2>1 DEF Defer, Requested
      <3>2. QED
        BY <3>1 DEF RowEffect
    <2>2. CASE c # d
      BY <1>0, <1>1, <1>3, <2>2 DEF Defer
    <2>3. QED
      BY <2>1, <2>2
  <1>4. ASSUME NEW d \in Commitment, Explain(d)
        PROVE  RowEffect(c)
    <2>1. CASE c = d
      <3>1. Requested(apply_deadline(rows[c]), rows'[c]) /\ UNCHANGED actions
        BY <1>0, <1>4, <2>1 DEF Explain, Requested
      <3>2. QED
        BY <3>1 DEF RowEffect
    <2>2. CASE c # d
      BY <1>0, <1>1, <1>4, <2>2 DEF Explain
    <2>3. QED
      BY <2>1, <2>2
  <1>5. CASE EvaluateDeadlines
    <2>1. Requested(apply_deadline(rows[c]), rows'[c]) /\ UNCHANGED actions
      BY <1>5 DEF EvaluateDeadlines, Requested
    <2>2. QED
      BY <2>1 DEF RowEffect
  <1>6. ASSUME NEW a \in DailyAction, NEW new \in {"Started", "Completed", "Skipped"},
               RecordCheckIn(a, new)
        PROVE  RowEffect(c)
    <2>1. CASE new = "Completed" /\ c \in LinkedActive({a})
      BY <1>6, <2>1 DEF RowEffect, RecordCheckIn, LinkedActive
    <2>2. CASE ~ (new = "Completed" /\ c \in LinkedActive({a}))
      <3>1. rows'[c] = rows[c] /\ actions' = [actions EXCEPT ![a].status = new]
        BY <1>6, <2>2 DEF RecordCheckIn
      <3>2. rows[c].status \in ACTIVE => new # "Completed" \/ a \notin rows[c].links
        BY <2>2 DEF LinkedActive
      <3>3. rows[c].status \in ACTIVE => NotSatisfiedBy(rows[c])
        BY <1>0, <3>1, <3>2, CheckInElsewhere
      <3>4. QED
        BY <3>1, <3>3 DEF RowEffect
    <2>3. QED
      BY <2>1, <2>2
  <1>7. ASSUME NEW A \in SUBSET DailyAction, CancelActions(A)
        PROVE  RowEffect(c)
    <2>1. CASE c \in LinkedActive(A)
      BY <1>7, <2>1 DEF RowEffect, CancelActions, LinkedActive
    <2>2. CASE c \notin LinkedActive(A)
      <3>1. rows'[c] = rows[c] /\ \A a \in DailyAction \ A : actions'[a] = actions[a]
        BY <1>7, <2>2 DEF CancelActions
      <3>2. rows[c].status \in ACTIVE => rows[c].links \cap A = {}
        BY <2>2 DEF LinkedActive
      <3>3. rows[c].status \in ACTIVE => NotSatisfiedBy(rows[c])
        BY <1>0, <3>1, <3>2, CancelledElsewhere
      <3>4. QED
        BY <3>1, <3>3 DEF RowEffect
    <2>3. QED
      BY <2>1, <2>2
  <1>8. ASSUME NEW d \in Commitment, CommitCreate(d)
        PROVE  RowEffect(c)
    <2>1. CASE c = d
      BY <1>0, <1>8, <2>1 DEF RowEffect, CommitCreate
    <2>2. CASE c # d
      <3>1. rows'[c] = rows[c] /\ UNCHANGED actions
        BY <1>0, <1>8, <2>2 DEF CommitCreate
      <3>2. QED
        BY <1>1, <3>1
    <2>3. QED
      BY <2>1, <2>2
  <1>9. CASE Tick \/ Overview \/ UNCHANGED vars
    BY <1>1, <1>9 DEF Tick, Overview, vars
  <1>10. ASSUME NEW p, UpdateProfile(p)
         PROVE  RowEffect(c)
    BY <1>1, <1>10 DEF UpdateProfile
  <1>11. ASSUME NEW d \in Commitment, NEW links, NEW requested, NEW due,
                BeginCreate(d, links, requested, due)
         PROVE  RowEffect(c)
    BY <1>1, <1>11 DEF BeginCreate
  <1>12. QED
    BY <1>2, <1>3, <1>4, <1>5, <1>6, <1>7, <1>8, <1>9, <1>10, <1>11
       DEF Next, CheckIn, StaleCheckIn, CancelOne, CancelFuture

-----------------------------------------------------------------------------
(* A condition that becomes satisfied resolves the commitment *)

SameTerms(row, after) == after.links = row.links /\ after.condition = row.condition

(* The deadline rules leave the terms of a promise alone.                     *)
LEMMA DeadlineTerms ==
  ASSUME TypeOK, NEW row \in Row
  PROVE  SameTerms(row, apply_deadline(row))
  <1>1. ASSUME NEW new, NEW kind
        PROVE  SameTerms(row, transition(row, new, kind))
    BY DEF SameTerms, transition, Event, Publish, Row
  <1>2. SameTerms(row, OpenWindow(row))
    BY DEF SameTerms, OpenWindow, Event, Publish, Row
  <1>3. QED
    BY <1>1, <1>2, DeadlineCases DEF apply_deadline, SameTerms

(* So do the requests of the User.                                            *)
LEMMA RequestedTerms ==
  ASSUME NEW row \in Row, NEW after, Requested(row, after)
  PROVE  SameTerms(row, after)
  <1>1. ASSUME NEW r \in Row, NEW new, NEW kind
        PROVE  SameTerms(r, transition(r, new, kind))
    BY DEF SameTerms, transition, Event, Publish, Row
  <1>2. SameTerms(row, ExplainedRow(row))
    BY DEF SameTerms, ExplainedRow, Event, Row
  <1>3. ASSUME NEW new_due \in 0..MaxDay
        PROVE  SameTerms(row, DeferredRow(row, new_due))
    <2> DEFINE moved == [row EXCEPT !.deferrals = @ + 1, !.due = new_due, !.window = NoTime]
               kind == IF row.status = "Open" THEN "deferred" ELSE "redeferred"
    <2>1. moved \in Row /\ SameTerms(row, moved)
      <3>1. row.deferrals + 1 \in Nat /\ NoTime \in Int /\ new_due \in Int
        BY BoundAssumption DEF Row, NoTime
      <3>2. QED
        BY <3>1 DEF Row, SameTerms
    <2> HIDE DEF moved, kind
    <2>2. SameTerms(moved, transition(moved, "Deferred", kind))
      BY <1>1, <2>1
    <2>3. DeferredRow(row, new_due) = transition(moved, "Deferred", kind)
      BY DEF DeferredRow, moved, kind
    <2>4. QED
      BY <2>1, <2>2, <2>3 DEF SameTerms
  <1>4. SameTerms(row, row)
    BY DEF SameTerms
  <1>5. QED
    BY <1>1, <1>2, <1>3, <1>4 DEF Requested

(* Whether a condition is satisfied depends on its terms alone.               *)
LEMMA TermsDecide ==
  ASSUME NEW row, NEW after, SameTerms(row, after), NEW acts
  PROVE  /\ Backing(after, acts) = Backing(row, acts)
         /\ condition_satisfied(after, acts) <=> condition_satisfied(row, acts)
  <1>1. Backing(after, acts) = Backing(row, acts)
    BY DEF Backing, SameTerms
  <1>2. QED
    BY <1>1 DEF condition_satisfied, SameTerms

(* The hooks re-evaluate last: what they leave active is not satisfied.       *)
LEMMA ReevaluateResolves ==
  ASSUME TypeOK, NEW row \in Row, NEW acts,
         condition_satisfied(reevaluate(row, acts), acts)
  PROVE  reevaluate(row, acts).status \notin ACTIVE
  <1> DEFINE checked == apply_deadline(row)
  <1>1. checked \in Row
    BY ApplyDeadlineOK
  <1> HIDE DEF checked
  <1>2. transition(checked, "Kept", "kept").status = "Kept"
    BY <1>1, TransitionStatus
  <1>3. QED
    BY <1>2 DEF reevaluate, checked, ACTIVE

(* The step that satisfies the condition of a recorded commitment resolves it:*)
(* checkin_hook() and cancel_hook() see every active commitment linked to     *)
(* what changed, and what does not reach a hook satisfies nothing.            *)
THEOREM SatisfactionIsSeen == Spec => SatisfactionResolves
  <1>1. Init => PendingAbsent
    BY DEF Init, PendingAbsent
  <1>2. TypeOK /\ PendingAbsent /\ [Next]_vars =>
          \A c \in Commitment :
              /\ rows[c].status \in ACTIVE
              /\ ~ condition_satisfied(rows[c], actions)
              /\ condition_satisfied(rows'[c], actions')
              => rows'[c].status \notin ACTIVE
    <2> SUFFICES ASSUME TypeOK, PendingAbsent, [Next]_vars, NEW c \in Commitment,
                        rows[c].status \in ACTIVE,
                        ~ condition_satisfied(rows[c], actions),
                        condition_satisfied(rows'[c], actions')
                 PROVE  rows'[c].status \notin ACTIVE
      OBVIOUS
    <2>0. rows[c] \in Row /\ RowEffect(c)
      BY RowStep DEF TypeOK
    <2>1. CASE rows'[c] = rows[c] /\ NotSatisfiedBy(rows[c])
      BY <2>1 DEF NotSatisfiedBy
    <2>2. CASE CommitCreate(c)
      BY <2>2 DEF CommitCreate, PendingAbsent, ACTIVE
    <2>3. CASE UNCHANGED actions /\ Requested(apply_deadline(rows[c]), rows'[c])
      <3>1. SameTerms(rows[c], rows'[c])
        BY <2>0, <2>3, ApplyDeadlineOK, DeadlineTerms, RequestedTerms DEF SameTerms
      <3>2. QED
        BY <2>3, <3>1, TermsDecide
    <2>4. CASE rows'[c] = reevaluate(rows[c], actions')
      BY <2>0, <2>4, ReevaluateResolves
    <2>5. ASSUME NEW A \in SUBSET DailyAction,
                 rows'[c] = CancelLinks(rows[c], rows[c].links \cap A, actions')
          PROVE  rows'[c].status \notin ACTIVE
      <3>1. rows[c].links \cap A \in SUBSET DailyAction
        OBVIOUS
      <3>2. QED
        BY <2>0, <2>5, <3>1, CancelLinksParts, ReevaluateResolves DEF CancelLinks
    <2>6. QED
      BY <2>0, <2>1, <2>2, <2>3, <2>4, <2>5 DEF RowEffect
  <1>3. QED
    BY <1>1, <1>2, TypeInit, TypeStep, PendingStep, PTL DEF Spec, SatisfactionResolves

-----------------------------------------------------------------------------
(* A commitment without live links is explicit, and only such a one *)

(* What create() has validated: a due date, and a condition that is explicit  *)
(* exactly when nothing is linked.                                            *)
PendingTerms ==
    \A c \in Commitment : pending[c] # NoRequest =>
        /\ pending[c].due \in Nat
        /\ pending[c].links = {} <=> pending[c].condition = "explicit"

(* An explicit condition has no live action, and a missing link is visible.   *)
Explicit(row, acts) ==
    row.status \in ACTIVE =>
        /\ row.links = {} => row.condition = "explicit"
        /\ row.condition = "explicit" => Backing(row, acts) = {}

(* Validation establishes what is assumed of a request in flight.             *)
LEMMA PendingTermsStep == TypeOK /\ PendingTerms /\ [Next]_vars => PendingTerms'
  <1> SUFFICES ASSUME TypeOK, PendingTerms, [Next]_vars,
                      NEW c \in Commitment, pending'[c] # NoRequest
               PROVE  /\ pending'[c].due \in Nat
                      /\ pending'[c].links = {} <=> pending'[c].condition = "explicit"
    BY DEF PendingTerms
  <1>0. pending \in [Commitment -> Request]
    BY DEF TypeOK
  <1>1. CASE pending'[c] = pending[c]
    BY <1>1 DEF PendingTerms
  <1>2. CASE pending'[c] # pending[c]
    <2>1. \/ \E d \in Commitment, links \in SUBSET DailyAction,
                requested \in Condition \cup {"none"}, due \in 0..MaxDay :
                BeginCreate(d, links, requested, due)
          \/ \E d \in Commitment : CommitCreate(d)
      BY <1>2 DEF Next, vars, Tick, UpdateProfile, Keep, Cancel, explicit, Defer, Explain,
                  EvaluateDeadlines, CheckIn, StaleCheckIn, RecordCheckIn, CancelOne,
                  CancelFuture, CancelActions, Overview
    <2>2. PICK links \in SUBSET DailyAction,
               requested \in Condition \cup {"none"}, due \in 0..MaxDay :
               BeginCreate(c, links, requested, due)
      BY <1>0, <1>2, <2>1 DEF BeginCreate, CommitCreate
    <2> DEFINE condition == resolve_condition(requested, Cardinality(links))
    <2>3. Cardinality(links) \in Nat /\ (Cardinality(links) = 0 <=> links = {})
      BY FiniteAssumption, FS_Subset, FS_CardinalityType, FS_EmptySet
    <2>4. condition # "rejected" =>
            (Cardinality(links) = 0 <=> condition = "explicit")
      BY <2>3 DEF resolve_condition
    <2> HIDE DEF condition
    <2>5. condition # "rejected" /\ pending'[c] =
            [links |-> links, condition |-> condition, due |-> due, at |-> now]
      BY <1>0, <2>2 DEF BeginCreate, condition
    <2>6. QED
      BY <2>3, <2>4, <2>5, BoundAssumption
  <1>3. QED
    BY <1>1, <1>2

(* A cancelled action stays cancelled.                                        *)
LEMMA CancelledStays ==
  ASSUME TypeOK, [Next]_vars, NEW a \in DailyAction, actions'[a].life = "active"
  PROVE  actions[a].life = "active"
  <1>0. actions \in [DailyAction -> ActionRow]
    BY DEF TypeOK
  <1>1. ASSUME NEW b \in DailyAction, NEW new, RecordCheckIn(b, new)
        PROVE  actions[a].life = "active"
    BY <1>0, <1>1 DEF RecordCheckIn, ActionRow
  <1>2. ASSUME NEW A \in SUBSET DailyAction, CancelActions(A)
        PROVE  actions[a].life = "active"
    BY <1>0, <1>2 DEF CancelActions, ActionRow
  <1>3. CASE UNCHANGED actions
    BY <1>3
  <1>4. QED
    BY <1>1, <1>2, <1>3
       DEF Next, vars, Tick, UpdateProfile, BeginCreate, CommitCreate, Keep, Cancel, explicit,
           Defer, Explain, EvaluateDeadlines, CheckIn, StaleCheckIn, CancelOne, CancelFuture,
           Overview

(* What a re-evaluation leaves of a row.                                      *)
LEMMA ReevaluateTerms ==
  ASSUME TypeOK, NEW row \in Row, NEW acts
  PROVE  /\ SameTerms(row, reevaluate(row, acts))
         /\ reevaluate(row, acts).status \in ACTIVE => row.status \in ACTIVE
  <1> DEFINE checked == apply_deadline(row)
  <1>1. checked \in Row /\ SameTerms(row, checked)
    BY ApplyDeadlineOK, DeadlineTerms
  <1>2. checked.status \in ACTIVE => row.status \in ACTIVE
    BY DeadlineCases DEF apply_deadline
  <1> HIDE DEF checked
  <1>3. /\ SameTerms(checked, transition(checked, "Kept", "kept"))
        /\ transition(checked, "Kept", "kept").status = "Kept"
    BY <1>1 DEF SameTerms, transition, Event, Publish, Row
  <1>4. QED
    BY <1>1, <1>2, <1>3 DEF reevaluate, checked, SameTerms, ACTIVE

(* The live links of a row but the lost ones.                                 *)
Left(row, lost, acts) == {a \in row.links \ lost : acts[a].life = "active"}

(* What the removal of links leaves of the terms.                             *)
LEMMA CancelLinksTerms ==
  ASSUME TypeOK, NEW row \in Row, NEW lost \in SUBSET DailyAction, NEW acts
  PROVE  /\ CancelLinks(row, lost, acts).links = row.links \ lost
         /\ CancelLinks(row, lost, acts).condition =
              IF Left(row, lost, acts) = {} THEN "explicit" ELSE row.condition
  <1> DEFINE removal == [type |-> "link_removed", new |-> row.status, due |-> NoDate, at |-> now]
             tail == [i \in 1..Cardinality(lost) |-> removal]
             cut == [row EXCEPT !.links = @ \ lost, !.events = @ \o tail]
             adjusted == IF Backing(cut, acts) = {} /\ cut.condition # "explicit"
                         THEN Event([cut EXCEPT !.condition = "explicit"],
                                    "condition_changed", cut.status, NoDate)
                         ELSE cut
             told == Publish(adjusted, "condition_changed", NoDate)
             left == Left(row, lost, acts)
  <1>1. told \in Row
    BY CancelLinksParts
  <1>2. /\ told.links = row.links \ lost
        /\ told.condition = IF left = {} THEN "explicit" ELSE row.condition
    <2>1. cut.links = row.links \ lost /\ cut.condition = row.condition
      BY DEF Row
    <2>2. Backing(cut, acts) = left
      BY <2>1 DEF Backing, Left
    <2>3. [cut EXCEPT !.condition = "explicit"].links = cut.links
          /\ [cut EXCEPT !.condition = "explicit"].condition = "explicit"
      BY DEF Row
    <2> DEFINE plain == [cut EXCEPT !.condition = "explicit"]
    <2>4. Event(plain, "condition_changed", cut.status, NoDate).links = plain.links
          /\ Event(plain, "condition_changed", cut.status, NoDate).condition = plain.condition
      BY DEF Event, Row
    <2> HIDE DEF cut
    <2>5. /\ adjusted.links = row.links \ lost
          /\ adjusted.condition = IF left = {} THEN "explicit" ELSE row.condition
      BY <2>1, <2>2, <2>3, <2>4
    <2> HIDE DEF adjusted
    <2>6. QED
      BY <2>5 DEF Publish
  <1>3. CancelLinks(row, lost, acts) = reevaluate(told, acts)
    BY DEF CancelLinks
  <1> HIDE DEF told
  <1>4. SameTerms(told, reevaluate(told, acts))
    BY <1>1, ReevaluateTerms
  <1>5. QED
    BY <1>2, <1>3, <1>4 DEF SameTerms

TInv ==
    /\ TypeOK
    /\ PendingAbsent
    /\ PendingTerms
    /\ \A c \in Commitment : Explicit(rows[c], actions)

(* Every step keeps the terms of every commitment in order.                   *)
LEMMA ExplicitStep ==
  TInv /\ [Next]_vars => \A c \in Commitment : Explicit(rows'[c], actions')
  <1> SUFFICES ASSUME TInv, [Next]_vars, NEW c \in Commitment, rows'[c].status \in ACTIVE
               PROVE  /\ rows'[c].links = {} => rows'[c].condition = "explicit"
                      /\ rows'[c].condition = "explicit" => Backing(rows'[c], actions') = {}
    BY DEF Explicit
  <1>0. TypeOK /\ rows[c] \in Row /\ RowEffect(c) /\ rows[c].links \subseteq DailyAction
    BY RowStep DEF TInv, TypeOK, Row
  <1>1. \A a \in DailyAction : actions'[a].life = "active" => actions[a].life = "active"
    BY <1>0, CancelledStays
  <1>2. ASSUME rows[c].status \in ACTIVE, SameTerms(rows[c], rows'[c])
        PROVE  /\ rows'[c].links = {} => rows'[c].condition = "explicit"
               /\ rows'[c].condition = "explicit" => Backing(rows'[c], actions') = {}
    <2>1. Explicit(rows[c], actions)
      BY DEF TInv
    <2>2. QED
      BY <1>0, <1>1, <1>2, <2>1 DEF Explicit, SameTerms, Backing
  <1>3. CASE rows'[c] = rows[c]
    BY <1>2, <1>3 DEF SameTerms
  <1>4. CASE CommitCreate(c) /\ rows'[c] = CreatedRow(pending[c])
    <2>1. /\ rows'[c].links = pending[c].links /\ rows'[c].condition = pending[c].condition
      BY <1>4 DEF CreatedRow, NoRow
    <2>2. pending[c].links = {} <=> pending[c].condition = "explicit"
      BY <1>4 DEF CommitCreate, TInv, PendingTerms
    <2>3. QED
      BY <2>1, <2>2 DEF Backing
  <1>5. CASE Requested(apply_deadline(rows[c]), rows'[c])
    <2>1. SameTerms(rows[c], rows'[c])
      BY <1>0, <1>5, ApplyDeadlineOK, DeadlineTerms, RequestedTerms DEF SameTerms
    <2>2. apply_deadline(rows[c]).status \in ACTIVE
      BY <1>5 DEF Requested, validate_deferral, validate_explanation, ACTIVE
    <2>3. rows[c].status \in ACTIVE
      BY <1>0, <2>2, DeadlineCases DEF apply_deadline
    <2>4. QED
      BY <1>2, <2>1, <2>3
  <1>6. CASE rows[c].status \in ACTIVE /\ rows'[c] = reevaluate(rows[c], actions')
    BY <1>0, <1>2, <1>6, ReevaluateTerms
  <1>7. ASSUME rows[c].status \in ACTIVE, NEW A \in SUBSET DailyAction,
               rows'[c] = CancelLinks(rows[c], rows[c].links \cap A, actions')
        PROVE  /\ rows'[c].links = {} => rows'[c].condition = "explicit"
               /\ rows'[c].condition = "explicit" => Backing(rows'[c], actions') = {}
    <2> DEFINE lost == rows[c].links \cap A
               left == Left(rows[c], lost, actions')
    <2>0. lost \in SUBSET DailyAction /\ rows'[c] = CancelLinks(rows[c], lost, actions')
      BY <1>7
    <2>1. /\ rows'[c].links = rows[c].links \ lost
          /\ rows'[c].condition = IF left = {} THEN "explicit" ELSE rows[c].condition
      <3> HIDE DEF lost
      <3>1. QED
        BY <1>0, <2>0, CancelLinksTerms
    <2>2. Backing(rows'[c], actions') = left
      BY <2>1 DEF Backing, Left
    <2>3. rows[c].condition = "explicit" => left = {}
      BY <1>0, <1>1, <1>7 DEF TInv, Explicit, Backing, Left
    <2>4. rows'[c].links = {} => left = {}
      BY <2>1 DEF Left
    <2> HIDE DEF left
    <2>5. QED
      BY <2>1, <2>2, <2>3, <2>4
  <1>8. QED
    BY <1>0, <1>3, <1>4, <1>5, <1>6, <1>7 DEF RowEffect

(* Every link lost to a cancellation leaves its mark: an active commitment    *)
(* left without links is explicit, and an explicit one has no live action     *)
(* that could have kept it, whatever is cancelled while a create() is in      *)
(* flight.                                                                    *)
THEOREM UnlinkedIsExplicit == Spec => []ExplicitWhenUnlinked
  <1>1. Init => TInv
    <2> SUFFICES ASSUME Init PROVE TInv
      OBVIOUS
    <2>1. TypeOK
      BY TypeInit
    <2>2. PendingAbsent /\ PendingTerms
      BY DEF Init, PendingAbsent, PendingTerms
    <2>3. \A c \in Commitment : Explicit(rows[c], actions)
      <3>1. NoRow.status = "Absent"
        BY DEF NoRow
      <3>2. QED
        BY <3>1 DEF Init, Explicit, ACTIVE
    <2>4. QED
      BY <2>1, <2>2, <2>3 DEF TInv
  <1>2. TInv /\ [Next]_vars => TInv'
    <2> SUFFICES ASSUME TInv, [Next]_vars PROVE TInv'
      OBVIOUS
    <2>1. TypeOK' /\ PendingAbsent' /\ PendingTerms'
      BY TypeStep, PendingStep, PendingTermsStep DEF TInv
    <2>2. \A c \in Commitment : Explicit(rows'[c], actions')
      BY ExplicitStep
    <2>3. QED
      BY <2>1, <2>2 DEF TInv, Explicit, Backing
  <1>3. TInv => ExplicitWhenUnlinked
    BY DEF TInv, Explicit, ExplicitWhenUnlinked
  <1>4. QED
    BY <1>1, <1>2, <1>3, PTL DEF Spec

-----------------------------------------------------------------------------
(* The ledger *)

Deferring == {"deferred", "redeferred"}

(* The last event carries status s.                                           *)
LastNew(events, s) == Len(events) > 0 /\ events[Len(events)].new = s

(* The last event with a due date carries d.                                  *)
LastDue(events, d) ==
    \E i \in 1..Len(events) :
        /\ events[i].due = d
        /\ \A j \in 1..Len(events) : i < j => events[j].due = NoDate

(* The events that defer.                                                     *)
Deferrals(events) == {i \in 1..Len(events) : events[i].type \in Deferring}

(* A window that ends at w was opened in full after the last deferral.        *)
Opened(events, w) ==
    \E i \in 1..Len(events) :
        /\ events[i].type = "explanation_window_opened"
        /\ events[i].at + Window <= w
        /\ \A j \in 1..Len(events) : events[j].type \in Deferring => j < i

(* The last status_changed message carries status s and due date d.           *)
LastTold(outbox, s, d) ==
    \E i \in 1..Len(outbox) :
        /\ outbox[i].topic = "status_changed"
        /\ outbox[i].status = s /\ outbox[i].due = d
        /\ \A j \in 1..Len(outbox) : i < j => outbox[j].topic # "status_changed"

NoneTold(outbox) == \A i \in 1..Len(outbox) : outbox[i].topic # "status_changed"

(* The ledger of a row and the row agree.                                     *)
Ledger(row) ==
    row.status # "Absent" =>
        /\ row.due \in Nat
        /\ LastNew(row.events, row.status)
        /\ LastDue(row.events, row.due)
        /\ Cardinality(Deferrals(row.events)) = row.deferrals
        /\ row.window # NoTime => Opened(row.events, row.window)
        /\ \/ LastTold(row.outbox, row.status, row.due)
           \/ row.status = "Open" /\ NoneTold(row.outbox)

LInv ==
    /\ TypeOK
    /\ PendingAbsent
    /\ PendingTerms
    /\ \A c \in Commitment : Ledger(rows[c])

(* more extends events by events with status s, no due date and no deferral.  *)
Quiet(events, more, s) ==
    /\ more \in Seq(EventRecord) /\ Len(events) <= Len(more)
    /\ \A i \in 1..Len(events) : more[i] = events[i]
    /\ \A i \in (Len(events) + 1)..Len(more) :
          more[i].new = s /\ more[i].due = NoDate /\ more[i].type \notin Deferring

(* Quiet events change nothing about what the ledger says.                    *)
LEMMA QuietLedger ==
  ASSUME NEW events \in Seq(EventRecord), NEW more, NEW s, Quiet(events, more, s)
  PROVE  /\ LastNew(events, s) => LastNew(more, s)
         /\ \A d : LastDue(events, d) => LastDue(more, d)
         /\ Deferrals(more) = Deferrals(events)
         /\ \A w : Opened(events, w) => Opened(more, w)
  <1> DEFINE n == Len(events)
             m == Len(more)
  <1>1. /\ n \in Nat /\ m \in Nat /\ n <= m
        /\ \A i \in 1..n : more[i] = events[i]
        /\ \A i \in (n + 1)..m :
              more[i].new = s /\ more[i].due = NoDate /\ more[i].type \notin Deferring
    BY DEF Quiet
  <1>2. \A i \in 1..m : i \in 1..n \/ i \in (n + 1)..m
    BY <1>1
  <1>3. LastNew(events, s) => LastNew(more, s)
    <2>1. CASE m = n
      BY <1>1, <2>1 DEF LastNew
    <2>2. CASE m # n
      <3>1. m \in (n + 1)..m /\ m > 0
        BY <1>1, <2>2
      <3>2. QED
        BY <1>1, <3>1 DEF LastNew
    <2>3. QED
      BY <2>1, <2>2
  <1> HIDE DEF n, m
  <1>4. ASSUME NEW d, LastDue(events, d) PROVE LastDue(more, d)
    <2>1. PICK i \in 1..n : /\ events[i].due = d
                            /\ \A j \in 1..n : i < j => events[j].due = NoDate
      BY <1>4 DEF LastDue, n
    <2>2. i \in 1..m /\ more[i].due = d
      BY <1>1, <2>1
    <2>3. \A j \in 1..m : i < j => more[j].due = NoDate
      BY <1>1, <1>2, <2>1
    <2>4. QED
      BY <2>2, <2>3 DEF LastDue, m
  <1>5. Deferrals(more) = Deferrals(events)
    <2>1. \A i \in 1..m : more[i].type \in Deferring =>
              i \in 1..n /\ events[i].type \in Deferring
      BY <1>1, <1>2
    <2>2. \A i \in 1..n : i \in 1..m
      BY <1>1
    <2>3. QED
      BY <1>1, <2>1, <2>2 DEF Deferrals, n, m
  <1>6. ASSUME NEW w, Opened(events, w) PROVE Opened(more, w)
    <2>1. PICK i \in 1..n :
              /\ events[i].type = "explanation_window_opened"
              /\ events[i].at + Window <= w
              /\ \A j \in 1..n : events[j].type \in Deferring => j < i
      BY <1>6 DEF Opened, n
    <2>2. i \in 1..m /\ more[i] = events[i]
      BY <1>1, <2>1
    <2>3. \A j \in 1..m : more[j].type \in Deferring => j < i
      BY <1>1, <1>2, <2>1
    <2>4. QED
      BY <2>1, <2>2, <2>3 DEF Opened, m
  <1>7. QED
    BY <1>3, <1>4, <1>5, <1>6

(* The deferrals of a ledger can be counted.                                  *)
LEMMA DeferralsFinite ==
  ASSUME NEW events \in Seq(EventRecord)
  PROVE  IsFiniteSet(Deferrals(events)) /\ Cardinality(Deferrals(events)) \in Nat
  <1> DEFINE n == Len(events)
  <1>1. n \in Nat /\ Deferrals(events) \subseteq 1..n
    BY DEF Deferrals
  <1> HIDE DEF n
  <1>2. IsFiniteSet(1..n)
    BY <1>1, FS_Interval
  <1>3. QED
    BY <1>1, <1>2, FS_Subset, FS_CardinalityType

(* What one appended event changes about what the ledger says.                *)
LEMMA AppendLedger ==
  ASSUME NEW events \in Seq(EventRecord), NEW e \in EventRecord
  PROVE  LET more == Append(events, e)
         IN  /\ LastNew(more, e.new)
             /\ LastDue(more, e.due)
             /\ e.due = NoDate /\ e.type \notin Deferring => Quiet(events, more, e.new)
             /\ e.type \notin Deferring => Deferrals(more) = Deferrals(events)
             /\ e.type \in Deferring =>
                  Cardinality(Deferrals(more)) = Cardinality(Deferrals(events)) + 1
             /\ e.type \notin Deferring => \A w : Opened(events, w) => Opened(more, w)
             /\ e.type = "explanation_window_opened" =>
                  \A w : e.at + Window <= w => Opened(more, w)
  <1> DEFINE n == Len(events)
             more == Append(events, e)
  <1>1. /\ n \in Nat /\ Len(more) = n + 1 /\ more \in Seq(EventRecord)
        /\ \A i \in 1..n : more[i] = events[i]
        /\ more[n + 1] = e
    OBVIOUS
  <1>2. (\A i \in 1..(n + 1) : i \in 1..n \/ i = n + 1) /\ n + 1 \in 1..(n + 1)
    BY <1>1
  <1> HIDE DEF more
  <1>3. LastNew(more, e.new) /\ LastDue(more, e.due)
    BY <1>1, <1>2 DEF LastNew, LastDue
  <1>4. ASSUME e.due = NoDate, e.type \notin Deferring
        PROVE  Quiet(events, more, e.new)
    BY <1>1, <1>4 DEF Quiet
  <1>5. e.type \notin Deferring => Deferrals(more) = Deferrals(events)
    BY <1>1, <1>2 DEF Deferrals
  <1>6. ASSUME e.type \in Deferring
        PROVE  Cardinality(Deferrals(more)) = Cardinality(Deferrals(events)) + 1
    <2>1. Deferrals(more) = Deferrals(events) \cup {n + 1}
      BY <1>1, <1>2, <1>6 DEF Deferrals
    <2>2. n + 1 \notin Deferrals(events)
      BY <1>1 DEF Deferrals
    <2>3. IsFiniteSet(Deferrals(events))
      BY DeferralsFinite
    <2>4. QED
      BY <2>1, <2>2, <2>3, FS_AddElement
  <1>7. ASSUME e.type \notin Deferring, NEW w, Opened(events, w)
        PROVE  Opened(more, w)
    <2>1. PICK i \in 1..n :
              /\ events[i].type = "explanation_window_opened"
              /\ events[i].at + Window <= w
              /\ \A j \in 1..n : events[j].type \in Deferring => j < i
      BY <1>7 DEF Opened
    <2>2. i \in 1..(n + 1) /\ more[i] = events[i]
      BY <1>1, <2>1
    <2>3. \A j \in 1..(n + 1) : more[j].type \in Deferring => j < i
      BY <1>1, <1>2, <1>7, <2>1
    <2>4. QED
      BY <1>1, <2>1, <2>2, <2>3 DEF Opened
  <1>8. ASSUME e.type = "explanation_window_opened", NEW w, e.at + Window <= w
        PROVE  Opened(more, w)
    <2>1. \A j \in 1..(n + 1) : more[j].type \in Deferring => j < n + 1
      BY <1>1, <1>2, <1>8 DEF Deferring
    <2>2. QED
      BY <1>1, <1>2, <1>8, <2>1 DEF Opened
  <1>9. QED
    BY <1>3, <1>4, <1>5, <1>6, <1>7, <1>8 DEF more

(* What one published message changes about what consumers are told.          *)
LEMMA AppendTold ==
  ASSUME NEW outbox \in Seq(Message), NEW msg \in Message
  PROVE  LET more == Append(outbox, msg)
         IN  /\ msg.topic = "status_changed" => LastTold(more, msg.status, msg.due)
             /\ msg.topic # "status_changed" =>
                  /\ \A s, d : LastTold(outbox, s, d) => LastTold(more, s, d)
                  /\ NoneTold(outbox) => NoneTold(more)
  <1> DEFINE n == Len(outbox)
             more == Append(outbox, msg)
  <1>1. /\ n \in Nat /\ Len(more) = n + 1
        /\ \A i \in 1..n : more[i] = outbox[i]
        /\ more[n + 1] = msg
    OBVIOUS
  <1>2. (\A i \in 1..(n + 1) : i \in 1..n \/ i = n + 1) /\ n + 1 \in 1..(n + 1)
    BY <1>1
  <1> HIDE DEF more
  <1>3. msg.topic = "status_changed" => LastTold(more, msg.status, msg.due)
    BY <1>1, <1>2 DEF LastTold
  <1>4. ASSUME msg.topic # "status_changed", NEW s, NEW d, LastTold(outbox, s, d)
        PROVE  LastTold(more, s, d)
    <2>1. PICK i \in 1..n :
              /\ outbox[i].topic = "status_changed"
              /\ outbox[i].status = s /\ outbox[i].due = d
              /\ \A j \in 1..n : i < j => outbox[j].topic # "status_changed"
      BY <1>4 DEF LastTold
    <2>2. i \in 1..(n + 1) /\ more[i] = outbox[i]
      BY <1>1, <2>1
    <2>3. \A j \in 1..(n + 1) : i < j => more[j].topic # "status_changed"
      BY <1>1, <1>2, <1>4, <2>1
    <2>4. QED
      BY <1>1, <2>1, <2>2, <2>3 DEF LastTold
  <1>5. msg.topic # "status_changed" /\ NoneTold(outbox) => NoneTold(more)
    BY <1>1, <1>2 DEF NoneTold
  <1>6. QED
    BY <1>3, <1>4, <1>5 DEF more

(* A transition writes its status, its due date and, if it defers, itself.    *)
LEMMA TransitionLedger ==
  ASSUME TypeOK, NEW row \in Row, NEW new \in Status \ {"Absent"}, NEW kind \in EventType,
         row.due \in Nat,
         Cardinality(Deferrals(row.events)) + (IF kind \in Deferring THEN 1 ELSE 0) = row.deferrals,
         kind \in Deferring => row.window = NoTime,
         row.window # NoTime => Opened(row.events, row.window)
  PROVE  Ledger(transition(row, new, kind))
  <1> DEFINE t == transition(row, new, kind)
             e == [type |-> kind, new |-> new, due |-> row.due, at |-> now]
             msg == [topic |-> "status_changed", status |-> new, due |-> row.due]
  <1>1. row.events \in Seq(EventRecord) /\ row.outbox \in Seq(Message) /\ row.deferrals \in Nat
    BY DEF Row
  <1>2. e \in EventRecord /\ msg \in Message
    BY DEF TypeOK, Row, EventRecord, Message, Topic
  <1>3. /\ t.status = new /\ t.due = row.due /\ t.deferrals = row.deferrals
        /\ t.window = row.window
        /\ t.events = Append(row.events, e) /\ t.outbox = Append(row.outbox, msg)
    BY DEF transition, Event, Publish, Row
  <1>4. /\ e.new = new /\ e.due = row.due /\ e.type = kind
        /\ msg.topic = "status_changed" /\ msg.status = new /\ msg.due = row.due
    OBVIOUS
  <1> HIDE DEF t, e, msg
  <1>5. LastNew(t.events, new) /\ LastDue(t.events, row.due)
    BY <1>1, <1>2, <1>3, <1>4, AppendLedger
  <1>6. Cardinality(Deferrals(t.events)) = row.deferrals
    <2>1. CASE kind \in Deferring
      BY <1>1, <1>2, <1>3, <1>4, <2>1, AppendLedger
    <2>2. CASE kind \notin Deferring
      <3>1. Deferrals(t.events) = Deferrals(row.events)
        BY <1>1, <1>2, <1>3, <1>4, <2>2, AppendLedger
      <3>2. Cardinality(Deferrals(row.events)) \in Nat
        BY <1>1, DeferralsFinite
      <3>3. QED
        BY <2>2, <3>1, <3>2
    <2>3. QED
      BY <2>1, <2>2
  <1>7. t.window # NoTime => Opened(t.events, t.window)
    BY <1>1, <1>2, <1>3, <1>4, AppendLedger
  <1>8. LastTold(t.outbox, new, row.due)
    BY <1>2, <1>1, <1>3, <1>4, AppendTold
  <1>9. Ledger(t)
    BY <1>3, <1>5, <1>6, <1>7, <1>8 DEF Ledger
  <1>10. QED
    BY <1>9 DEF t

(* Quiet events and messages that are not about the status keep the ledger.   *)
LEMMA QuietRow ==
  ASSUME NEW row \in Row, NEW after \in Row, Ledger(row), row.status # "Absent",
         after.status = row.status, after.due = row.due,
         after.deferrals = row.deferrals, after.window = row.window,
         Quiet(row.events, after.events, row.status),
         \/ after.outbox = row.outbox
         \/ \E msg \in Message : /\ msg.topic # "status_changed"
                                 /\ after.outbox = Append(row.outbox, msg)
  PROVE  Ledger(after)
  <1>1. row.events \in Seq(EventRecord) /\ row.outbox \in Seq(Message)
    BY DEF Row
  <1>2. /\ row.due \in Nat
        /\ LastNew(row.events, row.status)
        /\ LastDue(row.events, row.due)
        /\ Cardinality(Deferrals(row.events)) = row.deferrals
        /\ row.window # NoTime => Opened(row.events, row.window)
        /\ \/ LastTold(row.outbox, row.status, row.due)
           \/ row.status = "Open" /\ NoneTold(row.outbox)
    BY DEF Ledger
  <1>3. /\ LastNew(after.events, row.status)
        /\ LastDue(after.events, row.due)
        /\ Deferrals(after.events) = Deferrals(row.events)
        /\ row.window # NoTime => Opened(after.events, row.window)
    BY <1>1, <1>2, QuietLedger
  <1>4. \/ LastTold(after.outbox, row.status, row.due)
        \/ row.status = "Open" /\ NoneTold(after.outbox)
    BY <1>1, <1>2, AppendTold
  <1>5. QED
    BY <1>2, <1>3, <1>4 DEF Ledger

(* An explanation window opened at this instant lasts Window ticks from now.  *)
LEMMA OpenWindowLedger ==
  ASSUME TypeOK, NEW row \in Row, Ledger(row), deadline_action(row) = "open_window"
  PROVE  Ledger(OpenWindow(row))
  <1> DEFINE o == OpenWindow(row)
             due_end == day_end(row.due, profile.tz)
             from == IF due_end > now THEN due_end ELSE now
             e == [type |-> "explanation_window_opened", new |-> "Deferred",
                   due |-> NoDate, at |-> now]
             msg == [topic |-> "explanation_window_opened", status |-> "Deferred", due |-> NoDate]
  <1>1. row.events \in Seq(EventRecord) /\ row.outbox \in Seq(Message) /\ row.status = "Deferred"
    BY DeadlineCases DEF Row
  <1>2. e \in EventRecord /\ msg \in Message
    BY DEF TypeOK, EventRecord, EventType, Status, Message, Topic, NoDate
  <1>3. /\ o.status = row.status /\ o.due = row.due /\ o.deferrals = row.deferrals
        /\ o.window = from + Window
        /\ o.events = Append(row.events, e) /\ o.outbox = Append(row.outbox, msg)
    BY <1>1 DEF OpenWindow, Event, Publish, Row
  <1>4. from + Window \in Int /\ now + Window <= from + Window
    <2>1. now \in Nat /\ row.due \in Int /\ profile.tz \in Nat
      BY TodayType DEF TypeOK, Row
    <2>2. due_end \in Int
      BY <2>1, DayLenAssumption DEF day_end
    <2>3. QED
      BY <2>1, <2>2, WindowAssumption
  <1>5. /\ e.new = "Deferred" /\ e.due = NoDate /\ e.type = "explanation_window_opened"
        /\ e.at = now /\ e.type \notin Deferring /\ msg.topic # "status_changed"
    BY DEF Deferring
  <1> HIDE DEF o, e, msg, from
  <1>6. Quiet(row.events, o.events, "Deferred") /\ Opened(o.events, o.window)
    BY <1>1, <1>2, <1>3, <1>4, <1>5, AppendLedger
  <1>7. /\ row.due \in Nat
        /\ LastNew(row.events, row.status)
        /\ LastDue(row.events, row.due)
        /\ Cardinality(Deferrals(row.events)) = row.deferrals
        /\ LastTold(row.outbox, row.status, row.due)
    BY <1>1 DEF Ledger
  <1>8. /\ LastNew(o.events, row.status)
        /\ LastDue(o.events, row.due)
        /\ Deferrals(o.events) = Deferrals(row.events)
    BY <1>1, <1>6, <1>7, QuietLedger
  <1>9. LastTold(o.outbox, row.status, row.due)
    BY <1>1, <1>2, <1>3, <1>5, <1>7, AppendTold
  <1>10. Ledger(o)
    BY <1>3, <1>6, <1>7, <1>8, <1>9 DEF Ledger
  <1>11. QED
    BY <1>10 DEF o

(* The deadline rules write what they do into the ledger.                     *)
LEMMA DeadlineLedger ==
  ASSUME TypeOK, NEW row \in Row, Ledger(row)
  PROVE  Ledger(apply_deadline(row))
  <1>1. CASE deadline_action(row) = "break"
    <2>1. row.status # "Absent"
      BY <1>1, DeadlineCases DEF ACTIVE
    <2>2. row.deferrals \in Nat
      BY DEF Row
    <2>3. Ledger(transition(row, "Broken", "broken"))
      BY <2>1, <2>2, TransitionLedger DEF Ledger, Status, EventType, Deferring
    <2>4. QED
      BY <1>1, <2>3 DEF apply_deadline
  <1>2. CASE deadline_action(row) = "open_window"
    BY <1>2, OpenWindowLedger DEF apply_deadline
  <1>3. CASE deadline_action(row) = "none"
    BY <1>3 DEF apply_deadline
  <1>4. QED
    BY <1>1, <1>2, <1>3, DeadlineCases

(* So does a re-evaluation.                                                   *)
LEMMA ReevaluateLedger ==
  ASSUME TypeOK, NEW row \in Row, Ledger(row), NEW acts
  PROVE  Ledger(reevaluate(row, acts))
  <1> DEFINE checked == apply_deadline(row)
  <1>1. checked \in Row /\ Ledger(checked)
    BY ApplyDeadlineOK, DeadlineLedger
  <1> HIDE DEF checked
  <1>2. checked.deferrals \in Nat
    BY <1>1 DEF Row
  <1>3. checked.status \in ACTIVE => Ledger(transition(checked, "Kept", "kept"))
    BY <1>1, <1>2, TransitionLedger DEF Ledger, Status, EventType, Deferring, ACTIVE
  <1>4. QED
    BY <1>1, <1>3 DEF reevaluate, checked

(* A run of quiet events is quiet.                                            *)
LEMMA ConcatQuiet ==
  ASSUME NEW events \in Seq(EventRecord), NEW tail \in Seq(EventRecord), NEW s,
         \A i \in 1..Len(tail) :
             tail[i].new = s /\ tail[i].due = NoDate /\ tail[i].type \notin Deferring
  PROVE  Quiet(events, events \o tail, s)
  <1> DEFINE n == Len(events)
             k == Len(tail)
             more == events \o tail
  <1>1. /\ n \in Nat /\ k \in Nat /\ more \in Seq(EventRecord) /\ Len(more) = n + k
        /\ \A i \in 1..n : more[i] = events[i]
        /\ \A i \in (n + 1)..(n + k) : more[i] = tail[i - n]
    OBVIOUS
  <1>2. \A i \in (n + 1)..(n + k) : i - n \in 1..k
    BY <1>1
  <1> HIDE DEF more
  <1>3. \A i \in (n + 1)..(n + k) :
            more[i].new = s /\ more[i].due = NoDate /\ more[i].type \notin Deferring
    BY <1>1, <1>2
  <1>4. Quiet(events, more, s)
    BY <1>1, <1>3 DEF Quiet
  <1>5. QED
    BY <1>4 DEF more

(* The removal of links is in the ledger too: one event each, none of them    *)
(* about a due date or a deferral, and the status they carry is current.      *)
LEMMA CancelLinksLedger ==
  ASSUME TypeOK, NEW row \in Row, Ledger(row), row.status # "Absent",
         NEW lost \in SUBSET DailyAction, NEW acts
  PROVE  Ledger(CancelLinks(row, lost, acts))
  <1> DEFINE removal == [type |-> "link_removed", new |-> row.status, due |-> NoDate, at |-> now]
             tail == [i \in 1..Cardinality(lost) |-> removal]
             cut == [row EXCEPT !.links = @ \ lost, !.events = @ \o tail]
             plain == [cut EXCEPT !.condition = "explicit"]
             changed == Event(plain, "condition_changed", cut.status, NoDate)
             adjusted == IF Backing(cut, acts) = {} /\ cut.condition # "explicit"
                         THEN changed ELSE cut
             told == Publish(adjusted, "condition_changed", NoDate)
             note == [type |-> "condition_changed", new |-> cut.status, due |-> NoDate, at |-> now]
             msg == [topic |-> "condition_changed", status |-> adjusted.status, due |-> NoDate]
  <1>1. now \in Nat /\ Cardinality(lost) \in Nat /\ row.events \in Seq(EventRecord)
    BY FiniteAssumption, FS_Subset, FS_CardinalityType DEF TypeOK, Row
  <1>2. removal \in EventRecord
    BY <1>1 DEF EventRecord, Row, EventType, NoDate
  <1>3. /\ tail \in Seq(EventRecord) /\ Len(tail) = Cardinality(lost)
        /\ \A i \in 1..Len(tail) : /\ tail[i].new = row.status /\ tail[i].due = NoDate
                                   /\ tail[i].type \notin Deferring
    BY <1>1, <1>2 DEF Deferring
  <1> HIDE DEF tail
  <1>4. Quiet(row.events, row.events \o tail, row.status)
    BY <1>1, <1>3, ConcatQuiet
  <1>5. /\ cut \in Row /\ cut.status = row.status /\ cut.due = row.due
        /\ cut.deferrals = row.deferrals /\ cut.window = row.window
        /\ cut.events = row.events \o tail /\ cut.outbox = row.outbox
    <2>1. row.events \o tail \in Seq(EventRecord) /\ row.links \ lost \in SUBSET DailyAction
      BY <1>1, <1>3 DEF Row
    <2>2. QED
      BY <2>1 DEF Row
  <1>6. Ledger(cut)
    <2> HIDE DEF cut
    <2>1. QED
      BY <1>4, <1>5, QuietRow
  <1>7. /\ plain \in Row /\ plain.status = cut.status /\ plain.due = cut.due
        /\ plain.deferrals = cut.deferrals /\ plain.window = cut.window
        /\ plain.events = cut.events /\ plain.outbox = cut.outbox
    <2> HIDE DEF cut
    <2>1. QED
      BY <1>5 DEF Row, Condition
  <1> HIDE DEF cut
  <1>8. note \in EventRecord /\ note.new = cut.status /\ note.due = NoDate
        /\ note.type \notin Deferring
    BY <1>1, <1>5 DEF EventRecord, EventType, Row, NoDate, Deferring
  <1>9. /\ changed \in Row /\ changed.status = cut.status /\ changed.due = cut.due
        /\ changed.deferrals = cut.deferrals /\ changed.window = cut.window
        /\ changed.events = Append(cut.events, note) /\ changed.outbox = cut.outbox
    <2> HIDE DEF plain
    <2>1. cut.status \in Status
      BY <1>5 DEF Row
    <2>2. changed \in Row
      BY <1>1, <1>7, <2>1, EventOK DEF EventType, NoDate
    <2>3. QED
      BY <1>7, <2>2 DEF Event, Row
  <1> HIDE DEF plain, changed, note
  <1>10. Ledger(changed)
    <2>1. cut.events \in Seq(EventRecord)
      BY <1>5 DEF Row
    <2>2. Quiet(cut.events, changed.events, cut.status)
      BY <1>8, <1>9, <2>1, AppendLedger
    <2>3. QED
      BY <1>5, <1>6, <1>9, <2>2, QuietRow
  <1>11. adjusted \in Row /\ Ledger(adjusted) /\ adjusted.status # "Absent"
    BY <1>5, <1>6, <1>9, <1>10
  <1> HIDE DEF adjusted
  <1>12. /\ told \in Row /\ told.status = adjusted.status /\ told.due = adjusted.due
         /\ told.deferrals = adjusted.deferrals /\ told.window = adjusted.window
         /\ told.events = adjusted.events /\ told.outbox = Append(adjusted.outbox, msg)
         /\ msg \in Message /\ msg.topic # "status_changed"
    <2>1. told \in Row
      BY <1>11, PublishOK DEF Topic, NoDate
    <2>2. msg \in Message /\ msg.topic # "status_changed"
      BY <1>11 DEF Row, Message, Topic, NoDate
    <2>3. /\ told.status = adjusted.status /\ told.due = adjusted.due
          /\ told.deferrals = adjusted.deferrals /\ told.window = adjusted.window
          /\ told.events = adjusted.events /\ told.outbox = Append(adjusted.outbox, msg)
      BY <1>11 DEF Publish, Row
    <2>4. QED
      BY <2>1, <2>2, <2>3
  <1> HIDE DEF told, msg
  <1>13. Quiet(adjusted.events, told.events, adjusted.status)
    <2>1. adjusted.events \in Seq(EventRecord)
      BY <1>11 DEF Row
    <2>2. Len(adjusted.events) \in Nat
      BY <2>1
    <2>3. QED
      BY <1>12, <2>1, <2>2 DEF Quiet
  <1>14. Ledger(told)
    BY <1>11, <1>12, <1>13, QuietRow
  <1>15. Ledger(reevaluate(told, acts))
    BY <1>12, <1>14, ReevaluateLedger
  <1>16. QED
    BY <1>15 DEF CancelLinks, told, adjusted, changed, plain, cut, tail

(* Every request writes what it does into the ledger.                         *)
LEMMA RequestedLedger ==
  ASSUME TypeOK, NEW row \in Row, Ledger(row), NEW after, Requested(row, after)
  PROVE  Ledger(after)
  <1>0. row.deferrals \in Nat /\ row.events \in Seq(EventRecord)
    BY DEF Row
  <1>1. ASSUME row.status \in ACTIVE,
               NEW new \in {"Kept", "Cancelled"}, NEW kind \in {"kept", "cancelled"}
        PROVE  Ledger(transition(row, new, kind))
    BY <1>0, <1>1, TransitionLedger DEF Ledger, Status, EventType, Deferring, ACTIVE
  <1>2. ASSUME NEW new_due \in 0..MaxDay, NEW acknowledged \in BOOLEAN,
               validate_deferral(row, new_due, acknowledged)
        PROVE  Ledger(DeferredRow(row, new_due))
    <2> DEFINE moved == [row EXCEPT !.deferrals = @ + 1, !.due = new_due, !.window = NoTime]
               kind == IF row.status = "Open" THEN "deferred" ELSE "redeferred"
    <2>1. /\ moved \in Row /\ moved.due = new_due /\ moved.window = NoTime
          /\ moved.deferrals = row.deferrals + 1 /\ moved.events = row.events
      <3>1. row.deferrals + 1 \in Nat /\ NoTime \in Int /\ new_due \in Int
        BY <1>0, BoundAssumption DEF NoTime
      <3>2. QED
        BY <3>1 DEF Row
    <2>2. kind \in EventType /\ kind \in Deferring /\ new_due \in Nat
      BY BoundAssumption DEF EventType, Deferring
    <2>3. Cardinality(Deferrals(row.events)) = row.deferrals
      BY <1>2 DEF Ledger, validate_deferral, ACTIVE
    <2> HIDE DEF moved, kind
    <2>4. Ledger(transition(moved, "Deferred", kind))
      BY <1>0, <2>1, <2>2, <2>3, TransitionLedger DEF Status
    <2>5. QED
      BY <2>4 DEF DeferredRow, moved, kind
  <1>3. ASSUME validate_explanation(row)
        PROVE  Ledger(ExplainedRow(row))
    <2> DEFINE x == ExplainedRow(row)
               e == [type |-> "explanation_submitted", new |-> "Deferred", due |-> NoDate,
                     at |-> now]
    <2>1. x \in Row /\ row.status = "Deferred"
      BY <1>3, ExplainedRowOK DEF validate_explanation
    <2>2. /\ x.status = row.status /\ x.due = row.due /\ x.deferrals = row.deferrals
          /\ x.window = row.window /\ x.outbox = row.outbox
          /\ x.events = Append(row.events, e)
      BY DEF ExplainedRow, Event, Row
    <2>3. e \in EventRecord /\ e.new = "Deferred" /\ e.due = NoDate /\ e.type \notin Deferring
      BY DEF TypeOK, EventRecord, EventType, Status, NoDate, Deferring
    <2> HIDE DEF x, e
    <2>4. Quiet(row.events, x.events, "Deferred")
      BY <1>0, <2>2, <2>3, AppendLedger
    <2>5. Ledger(x)
      BY <2>1, <2>2, <2>4, QuietRow
    <2>6. QED
      BY <2>5 DEF x
  <1>4. QED
    BY <1>1, <1>2, <1>3 DEF Requested

(* A new commitment begins its ledger.                                        *)
LEMMA CreatedLedger ==
  ASSUME NEW r \in Request, r.due \in Nat
  PROVE  Ledger(CreatedRow(r))
  <1> DEFINE x == CreatedRow(r)
             e == [type |-> "created", new |-> "Open", due |-> r.due, at |-> r.at]
  <1>1. /\ x.status = "Open" /\ x.due = r.due /\ x.deferrals = 0 /\ x.window = NoTime
        /\ x.events = <<e>> /\ x.outbox = <<>>
    BY DEF CreatedRow, NoRow
  <1>2. /\ Len(<<e>>) = 1 /\ <<e>>[1] = e
        /\ e.new = "Open" /\ e.due = r.due /\ e.type \notin Deferring
    BY DEF Deferring
  <1> HIDE DEF x, e
  <1>3. LastNew(x.events, "Open") /\ LastDue(x.events, r.due)
    BY <1>1, <1>2 DEF LastNew, LastDue
  <1>4. Deferrals(x.events) = {}
    BY <1>1, <1>2 DEF Deferrals
  <1>5. Cardinality(Deferrals(x.events)) = 0
    BY <1>4, FS_EmptySet
  <1>6. NoneTold(x.outbox)
    BY <1>1 DEF NoneTold
  <1>7. Ledger(x)
    BY <1>1, <1>3, <1>5, <1>6 DEF Ledger
  <1>8. QED
    BY <1>7 DEF x

(* Every step keeps every ledger in order.                                    *)
LEMMA LedgerStep == LInv /\ [Next]_vars => \A c \in Commitment : Ledger(rows'[c])
  <1> SUFFICES ASSUME LInv, [Next]_vars, NEW c \in Commitment
               PROVE  Ledger(rows'[c])
    OBVIOUS
  <1>0. /\ TypeOK /\ rows[c] \in Row /\ pending[c] \in Request /\ RowEffect(c)
        /\ Ledger(rows[c])
    BY RowStep DEF LInv, TypeOK
  <1>1. CASE CommitCreate(c) /\ rows'[c] = CreatedRow(pending[c])
    <2>1. pending[c].due \in Nat
      BY <1>1 DEF CommitCreate, LInv, PendingTerms
    <2>2. QED
      BY <1>0, <1>1, <2>1, CreatedLedger
  <1>2. CASE Requested(apply_deadline(rows[c]), rows'[c])
    BY <1>0, <1>2, ApplyDeadlineOK, DeadlineLedger, RequestedLedger
  <1>3. CASE rows'[c] = reevaluate(rows[c], actions')
    BY <1>0, <1>3, ReevaluateLedger
  <1>4. ASSUME rows[c].status \in ACTIVE, NEW A \in SUBSET DailyAction,
               rows'[c] = CancelLinks(rows[c], rows[c].links \cap A, actions')
        PROVE  Ledger(rows'[c])
    <2>1. rows[c].status # "Absent" /\ rows[c].links \cap A \in SUBSET DailyAction
      BY <1>4 DEF ACTIVE
    <2>2. QED
      BY <1>0, <1>4, <2>1, CancelLinksLedger
  <1>5. QED
    BY <1>0, <1>1, <1>2, <1>3, <1>4 DEF RowEffect

(* The invariant behind the ledger is inductive.                              *)
LEMMA LedgerInvariant == Spec => []LInv
  <1>1. Init => LInv
    <2> SUFFICES ASSUME Init PROVE LInv
      OBVIOUS
    <2>1. TypeOK
      BY TypeInit
    <2>2. PendingAbsent /\ PendingTerms
      BY DEF Init, PendingAbsent, PendingTerms
    <2>3. \A c \in Commitment : Ledger(rows[c])
      <3>1. NoRow.status = "Absent"
        BY DEF NoRow
      <3>2. QED
        BY <3>1 DEF Init, Ledger
    <2>4. QED
      BY <2>1, <2>2, <2>3 DEF LInv
  <1>2. LInv /\ [Next]_vars => LInv'
    <2> SUFFICES ASSUME LInv, [Next]_vars PROVE LInv'
      OBVIOUS
    <2>1. TypeOK' /\ PendingAbsent' /\ PendingTerms'
      BY TypeStep, PendingStep, PendingTermsStep DEF LInv
    <2>2. \A c \in Commitment : Ledger(rows'[c])
      BY LedgerStep
    <2>3. (\A c \in Commitment : Ledger(rows[c]))'
      BY <2>2 DEF Ledger, LastNew, LastDue, Deferrals, Opened, LastTold, NoneTold
    <2>4. QED
      BY <2>1, <2>3 DEF LInv
  <1>3. QED
    BY <1>1, <1>2, PTL DEF Spec

-----------------------------------------------------------------------------
(* Replaying the ledger gives the row *)

(* At any time the ledger and the messages of a commitment tell what its row  *)
(* says: status, due date and number of deferrals.                            *)
THEOREM LedgerIsComplete == Spec => []LedgerReplays
  <1>1. LInv => LedgerReplays
    <2> SUFFICES ASSUME LInv PROVE LedgerReplays
      OBVIOUS
    <2> SUFFICES ASSUME NEW c \in Commitment, rows[c].status # "Absent"
                 PROVE  LET row == rows[c]
                            Last(seq, Want(_)) ==
                                seq[CHOOSE i \in DOMAIN seq :
                                      Want(seq[i]) /\ \A j \in DOMAIN seq : Want(seq[j]) => j <= i]
                            Any(e) == TRUE
                            Dated(e) == e.due # NoDate
                            Told(msg) == msg.topic = "status_changed"
                            deferrals == {i \in DOMAIN row.events :
                                            row.events[i].type \in {"deferred", "redeferred"}}
                        IN  /\ Last(row.events, Any).new = row.status
                            /\ Last(row.events, Dated).due = row.due
                            /\ Cardinality(deferrals) = row.deferrals
                            /\ IF \E i \in DOMAIN row.outbox : Told(row.outbox[i])
                               THEN /\ Last(row.outbox, Told).status = row.status
                                    /\ Last(row.outbox, Told).due = row.due
                               ELSE row.status = "Open"
      BY DEF LedgerReplays
    <2> DEFINE ev == rows[c].events
               ob == rows[c].outbox
               Any(i) == TRUE /\ \A j \in DOMAIN ev : TRUE => j <= i
               Dated(i) == ev[i].due # NoDate /\ \A j \in DOMAIN ev : ev[j].due # NoDate => j <= i
               Told(i) == /\ ob[i].topic = "status_changed"
                          /\ \A j \in DOMAIN ob : ob[j].topic = "status_changed" => j <= i
               any == CHOOSE i \in DOMAIN ev : Any(i)
               dated == CHOOSE i \in DOMAIN ev : Dated(i)
               told == CHOOSE i \in DOMAIN ob : Told(i)
               deferrals == {i \in DOMAIN ev : ev[i].type \in {"deferred", "redeferred"}}
    <2>1. /\ ev \in Seq(EventRecord) /\ ob \in Seq(Message)
          /\ DOMAIN ev = 1..Len(ev) /\ DOMAIN ob = 1..Len(ob)
          /\ Len(ev) \in Nat /\ Len(ob) \in Nat
      BY DEF LInv, TypeOK, Row
    <2>2. /\ rows[c].due \in Nat
          /\ LastNew(ev, rows[c].status)
          /\ LastDue(ev, rows[c].due)
          /\ Cardinality(Deferrals(ev)) = rows[c].deferrals
          /\ \/ LastTold(ob, rows[c].status, rows[c].due)
             \/ rows[c].status = "Open" /\ NoneTold(ob)
      BY DEF LInv, Ledger
    <2> HIDE DEF ev, ob
    <2>3. ev[any].new = rows[c].status
      <3>1. Len(ev) \in DOMAIN ev /\ Any(Len(ev))
        BY <2>1, <2>2 DEF LastNew
      <3>2. any \in DOMAIN ev /\ Any(any)
        BY <3>1
      <3> HIDE DEF any
      <3>3. any = Len(ev)
        BY <2>1, <3>1, <3>2
      <3>4. QED
        BY <2>2, <3>3 DEF LastNew
    <2>4. ev[dated].due = rows[c].due
      <3>1. PICK k \in 1..Len(ev) : /\ ev[k].due = rows[c].due
                                    /\ \A j \in 1..Len(ev) : k < j => ev[j].due = NoDate
        BY <2>2 DEF LastDue
      <3>2. k \in DOMAIN ev /\ Dated(k)
        BY <2>1, <2>2, <3>1 DEF NoDate
      <3>3. dated \in DOMAIN ev /\ Dated(dated)
        BY <3>2
      <3> HIDE DEF dated
      <3>4. dated = k
        BY <2>1, <3>2, <3>3
      <3>5. QED
        BY <3>1, <3>4
    <2>5. Cardinality(deferrals) = rows[c].deferrals
      <3>1. deferrals = Deferrals(ev)
        BY <2>1 DEF Deferrals, Deferring
      <3>2. QED
        BY <2>2, <3>1
    <2>6. IF \E i \in DOMAIN ob : ob[i].topic = "status_changed"
          THEN ob[told].status = rows[c].status /\ ob[told].due = rows[c].due
          ELSE rows[c].status = "Open"
      <3>1. CASE LastTold(ob, rows[c].status, rows[c].due)
        <4>1. PICK k \in 1..Len(ob) :
                  /\ ob[k].topic = "status_changed"
                  /\ ob[k].status = rows[c].status /\ ob[k].due = rows[c].due
                  /\ \A j \in 1..Len(ob) : k < j => ob[j].topic # "status_changed"
          BY <3>1 DEF LastTold
        <4>2. k \in DOMAIN ob /\ Told(k)
          BY <2>1, <4>1
        <4>3. told \in DOMAIN ob /\ Told(told)
          BY <4>2
        <4> HIDE DEF told
        <4>4. told = k
          BY <2>1, <4>2, <4>3
        <4>5. QED
          BY <4>1, <4>2, <4>4
      <3>2. CASE rows[c].status = "Open" /\ NoneTold(ob)
        BY <2>1, <3>2 DEF NoneTold
      <3>3. QED
        BY <2>2, <3>1, <3>2
    <2>7. QED
      BY <2>3, <2>4, <2>5, <2>6 DEF ev, ob
  <1>2. QED
    BY <1>1, LedgerInvariant, PTL

-----------------------------------------------------------------------------
(* The explanation window lasts in full *)

(* The window of a row has run out.                                           *)
RunOut(row) == row.window # NoTime /\ row.window <= now

(* The deadline rules break a deferred promise only when its window ran out.  *)
LEMMA DeadlineRunOut ==
  ASSUME TypeOK, NEW row \in Row, row.status = "Deferred",
         apply_deadline(row).status = "Broken"
  PROVE  RunOut(row)
  <1>1. now \in Nat /\ today \in Int /\ row.due \in Int /\ row.window \in Int
    BY TodayType DEF TypeOK, Row
  <1>2. OpenWindow(row).status = "Deferred"
    BY OpenWindowFields
  <1>3. deadline_action(row) = "break"
    BY <1>2, DeadlineCases DEF apply_deadline
  <1>4. QED
    BY <1>1, <1>3 DEF deadline_action, RunOut, ACTIVE

(* A re-evaluation breaks nothing else.                                       *)
LEMMA ReevaluateRunOut ==
  ASSUME TypeOK, NEW row \in Row, row.status = "Deferred", NEW acts,
         reevaluate(row, acts).status = "Broken"
  PROVE  RunOut(row)
  <1>1. transition(apply_deadline(row), "Kept", "kept").status = "Kept"
    BY ApplyDeadlineOK, TransitionStatus
  <1>2. apply_deadline(row).status = "Broken"
    BY <1>1 DEF reevaluate
  <1>3. QED
    BY <1>2, DeadlineRunOut

(* The removal of links leaves the window as it is before it re-evaluates.    *)
LEMMA CancelLinksRunOut ==
  ASSUME TypeOK, NEW row \in Row, row.status = "Deferred",
         NEW lost \in SUBSET DailyAction, NEW acts,
         CancelLinks(row, lost, acts).status = "Broken"
  PROVE  RunOut(row)
  <1> DEFINE removal == [type |-> "link_removed", new |-> row.status, due |-> NoDate, at |-> now]
             tail == [i \in 1..Cardinality(lost) |-> removal]
             cut == [row EXCEPT !.links = @ \ lost, !.events = @ \o tail]
             adjusted == IF Backing(cut, acts) = {} /\ cut.condition # "explicit"
                         THEN Event([cut EXCEPT !.condition = "explicit"],
                                    "condition_changed", cut.status, NoDate)
                         ELSE cut
             told == Publish(adjusted, "condition_changed", NoDate)
  <1>1. told \in Row
    BY CancelLinksParts
  <1>2. told.status = row.status /\ told.window = row.window
    <2>1. cut.status = row.status /\ cut.window = row.window
      BY DEF Row
    <2> HIDE DEF cut
    <2>2. adjusted.status = row.status /\ adjusted.window = row.window
      BY <2>1 DEF Event
    <2> HIDE DEF adjusted
    <2>3. QED
      BY <2>2 DEF Publish
  <1>3. reevaluate(told, acts).status = "Broken"
    BY DEF CancelLinks
  <1> HIDE DEF told
  <1>4. RunOut(told)
    BY <1>1, <1>2, <1>3, ReevaluateRunOut
  <1>5. QED
    BY <1>2, <1>4 DEF RunOut

(* However late the sweep that opens the window comes, and whichever handler  *)
(* applies the deadline, a deferred promise is broken only when the window    *)
(* opened after its last deferral has lasted in full.                         *)
THEOREM WindowIsFull == Spec => FullExplanationWindow
  <1>1. LInv /\ [Next]_vars =>
          \A c \in Commitment :
              rows[c].status = "Deferred" /\ rows'[c].status = "Broken" =>
                  \E i \in DOMAIN rows[c].events :
                      /\ rows[c].events[i].type = "explanation_window_opened"
                      /\ rows[c].events[i].at + Window <= now
                      /\ \A j \in DOMAIN rows[c].events :
                            rows[c].events[j].type \in {"deferred", "redeferred"} => j < i
    <2> SUFFICES ASSUME LInv, [Next]_vars, NEW c \in Commitment,
                        rows[c].status = "Deferred", rows'[c].status = "Broken"
                 PROVE  \E i \in DOMAIN rows[c].events :
                            /\ rows[c].events[i].type = "explanation_window_opened"
                            /\ rows[c].events[i].at + Window <= now
                            /\ \A j \in DOMAIN rows[c].events :
                                  rows[c].events[j].type \in {"deferred", "redeferred"} => j < i
      OBVIOUS
    <2>0. /\ TypeOK /\ rows[c] \in Row /\ RowEffect(c) /\ Ledger(rows[c])
          /\ rows[c].events \in Seq(EventRecord) /\ now \in Nat /\ rows[c].window \in Int
      BY RowStep DEF LInv, TypeOK, Row
    <2>1. RunOut(rows[c])
      <3>1. CASE CommitCreate(c) /\ rows'[c] = CreatedRow(pending[c])
        BY <3>1 DEF CreatedRow, NoRow
      <3>2. CASE Requested(apply_deadline(rows[c]), rows'[c])
        <4> DEFINE row == apply_deadline(rows[c])
        <4>1. row \in Row
          BY <2>0, ApplyDeadlineOK
        <4>2. CASE rows'[c] = row
          BY <2>0, <4>2, DeadlineRunOut
        <4> HIDE DEF row
        <4>3. ASSUME NEW new \in {"Kept", "Cancelled"}, NEW kind, rows'[c] = transition(row, new, kind)
              PROVE  FALSE
          BY <4>1, <4>3, TransitionStatus
        <4>4. ASSUME NEW new_due \in 0..MaxDay, rows'[c] = DeferredRow(row, new_due)
              PROVE  FALSE
          <5>1. new_due \in Int
            BY BoundAssumption
          <5>2. QED
            BY <4>1, <4>4, <5>1, DeferredStatus
        <4>5. ASSUME validate_explanation(row), rows'[c] = ExplainedRow(row)
              PROVE  FALSE
          <5>1. ExplainedRow(row).status = row.status
            BY <4>1 DEF ExplainedRow, Event, Row
          <5>2. QED
            BY <4>5, <5>1 DEF validate_explanation
        <4>6. QED
          BY <3>2, <4>2, <4>3, <4>4, <4>5 DEF Requested, row
      <3>3. CASE rows'[c] = reevaluate(rows[c], actions')
        BY <2>0, <3>3, ReevaluateRunOut
      <3>4. ASSUME NEW A \in SUBSET DailyAction,
                   rows'[c] = CancelLinks(rows[c], rows[c].links \cap A, actions')
            PROVE  RunOut(rows[c])
        <4>1. rows[c].links \cap A \in SUBSET DailyAction
          OBVIOUS
        <4>2. QED
          BY <2>0, <3>4, <4>1, CancelLinksRunOut
      <3>5. QED
        BY <2>0, <3>1, <3>2, <3>3, <3>4 DEF RowEffect
    <2>2. Opened(rows[c].events, rows[c].window) /\ rows[c].window <= now
      BY <2>0, <2>1 DEF Ledger, RunOut
    <2>3. PICK i \in 1..Len(rows[c].events) :
              /\ rows[c].events[i].type = "explanation_window_opened"
              /\ rows[c].events[i].at + Window <= rows[c].window
              /\ \A j \in 1..Len(rows[c].events) : rows[c].events[j].type \in Deferring => j < i
      BY <2>2 DEF Opened
    <2>4. DOMAIN rows[c].events = 1..Len(rows[c].events) /\ rows[c].events[i].at \in Int
      <3>1. DOMAIN rows[c].events = 1..Len(rows[c].events)
        BY <2>0
      <3>2. rows[c].events[i] \in EventRecord
        BY <2>0, <3>1
      <3>3. QED
        BY <3>1, <3>2 DEF EventRecord
    <2>5. rows[c].events[i].at + Window <= now
      BY <2>0, <2>2, <2>3, <2>4, WindowAssumption
    <2>6. QED
      BY <2>3, <2>4, <2>5 DEF Deferring
  <1>2. QED
    BY <1>1, LedgerInvariant, PTL DEF Spec, FullExplanationWindow
=============================================================================
