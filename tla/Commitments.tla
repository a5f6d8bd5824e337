----------------------------- MODULE Commitments -----------------------------
(* The Commitment lifecycle and Promise Ledger of one User:                   *)
(* domain/commitments.py with the parts of domain/checkins.py,                *)
(* domain/schedule/reschedule.py, domain/integrity.py and domain/profile.py   *)
(* that it reacts to or calls.                                                *)
(*                                                                            *)
(* Every handler is one database transaction that holds FOR UPDATE locks on   *)
(* the commitment rows it writes, so a handler is one step, taken when it     *)
(* commits; a handler that raises DomainError is rolled back and is no step.  *)
(* create() is the exception: it validates the linked Daily Actions with a    *)
(* plain read and locks nothing, so anything may commit between its read and  *)
(* its own commit.  It is two steps, BeginCreate and CommitCreate.            *)
EXTENDS Integrity, Sequences

CONSTANTS
    Commitment,   \* ids of the commitments the User may create
    DailyAction,  \* ids of the User's daily actions
    Window,       \* length of the explanation window, in ticks
    Offsets,      \* zone offsets the User may move to
    Thresholds,   \* integrity thresholds the User may set
    MaxTime,      \* bound: the clock stops here
    MaxDay        \* bound: latest due date the User may ask for

ASSUME FiniteAssumption == IsFiniteSet(Commitment) /\ IsFiniteSet(DailyAction)
ASSUME WindowAssumption == Window \in Nat \ {0}
ASSUME OffsetsAssumption == Offsets \subseteq Nat /\ Offsets # {}
ASSUME ThresholdsAssumption == Thresholds \subseteq Nat /\ Thresholds # {}
ASSUME BoundAssumption == MaxTime \in Nat /\ MaxDay \in Nat

VARIABLES
    now,        \* the application clock
    profile,    \* users row: zone offset and integrity threshold
    actions,    \* daily_actions rows: status and lifecycle_state
    rows,       \* commitments rows with their links, events and messages
    pending,    \* create() calls between their validation and their commit
    snapshots,  \* integrity_score_snapshots
    flags       \* proactive_flags of type integrity_below_threshold

vars == <<now, profile, actions, rows, pending, snapshots, flags>>

NoTime == -1
NoDate == -1
NoRequest == [links |-> {}, condition |-> "explicit", due |-> NoDate, at |-> NoTime]

today == local_date(now, profile.tz)

-----------------------------------------------------------------------------
(* Pure rules *)

ActionTransitions ==
    [Planned   |-> {"Started", "Completed", "Skipped"},
     Started   |-> {"Completed", "Skipped"},
     Completed |-> {},
     Skipped   |-> {}]

TRANSITIONS ==
    [Absent    |-> {},
     Open      |-> {"Kept", "Broken", "Deferred", "Cancelled"},
     Deferred  |-> {"Kept", "Broken", "Deferred"},
     Kept      |-> {},
     Broken    |-> {},
     Cancelled |-> {}]

ACTIVE == {"Open", "Deferred"}
Status == {"Absent", "Open", "Deferred", "Kept", "Broken", "Cancelled"}
Condition == {"single", "all", "any", "explicit"}

(* Fault: the requested condition is stored without validation.               *)
UnvalidatedCondition(requested, links) == requested

(* The condition a request resolves to, "rejected" for a validation error.    *)
resolve_condition(requested, links) ==
    CASE links = 0 -> IF requested \in {"none", "explicit"} THEN "explicit" ELSE "rejected"
      [] links = 1 -> IF requested \in {"none", "single"} THEN "single" ELSE "rejected"
      [] OTHER     -> IF requested \in {"all", "any"} THEN requested ELSE "rejected"

linkable(a) == actions[a].life = "active" /\ actions[a].status \in {"Planned", "Started"}

(* Non-removed links whose action is not cancelled (_linked_statuses).        *)
Backing(row, acts) == {a \in row.links : acts[a].life = "active"}

condition_satisfied(row, acts) ==
    LET backing == Backing(row, acts)
        done == {a \in backing : acts[a].status = "Completed"}
    IN  /\ row.condition # "explicit"
        /\ backing # {}
        /\ IF row.condition = "all" THEN done = backing ELSE done # {}

window_open(row) == row.window # NoTime /\ now < row.window

deadline_action(row) ==
    CASE row.status \notin ACTIVE \/ row.due >= today -> "none"
      [] row.status = "Open" /\ row.due < today -> "break"
      [] row.status = "Deferred" /\ row.due < today ->
            IF row.window = NoTime THEN "open_window"
            ELSE IF now >= row.window THEN "break" ELSE "none"

(* Fault: any explanation ever submitted counts for the current window.       *)
AnyExplanation(row) ==
    \E i \in DOMAIN row.events : row.events[i].type = "explanation_submitted"

(* An explanation was submitted since the latest explanation window opened.   *)
window_explanation(row) ==
    \E i \in DOMAIN row.events :
        /\ row.events[i].type = "explanation_submitted"
        /\ \A j \in DOMAIN row.events :
              row.events[j].type = "explanation_window_opened" => j < i

(* Fault: the status of the commitment is not checked.                        *)
DeferAnyStatus(row, new_due, acknowledged) ==
    /\ row.status # "Absent"
    /\ new_due > today
    /\ new_due > row.due

validate_deferral(row, new_due, acknowledged) ==
    /\ row.status \in ACTIVE
    /\ new_due > today
    /\ new_due > row.due
    /\ row.status = "Deferred" =>
          window_open(row) /\ window_explanation(row) /\ acknowledged

validate_explanation(row) ==
    row.status = "Deferred" /\ window_open(row) /\ ~ window_explanation(row)

-----------------------------------------------------------------------------
(* Effects on one row *)

Event(row, type, new, due) ==
    [row EXCEPT !.events =
        Append(@, [type |-> type, new |-> new, due |-> due, at |-> now])]

(* A domain event published in the same transaction (events/outbox.py).       *)
Publish(row, topic, due) ==
    [row EXCEPT !.outbox = Append(@, [topic |-> topic, status |-> row.status, due |-> due])]

transition(row, new, kind) ==
    LET moved == [row EXCEPT !.status = new,
                             !.resolved = IF new \in ACTIVE THEN @ ELSE now]
    IN  Publish(Event(moved, kind, new, moved.due), "status_changed", moved.due)

(* Fault: the window is counted from the due date, not from its observation.  *)
WindowFromDueDate(row) ==
    LET opened == [row EXCEPT !.window = day_end(row.due, profile.tz) + Window]
    IN  Publish(Event(opened, "explanation_window_opened", "Deferred", NoDate),
                "explanation_window_opened", NoDate)

OpenWindow(row) ==
    LET due_end == day_end(row.due, profile.tz)
        from == IF due_end > now THEN due_end ELSE now
        opened == [row EXCEPT !.window = from + Window]
    IN  Publish(Event(opened, "explanation_window_opened", "Deferred", NoDate),
                "explanation_window_opened", NoDate)

apply_deadline(row) ==
    CASE deadline_action(row) = "break"       -> transition(row, "Broken", "broken")
      [] deadline_action(row) = "open_window" -> OpenWindow(row)
      [] deadline_action(row) = "none"        -> row

(* Deadline first, then the completion condition.                             *)
reevaluate(row, acts) ==
    LET checked == apply_deadline(row)
    IN  IF checked.status \in ACTIVE /\ condition_satisfied(checked, acts)
        THEN transition(checked, "Kept", "kept")
        ELSE checked

(* Fault: the links go, the condition stays and nothing is re-evaluated.      *)
CancelLinksOnly(row, lost, acts) ==
    Publish([row EXCEPT !.links = @ \ lost,
                        !.events = Append(@, [type |-> "link_removed", new |-> row.status,
                                              due |-> NoDate, at |-> now])],
            "condition_changed", NoDate)

(* cancel_hook() for one active commitment with cancelled links `lost`: one    *)
(* link_removed event each, the condition adjusted, the User notified whether *)
(* or not it changed, and the commitment re-evaluated.                        *)
CancelLinks(row, lost, acts) ==
    LET removal == [type |-> "link_removed", new |-> row.status, due |-> NoDate, at |-> now]
        cut == [row EXCEPT !.links = @ \ lost,
                           !.events = @ \o [i \in 1..Cardinality(lost) |-> removal]]
        adjusted == IF Backing(cut, acts) = {} /\ cut.condition # "explicit"
                    THEN Event([cut EXCEPT !.condition = "explicit"],
                               "condition_changed", cut.status, NoDate)
                    ELSE cut
    IN  reevaluate(Publish(adjusted, "condition_changed", NoDate), acts)

-----------------------------------------------------------------------------
(* Initial state *)

NoRow ==
    [status |-> "Absent", due |-> NoDate, condition |-> "explicit", links |-> {},
     window |-> NoTime, deferrals |-> 0, resolved |-> NoTime, facts |-> 0,
     events |-> <<>>, outbox |-> <<>>]

Init ==
    /\ now = 0
    /\ profile \in [tz : Offsets, threshold : Thresholds]
    /\ actions = [a \in DailyAction |-> [status |-> "Planned", life |-> "active"]]
    /\ rows = [c \in Commitment |-> NoRow]
    /\ pending = [c \in Commitment |-> NoRequest]
    /\ snapshots = [d \in {} |-> NoDate]
    /\ flags = [d \in {} |-> NoDate]

(* IntegrityService.refresh(), run by a handler after it wrote the rows.      *)
refresh ==
    LET counts == compute(rows', today, profile.tz)
    IN  /\ snapshots' = Upsert(snapshots, today, counts)
        /\ flags' = FlagsAfter(flags, snapshots, today, counts, profile.threshold)

-----------------------------------------------------------------------------
(* Environment: the clock and the User's profile *)

Tick ==
    /\ now < MaxTime
    /\ now' = now + 1
    /\ UNCHANGED <<profile, actions, rows, pending, snapshots, flags>>

UpdateProfile(p) ==
    /\ profile' = p
    /\ UNCHANGED <<now, actions, rows, pending, snapshots, flags>>

-----------------------------------------------------------------------------
(* Creation *)

BeginCreate(c, links, requested, due) ==
    LET condition == resolve_condition(requested, Cardinality(links))
    IN  /\ rows[c].status = "Absent"
        /\ pending[c] = NoRequest
        /\ due >= today
        /\ \A a \in links : linkable(a)
        /\ condition # "rejected"
        /\ pending' = [pending EXCEPT ![c] =
              [links |-> links, condition |-> condition, due |-> due, at |-> now]]
        /\ UNCHANGED <<now, profile, actions, rows, snapshots, flags>>

CreatedRow(r) ==
    [NoRow EXCEPT !.status = "Open", !.due = r.due, !.condition = r.condition,
                  !.links = r.links,
                  !.events = <<[type |-> "created", new |-> "Open", due |-> r.due, at |-> r.at]>>]

CommitCreate(c) ==
    /\ pending[c] # NoRequest
    /\ rows' = [rows EXCEPT ![c] = CreatedRow(pending[c])]
    /\ pending' = [pending EXCEPT ![c] = NoRequest]
    /\ UNCHANGED <<now, profile, actions, snapshots, flags>>

-----------------------------------------------------------------------------
(* Explicit User actions: the deadline rules are applied first, and their     *)
(* effect is lost with the transaction when the request is then rejected.     *)

(* Fault: the deadline rules are not applied before the request.              *)
ExplicitUnchecked(c, new, kind) ==
    /\ new \in TRANSITIONS[rows[c].status]
    /\ rows' = [rows EXCEPT ![c] = transition(rows[c], new, kind)]
    /\ refresh
    /\ UNCHANGED <<now, profile, actions, pending>>

explicit(c, new, kind) ==
    LET row == apply_deadline(rows[c])
    IN  /\ new \in TRANSITIONS[row.status]
        /\ rows' = [rows EXCEPT ![c] = transition(row, new, kind)]
        /\ refresh
        /\ UNCHANGED <<now, profile, actions, pending>>

Keep(c) == explicit(c, "Kept", "kept")

Cancel(c) == explicit(c, "Cancelled", "cancelled")

(* Fault: the ledger event is written before the new due date is assigned.    *)
DeferredRowLate(row, new_due) ==
    [transition(row, "Deferred", IF row.status = "Open" THEN "deferred" ELSE "redeferred")
        EXCEPT !.deferrals = @ + 1, !.due = new_due, !.window = NoTime]

DeferredRow(row, new_due) ==
    transition([row EXCEPT !.deferrals = @ + 1, !.due = new_due, !.window = NoTime],
               "Deferred", IF row.status = "Open" THEN "deferred" ELSE "redeferred")

Defer(c, new_due, acknowledged) ==
    LET row == apply_deadline(rows[c])
    IN  /\ validate_deferral(row, new_due, acknowledged)
        /\ rows' = [rows EXCEPT ![c] = DeferredRow(row, new_due)]
        /\ refresh
        /\ UNCHANGED <<now, profile, actions, pending>>

(* The explanation is an event and a Memory Fact; there is no refresh.        *)
ExplainedRow(row) ==
    [Event(row, "explanation_submitted", "Deferred", NoDate) EXCEPT !.facts = @ + 1]

Explain(c) ==
    LET row == apply_deadline(rows[c])
    IN  /\ validate_explanation(row)
        /\ rows' = [rows EXCEPT ![c] = ExplainedRow(row)]
        /\ UNCHANGED <<now, profile, actions, pending, snapshots, flags>>

-----------------------------------------------------------------------------
(* Automatic evaluation *)

EvaluateDeadlines ==
    /\ rows' = [c \in Commitment |-> apply_deadline(rows[c])]
    /\ rows' # rows
    /\ refresh
    /\ UNCHANGED <<now, profile, actions, pending>>

LinkedActive(A) == {c \in Commitment : rows[c].status \in ACTIVE /\ rows[c].links \cap A # {}}

RefreshIfAny(touched) ==
    IF touched = {} THEN UNCHANGED <<snapshots, flags>> ELSE refresh

(* CheckinService.transition() after its checks, and, for a completion,       *)
(* checkin_hook().                                                            *)
RecordCheckIn(a, new) ==
    LET touched == IF new = "Completed" THEN LinkedActive({a}) ELSE {}
    IN  /\ actions' = [actions EXCEPT ![a].status = new]
        /\ rows' = [c \in Commitment |->
                       IF c \in touched THEN reevaluate(rows[c], actions') ELSE rows[c]]
        /\ RefreshIfAny(touched)
        /\ UNCHANGED <<now, profile, pending>>

CheckIn(a, new) ==
    /\ actions[a].life = "active"
    /\ new \in ActionTransitions[actions[a].status]
    /\ RecordCheckIn(a, new)

(* TaskService.complete() and HabitService.record_occurrence() load the       *)
(* action before transition() locks it; the session then keeps serving the    *)
(* attributes first loaded, so the checks pass on a status and lifecycle that *)
(* a committed check-in or cancellation has since replaced.                   *)
StaleCheckIn(a, new) ==
    /\ actions[a] # [status |-> "Planned", life |-> "active"]
    /\ RecordCheckIn(a, new)

CancelActions(A) ==
    LET touched == LinkedActive(A)
    IN  /\ actions' = [a \in DailyAction |->
                          IF a \in A THEN [actions[a] EXCEPT !.life = "cancelled"] ELSE actions[a]]
        /\ rows' = [c \in Commitment |->
                       IF c \in touched
                       THEN CancelLinks(rows[c], rows[c].links \cap A, actions')
                       ELSE rows[c]]
        /\ RefreshIfAny(touched)
        /\ UNCHANGED <<now, profile, pending>>

(* RescheduleService.cancel(): one planned or started action, locked.         *)
CancelOne(a) ==
    /\ linkable(a)
    /\ CancelActions({a})

(* Archiving a goal, or pausing or archiving a habit, cancels together the    *)
(* actions it read as Planned.  The read takes no lock, and every action is   *)
(* Planned at first: by the time the update commits any of them may have been *)
(* started, completed or skipped.                                             *)
CancelFuture(A) ==
    /\ A # {}
    /\ \A a \in A : actions[a].life = "active"
    /\ CancelActions(A)

(* IntegrityService.overview(): the dashboard read that refreshes.            *)
Overview ==
    /\ UNCHANGED <<now, profile, actions, rows, pending>>
    /\ refresh

Next ==
    \/ Tick
    \/ \E p \in [tz : Offsets, threshold : Thresholds] : UpdateProfile(p)
    \/ \E c \in Commitment, links \in SUBSET DailyAction,
          requested \in Condition \cup {"none"}, due \in 0..MaxDay :
          BeginCreate(c, links, requested, due)
    \/ \E c \in Commitment : CommitCreate(c)
    \/ \E c \in Commitment : Keep(c)
    \/ \E c \in Commitment : Cancel(c)
    \/ \E c \in Commitment, new_due \in 0..MaxDay, acknowledged \in BOOLEAN :
          Defer(c, new_due, acknowledged)
    \/ \E c \in Commitment : Explain(c)
    \/ EvaluateDeadlines
    \/ \E a \in DailyAction, new \in {"Started", "Completed", "Skipped"} : CheckIn(a, new)
    \/ \E a \in DailyAction, new \in {"Completed", "Skipped"} : StaleCheckIn(a, new)
    \/ \E a \in DailyAction : CancelOne(a)
    \/ \E A \in SUBSET DailyAction : CancelFuture(A)
    \/ Overview

Spec == Init /\ [][Next]_vars

-----------------------------------------------------------------------------
(* Types *)

EventType == {"created", "kept", "broken", "cancelled", "deferred", "redeferred",
              "explanation_window_opened", "explanation_submitted",
              "link_removed", "condition_changed"}
Topic == {"status_changed", "explanation_window_opened", "condition_changed"}

EventRecord == [type : EventType, new : Status, due : Int, at : Int]
Message == [topic : Topic, status : Status, due : Int]

Row == [status : Status, due : Int, condition : Condition, links : SUBSET DailyAction,
        window : Int, deferrals : Nat, resolved : Int, facts : Nat,
        events : Seq(EventRecord), outbox : Seq(Message)]

Request == [links : SUBSET DailyAction, condition : Condition, due : Int, at : Int]

ActionRow == [status : {"Planned", "Started", "Completed", "Skipped"},
              life : {"active", "cancelled"}]

(* Every variable has its type, whatever the requests and the clock do.       *)
TypeOK ==
    /\ now \in Nat
    /\ profile \in [tz : Offsets, threshold : Thresholds]
    /\ actions \in [DailyAction -> ActionRow]
    /\ rows \in [Commitment -> Row]
    /\ pending \in [Commitment -> Request]
    /\ DOMAIN snapshots \subseteq Int
    /\ snapshots \in [DOMAIN snapshots -> [kept : Nat, broken : Nat, overdue : Nat]]
    /\ DOMAIN flags \subseteq Int
    /\ flags \in [DOMAIN flags -> {"open", "resolved"}]

-----------------------------------------------------------------------------
(* Properties *)

(* The ledger is complete (design 11.1: "every accepted transition appends a  *)
(* row"): the last event of a commitment carries its status, the last event   *)
(* with a due date carries its due date, its deferral events number its       *)
(* deferral_count, and the last status_changed message a consumer gets        *)
(* describes the stored row.                                                  *)
LedgerReplays ==
    \A c \in Commitment :
        LET row == rows[c]
            Last(seq, Want(_)) ==
                seq[CHOOSE i \in DOMAIN seq :
                      Want(seq[i]) /\ \A j \in DOMAIN seq : Want(seq[j]) => j <= i]
            Any(e) == TRUE
            Dated(e) == e.due # NoDate
            Told(msg) == msg.topic = "status_changed"
            deferrals == {i \in DOMAIN row.events :
                            row.events[i].type \in {"deferred", "redeferred"}}
        IN  row.status # "Absent" =>
              /\ Last(row.events, Any).new = row.status
              /\ Last(row.events, Dated).due = row.due
              /\ Cardinality(deferrals) = row.deferrals
              /\ IF \E i \in DOMAIN row.outbox : Told(row.outbox[i])
                 THEN /\ Last(row.outbox, Told).status = row.status
                      /\ Last(row.outbox, Told).due = row.due
                 ELSE row.status = "Open"

(* A re-deferral costs a fresh explanation (R9.10): whatever windows opened,  *)
(* expired or were cut short by a change of zone, a commitment was deferred   *)
(* at most once more than explanations were stored for it.                    *)
RedeferralsExplained ==
    \A c \in Commitment : rows[c].deferrals <= rows[c].facts + 1

(* A resolved commitment is history: no check-in, cancellation, sweep or      *)
(* request changes any part of its row, its links, events or messages.        *)
ResolvedRowsFrozen ==
    [][\A c \in Commitment :
          rows[c].status \in {"Kept", "Broken", "Cancelled"} => rows'[c] = rows[c]]_vars

(* A late completion cannot rescue a promise (design 11.2): whether through   *)
(* a check-in, the cancellation of the last unfinished action or an explicit  *)
(* request, a commitment becomes Kept while Open only if its due date has not *)
(* passed, and while Deferred only if no explanation window has run out.      *)
NoLateRescue ==
    [][\A c \in Commitment :
          rows[c].status \in ACTIVE /\ rows'[c].status = "Kept" =>
              \/ rows[c].due >= today
              \/ /\ rows[c].status = "Deferred"
                 /\ rows[c].window = NoTime \/ now < rows[c].window]_vars

(* A delayed sweep never shortens the window (design 11.3): a Deferred        *)
(* commitment becomes Broken only when the event that opened its current      *)
(* window is at least the full window old and no deferral came after it.      *)
FullExplanationWindow ==
    [][\A c \in Commitment :
          rows[c].status = "Deferred" /\ rows'[c].status = "Broken" =>
              \E i \in DOMAIN rows[c].events :
                  /\ rows[c].events[i].type = "explanation_window_opened"
                  /\ rows[c].events[i].at + Window <= now
                  /\ \A j \in DOMAIN rows[c].events :
                        rows[c].events[j].type \in {"deferred", "redeferred"} => j < i]_vars

(* A recorded commitment whose condition becomes satisfied is resolved by     *)
(* the very step that satisfies it (R9.6), whichever linked action was        *)
(* completed or cancelled last.                                               *)
SatisfactionResolves ==
    [][\A c \in Commitment :
          /\ rows[c].status \in ACTIVE
          /\ ~ condition_satisfied(rows[c], actions)
          /\ condition_satisfied(rows'[c], actions')
          => rows'[c].status \notin ACTIVE]_vars

(* One sweep settles everything that is due: right after it no commitment has *)
(* a deadline rule left to apply, so a second sweep at the same instant does  *)
(* nothing.                                                                   *)
SweepSettles ==
    [][EvaluateDeadlines => \A c \in Commitment : deadline_action(rows[c])' = "none"]_vars

(* Every linked action lost to a cancellation leaves its mark (R9.9): a       *)
(* commitment left without links is explicit, and an explicit one has no live *)
(* action that could have kept it.                                            *)
ExplicitWhenUnlinked ==
    \A c \in Commitment : rows[c].status \in ACTIVE =>
        /\ rows[c].links = {} => rows[c].condition = "explicit"
        /\ rows[c].condition = "explicit" => Backing(rows[c], actions) = {}

(* R9.6 read as a state predicate: no active commitment has its completion    *)
(* condition satisfied.                                                       *)
SatisfiedIsKept ==
    \A c \in Commitment : rows[c].status \in ACTIVE => ~ condition_satisfied(rows[c], actions)

(* Design 11.5: a score that is below the threshold has an open flag that     *)
(* makes the next session an accountability conversation.                     *)
LowScoreIsFlagged ==
    LET score == PreviousScore(snapshots, today)
    IN  score # NoScore /\ score < 10 * profile.threshold =>
            \E d \in DOMAIN flags : flags[d] = "open"
=============================================================================
