----------------------------- MODULE MemoryStore -----------------------------
(* The Memory Store: domain/memory/service.py writes the entries of a User,   *)
(* EmbeddingBackfill of domain/memory/embeddings.py computes their vectors    *)
(* and domain/memory/search.py searches those that are ready.  A vector is    *)
(* represented by the text it was computed from.  A backfill pass is one long *)
(* transaction that keeps its rows locked while the provider is called; an    *)
(* edit loads the entry with a plain read and writes it in a later statement, *)
(* which waits for such a lock and sets only the columns whose value differs  *)
(* from the loaded one.                                                       *)
EXTENDS Integers, FiniteSets

CONSTANTS
    Text,        \* contents
    Editor,      \* requests that edit entries
    Worker,      \* workers that run the backfill
    BatchLimit,  \* most entries one pass takes
    MaxEntries   \* bound: entries ever created, with ids in creation order

ASSUME LimitAssumption == BatchLimit \in Nat \ {0} /\ MaxEntries \in Nat

EntryId == 1..MaxEntries
NoId == 0
NoText == "no text"

ASSUME TextAssumption == NoText \notin Text

VARIABLES
    created,  \* entries 1..created have been inserted
    entry,    \* memory_store_entries rows
    edit,     \* for each editor, the entry it edits and the columns it loaded
    batch     \* for each worker, the locked entries and the contents it loaded

storeVars == <<created, entry, edit, batch>>

NoEntry == [live |-> FALSE, own |-> FALSE, content |-> NoText, status |-> "pending",
            vector |-> NoText, superseded |-> NoId]
NoEdit == [target |-> NoId, new |-> NoText, content |-> NoText, status |-> "pending"]
NoBatch == [e \in {} |-> NoText]

InitStore ==
    /\ created = 0
    /\ entry = [e \in EntryId |-> NoEntry]
    /\ edit = [u \in Editor |-> NoEdit]
    /\ batch = [w \in Worker |-> NoBatch]

-----------------------------------------------------------------------------
(* MemoryService *)

NewEntry(text, own) == [NoEntry EXCEPT !.live = TRUE, !.own = own, !.content = text]

(* create(), and create_once() when its source record has no entry yet.       *)
create(text, own) ==
    /\ created < MaxEntries
    /\ created' = created + 1
    /\ entry' = [entry EXCEPT ![created + 1] = NewEntry(text, own)]
    /\ UNCHANGED <<edit, batch>>

(* Fault: the backfill reads its rows without locking them.                   *)
NeverLocked(e) == FALSE

RowLocked(e) == \E w \in Worker : e \in DOMAIN batch[w]

(* update(), first part: get() loads the row.                                 *)
BeginUpdate(u, e, text) ==
    /\ edit[u] = NoEdit
    /\ entry[e].live /\ entry[e].own
    /\ edit' = [edit EXCEPT ![u] = [target |-> e, new |-> text, content |-> entry[e].content,
                                    status |-> entry[e].status]]
    /\ UNCHANGED <<created, entry, batch>>

(* The row after the flush: a column assigned the value it was loaded with is *)
(* not written.                                                               *)
Flushed(row, change) ==
    [row EXCEPT !.content = IF change.new = change.content THEN @ ELSE change.new,
                !.status = IF change.status = "pending" THEN @ ELSE "pending"]

(* update(), second part.  The flush of a row that was deleted meanwhile      *)
(* fails and the request is rolled back.                                      *)
FlushUpdate(u) ==
    LET e == edit[u].target
    IN  /\ edit[u] # NoEdit
        /\ ~ RowLocked(e)
        /\ entry' = IF entry[e].live
                    THEN [entry EXCEPT ![e] = Flushed(entry[e], edit[u])]
                    ELSE entry
        /\ edit' = [edit EXCEPT ![u] = NoEdit]
        /\ UNCHANGED <<created, batch>>

(* A new entry replaces an old one, which stays and points at it.             *)
supersede(e, text, own) ==
    /\ created < MaxEntries
    /\ entry[e].live /\ ~ RowLocked(e)
    /\ created' = created + 1
    /\ entry' = [entry EXCEPT ![created + 1] = NewEntry(text, own),
                              ![e].superseded = created + 1]
    /\ UNCHANGED <<edit, batch>>

(* Fault: the entries it replaced keep pointing at the deleted one.           *)
DeleteRowOnly(e) ==
    /\ entry[e].live /\ ~ RowLocked(e)
    /\ entry' = [entry EXCEPT ![e] = NoEntry]
    /\ UNCHANGED <<created, edit, batch>>

(* A hard delete; the foreign key of the entries it replaced is set to null.  *)
delete(e) ==
    LET replaced == {f \in EntryId : entry[f].superseded = e}
    IN  /\ entry[e].live
        /\ \A f \in replaced \cup {e} : ~ RowLocked(f)
        /\ entry' = [f \in EntryId |->
                        IF f = e THEN NoEntry
                        ELSE IF f \in replaced THEN [entry[f] EXCEPT !.superseded = NoId]
                        ELSE entry[f]]
        /\ UNCHANGED <<created, edit, batch>>

-----------------------------------------------------------------------------
(* EmbeddingBackfill.embed_pending() *)

Retryable(e) == entry[e].live /\ entry[e].status \in {"pending", "failed"} /\ ~ RowLocked(e)

(* The oldest entries first, up to the limit, skipping locked rows.           *)
LockBatch(w) ==
    LET queue == {e \in EntryId : Retryable(e)}
        taken == {e \in queue : Cardinality({f \in queue : f < e}) < BatchLimit}
    IN  /\ batch[w] = NoBatch
        /\ taken # {}
        /\ batch' = [batch EXCEPT ![w] = [e \in taken |-> entry[e].content]]
        /\ UNCHANGED <<created, entry, edit>>

(* The provider answers.                                                      *)
Embed(w) ==
    /\ batch[w] # NoBatch
    /\ entry' = [e \in EntryId |->
                    IF e \in DOMAIN batch[w]
                    THEN [entry[e] EXCEPT !.vector = batch[w][e], !.status = "ready"]
                    ELSE entry[e]]
    /\ batch' = [batch EXCEPT ![w] = NoBatch]
    /\ UNCHANGED <<created, edit>>

(* The provider fails: the whole batch is marked, to be retried.              *)
EmbedFails(w) ==
    /\ batch[w] # NoBatch
    /\ entry' = [e \in EntryId |->
                    IF e \in DOMAIN batch[w] THEN [entry[e] EXCEPT !.status = "failed"] ELSE entry[e]]
    /\ batch' = [batch EXCEPT ![w] = NoBatch]
    /\ UNCHANGED <<created, edit>>

(* The worker dies in the pass and its transaction is rolled back.            *)
CrashBackfill(w) ==
    /\ batch[w] # NoBatch
    /\ batch' = [batch EXCEPT ![w] = NoBatch]
    /\ UNCHANGED <<created, entry, edit>>

NextStore ==
    \/ \E text \in Text, own \in BOOLEAN : create(text, own)
    \/ \E u \in Editor, e \in EntryId, text \in Text : BeginUpdate(u, e, text)
    \/ \E u \in Editor : FlushUpdate(u)
    \/ \E e \in EntryId, text \in Text, own \in BOOLEAN : supersede(e, text, own)
    \/ \E e \in EntryId : delete(e)
    \/ \E w \in Worker : LockBatch(w)
    \/ \E w \in Worker : Embed(w)
    \/ \E w \in Worker : EmbedFails(w)
    \/ \E w \in Worker : CrashBackfill(w)

StoreSpec == InitStore /\ [][NextStore]_storeVars

-----------------------------------------------------------------------------
(* Properties *)

(* What search() may return: a match on the vector.                           *)
Searchable(e) == entry[e].live /\ entry[e].status = "ready" /\ entry[e].superseded = NoId

(* Every variable has its type; a ready entry has a vector (the CHECK of the  *)
(* schema), whatever edits and failed passes came before.                     *)
StoreTypeOK ==
    /\ created \in 0..MaxEntries
    /\ entry \in [EntryId -> [live : BOOLEAN, own : BOOLEAN, content : Text \cup {NoText},
                              status : {"pending", "ready", "failed"},
                              vector : Text \cup {NoText}, superseded : EntryId \cup {NoId}]]
    /\ \A e \in EntryId : entry[e].status = "ready" => entry[e].vector # NoText
    /\ edit \in [Editor -> [target : EntryId \cup {NoId}, new : Text \cup {NoText},
                            content : Text \cup {NoText}, status : {"pending", "ready", "failed"}]]
    /\ \A w \in Worker : batch[w] \in [DOMAIN batch[w] -> Text]

(* However slow the provider is and whatever is edited, deleted or superseded *)
(* meanwhile, a pass stores only vectors of the text the entry has when the   *)
(* pass commits, and brings no deleted entry back.                            *)
FreshVectors ==
    [][\A e \in EntryId :
          entry'[e].status = "ready" /\ entry[e].status # "ready" =>
              entry'[e].live /\ entry'[e].vector = entry'[e].content]_storeVars

(* A replaced entry stays hidden while its replacement exists: superseding,   *)
(* deleting and editing in any order leave no entry that points at a deleted  *)
(* one, and no cycle that would hide every version.                           *)
ReplacementLives ==
    \A e \in EntryId : entry[e].superseded # NoId =>
        entry[e].superseded > e /\ entry[entry[e].superseded].live

(* "a stale vector is never searchable" (design 23.3).                        *)
NoStaleVector ==
    \A e \in EntryId : Searchable(e) => entry[e].vector = entry[e].content
=============================================================================
