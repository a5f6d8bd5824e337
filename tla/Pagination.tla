----------------------------- MODULE Pagination -----------------------------
(* Keyset pagination (domain/pagination.py).  A row is [id, key]; a cursor is *)
(* the key and id of the last row of a page.  keyset() is the ascending case  *)
(* of keyset_sorted() with created_at for its key.                            *)
EXTENDS Integers, Sequences, FiniteSets

NoCursor == [id |-> 0, key |-> -1]

(* Fault: rows with the key of the cursor are passed over.                    *)
AfterByKey(descending, a, b) == IF descending THEN b.key < a.key ELSE b.key > a.key

(* Row b comes after a.                                                       *)
After(descending, a, b) ==
    IF descending THEN b.key < a.key \/ (b.key = a.key /\ b.id < a.id)
    ELSE b.key > a.key \/ (b.key = a.key /\ b.id > a.id)

Precedes(descending, a, b) ==
    IF descending THEN a.key > b.key \/ (a.key = b.key /\ a.id > b.id)
    ELSE a.key < b.key \/ (a.key = b.key /\ a.id < b.id)

(* At most limit + 1 rows after the cursor, in order: a row has as many rows  *)
(* before it as its place says.                                               *)
keyset_sorted(rows, cursor, limit, descending) ==
    LET rest == {r \in rows : cursor = NoCursor \/ After(descending, cursor, r)}
        n == Cardinality(rest)
    IN  [k \in 1..(IF n <= limit THEN n ELSE limit + 1) |->
            CHOOSE r \in rest : Cardinality({q \in rest : Precedes(descending, q, r)}) = k - 1]

to_sorted_page(rows, limit) ==
    IF Len(rows) <= limit THEN [items |-> rows, next |-> NoCursor]
    ELSE [items |-> SubSeq(rows, 1, limit), next |-> rows[limit]]
=============================================================================
