-------------------------- MODULE ScheduleAnalysis --------------------------
(* Conflicts and overload of a local day (domain/schedule/analysis.py).       *)
(* A block is [id, start, end]; its minutes are those of [start, end).        *)
EXTENDS Integers, Sequences, FiniteSets

CONSTANTS
    WINDOW,   \* minutes of the rolling window
    MIN_GAP   \* a shorter gap is no break

ASSUME WindowAssumption == {WINDOW, MIN_GAP} \subseteq Nat \ {0} /\ MIN_GAP <= WINDOW

Lower(x, y) == IF x <= y THEN x ELSE y
Higher(x, y) == IF x <= y THEN y ELSE x

(* By start, then end, then id: a block has as many before it as its place    *)
(* says.                                                                      *)
Before(a, b) ==
    \/ a.start < b.start
    \/ a.start = b.start /\ (a.end < b.end \/ (a.end = b.end /\ a.id < b.id))
Ordered(blocks) ==
    [k \in 1..Cardinality(blocks) |->
        CHOOSE b \in blocks : Cardinality({a \in blocks : Before(a, b)}) = k - 1]

(* Fault: a block that starts when another ends overlaps it.                  *)
CutAfterEnd(block, other) == other.start > block.end

(* The inner loop breaks: later blocks start even later.                      *)
Cut(block, other) == other.start >= block.end

conflicts(blocks) ==
    LET o == Ordered(blocks)
    IN  {x \in (1..Len(o)) \X (1..Len(o)) :
            x[1] < x[2] /\ \A k \in (x[1] + 1)..x[2] : ~ Cut(o[x[1]], o[k])}

(* Busy intervals, overlapping and touching ones merged.                      *)
merge(blocks) ==
    LET o == Ordered(blocks)
        merged[i \in 0..Len(o)] ==
          IF i = 0 THEN <<>>
          ELSE LET m == merged[i - 1]
                   last == Len(m)
               IN  IF last > 0 /\ o[i].start <= m[last][2]
                   THEN [m EXCEPT ![last] = <<m[last][1], Higher(m[last][2], o[i].end)>>]
                   ELSE Append(m, <<o[i].start, o[i].end>>)
    IN  merged[Len(o)]

booked_minutes(blocks) ==
    LET busy == merge(blocks)
        sum[i \in 0..Len(busy)] == IF i = 0 THEN 0 ELSE sum[i - 1] + busy[i][2] - busy[i][1]
    IN  sum[Len(busy)]

(* The longest free stretch inside [start, end).                              *)
largest_gap(busy, start, end) ==
    LET seen[i \in 0..Len(busy)] ==
          IF i = 0 THEN [gap |-> 0, cursor |-> start]
          ELSE LET acc == seen[i - 1]
               IN  IF busy[i][2] <= start \/ busy[i][1] >= end THEN acc
                   ELSE [gap |-> Higher(acc.gap, Lower(busy[i][1], end) - acc.cursor),
                         cursor |-> Higher(acc.cursor, Lower(busy[i][2], end))]
        last == seen[Len(busy)]
    IN  Higher(last.gap, end - last.cursor)

(* The starts of overloaded windows, looked for at the blocks' starts.        *)
overloaded_windows(blocks) ==
    {b.start : b \in {b \in blocks : largest_gap(merge(blocks), b.start, b.start + WINDOW) < MIN_GAP}}
=============================================================================
