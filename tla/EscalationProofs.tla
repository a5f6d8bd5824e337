-------------------------- MODULE EscalationProofs --------------------------
(* Machine-checked theorems about the specification of module Escalation, for *)
(* any occurrences, any number of processes and any thresholds.               *)
EXTENDS Escalation, FiniteSetTheorems, TLAPS

State == [level : Level, required : BOOLEAN, done : BOOLEAN,
          anchor : Day \cup {NoDay}, episode : Nat]
Outcomes == UNION {[S -> {"Completed", "Skipped", "Open"}] : S \in SUBSET Day}
Txn == [kind : {"checkin", "sweep"}, occurrence : Occurrence,
        wrote : {"Open", "Completed", "Skipped"}, now : Day,
        outcomes : Outcomes, found : {"unread", "none"}]

DoneDays(st) == {DayOf[o] : o \in {q \in Occurrence : st[q] = "Completed"}}
PaidDays(st, anchor) == {d \in DoneDays(st) : d <= anchor}

(* What TypeOK leaves open: the shape of the transactions in flight.          *)
Transactions == txn \in [Process -> {NoTxn} \cup Txn]

(* The row locks of the check-ins: each one holds an occurrence of its own,   *)
(* which stays open until it commits.                                         *)
CheckinsAlone ==
    \A p \in Process : txn[p].kind = "checkin" =>
        /\ status[txn[p].occurrence] = "Open" /\ txn[p].wrote # "Open"
        /\ \A q \in Process \ {p} :
             txn[q].kind = "checkin" => txn[q].occurrence # txn[p].occurrence

(* The completed days a transaction has read are still completed when it      *)
(* evaluates them, or are its own.                                            *)
Own(t) == IF t.kind = "checkin" /\ t.wrote = "Completed" THEN {DayOf[t.occurrence]} ELSE {}
ReadsLast ==
    \A p \in Process : txn[p] # NoTxn =>
        Days(txn[p].outcomes, "Completed") \subseteq DoneDays(status) \cup Own(txn[p])

(* A row and its reflections: a source without a row is at the baseline, the  *)
(* gate is closed from level 4 on until the reflection of the episode is      *)
(* written, and later episodes have none.                                     *)
Gated(r) ==
    /\ r.episode = 0 => r = BASELINE
    /\ r.required => r.level >= 4 /\ ~ r.done
    /\ r.level >= 4 => r.required \/ r.done
Reflected(r, refl) ==
    \A e \in Episode :
        /\ refl[e] <= 1
        /\ e > r.episode => refl[e] = 0
        /\ e = r.episode => refl[e] = IF r.done THEN 1 ELSE 0

(* Flags belong to the current or an earlier episode.                         *)
Past(r, flags) == \A f \in flags : f[1] <= r.episode
Current(r, flags) == \A f \in flags : f[1] = r.episode /\ r.level >= 3
Gate(r, flags, refl) ==
    \A f \in flags :
        f[1] = r.episode /\ f[2] >= 4 /\ refl[f[1]] = 0 => r.required /\ r.level >= f[2]

(* An episode ends with a recovery, and a recovery is paid for with completed *)
(* days up to the anchor it leaves.                                           *)
Counted(r, n) == r.episode <= n + (IF r.level = 1 THEN 0 ELSE 1)
Paid(st, r, n) == n * RECOVERY_DAYS <= Cardinality(PaidDays(st, r.anchor))

RowSound ==
    /\ Gated(row) /\ Reflected(row, reflections)
    /\ Past(row, openFlags \cup oldFlags) /\ Current(row, openFlags)
    /\ Gate(row, openFlags \cup oldFlags, reflections)
    /\ Counted(row, reductions)
RecoverySound == Paid(status, row, reductions)

(* The inductive invariant.                                                   *)
IInv ==
    /\ TypeOK /\ Transactions /\ CheckinsAlone /\ ReadsLast /\ RowSound /\ RecoverySound

-----------------------------------------------------------------------------
(* Lemmas on numbers and finite sets *)

(* A set of naturals that is not empty has a least element.                   *)
LEMMA LeastOf ==
  ASSUME NEW T, T \subseteq Nat, T # {}
  PROVE  \E x \in T : \A y \in T : x <= y
  <1> DEFINE R == OpToRel(<, Nat)
  <1>1. \A a, b \in Nat : <<a, b>> \in R <=> a < b
    BY DEF OpToRel
  <1>2. IsWellFoundedOn(R, Nat)
    BY NatLessThanWellFounded
  <1> HIDE DEF R
  <1>3. PICK x \in T : \A y \in T : ~ (<<y, x>> \in R)
    BY <1>2, WFMin
  <1>4. \A y \in T : ~ (y < x) /\ y \in Nat /\ x \in Nat
    BY <1>1, <1>3
  <1>5. QED
    BY <1>4

(* A set of local dates that is not empty has a last one.                     *)
LEMMA LastOf ==
  ASSUME NEW T, T \subseteq Day, T # {}
  PROVE  \E x \in T : \A y \in T : y <= x
  <1> DEFINE C == {MaxDay - d : d \in T}
  <1>1. \A d \in T : d \in Int /\ MaxDay - d \in Nat
    BY DayAssumption DEF Day
  <1>2. C \subseteq Nat /\ C # {}
    BY <1>1
  <1> HIDE DEF C
  <1>3. PICK c \in C : \A d \in C : c <= d
    BY <1>2, LeastOf
  <1>4. PICK x \in T : c = MaxDay - x
    BY DEF C
  <1>5. ASSUME NEW y \in T PROVE y <= x
    <2>1. c <= MaxDay - y
      BY <1>3 DEF C
    <2>2. QED
      BY <2>1, <1>1, <1>4, DayAssumption
  <1>6. QED
    BY <1>5

(* The local dates are finitely many.                                         *)
LEMMA DaysFinite ==
  ASSUME NEW S \in SUBSET Day
  PROVE  IsFiniteSet(S) /\ Cardinality(S) \in Nat
  <1>1. IsFiniteSet(Day)
    BY FS_Interval, DayAssumption DEF Day
  <1>2. IsFiniteSet(S)
    BY <1>1, FS_Subset
  <1>3. QED
    BY <1>2, FS_CardinalityType

(* Completed days are local dates.                                            *)
LEMMA DoneAreDays ==
  ASSUME NEW st PROVE DoneDays(st) \subseteq Day
  BY DayAssumption DEF DoneDays, Day

(* There are no more completed days than occurrences.                         *)
LEMMA DoneBound ==
  ASSUME NEW st
  PROVE  /\ Cardinality(Occurrence) \in Nat
         /\ Cardinality(DoneDays(st)) <= Cardinality(Occurrence)
  <1> DEFINE Q == {q \in Occurrence : st[q] = "Completed"}
             f == [o \in Q |-> DayOf[o]]
  <1>1. IsFiniteSet(Q) /\ Cardinality(Q) <= Cardinality(Occurrence)
    BY FS_Subset, OccurrenceAssumption
  <1>2. f \in Surjection(Q, DoneDays(st))
    BY DEF Surjection, DoneDays
  <1> HIDE DEF Q, f
  <1>3. Cardinality(DoneDays(st)) <= Cardinality(Q)
    BY <1>1, <1>2, FS_Surjection
  <1>4. Cardinality(Q) \in Nat /\ Cardinality(Occurrence) \in Nat
    BY <1>1, FS_CardinalityType, OccurrenceAssumption
  <1>5. Cardinality(DoneDays(st)) \in Nat
    BY DaysFinite, DoneAreDays
  <1>6. QED
    BY <1>1, <1>3, <1>4, <1>5

(* Completions after the anchor add to those that earlier recoveries used.    *)
LEMMA MorePaid ==
  ASSUME NEW st, NEW new, DoneDays(st) \subseteq DoneDays(new),
         NEW a \in Day \cup {NoDay}, NEW b \in Day, a < b,
         NEW D, D \subseteq DoneDays(new), \A d \in D : a < d /\ d <= b
  PROVE  /\ Cardinality(PaidDays(st, a)) \in Nat /\ Cardinality(D) \in Nat
         /\ Cardinality(PaidDays(new, b)) \in Nat
         /\ Cardinality(PaidDays(st, a)) + Cardinality(D) <= Cardinality(PaidDays(new, b))
  <1> DEFINE A == PaidDays(st, a)
             B == PaidDays(new, b)
  <1>1. a \in Int /\ b \in Int /\ Day \subseteq Int
    BY DayAssumption DEF Day, NoDay
  <1>2. A \subseteq Day /\ B \subseteq Day /\ D \subseteq Day /\ A \cup D \subseteq Day
    BY DoneAreDays DEF PaidDays
  <1>a. \A d : d \in A <=> d \in DoneDays(st) /\ d <= a
    BY DEF PaidDays
  <1>b. \A d : d \in B <=> d \in DoneDays(new) /\ d <= b
    BY DEF PaidDays
  <1> HIDE DEF A, B
  <1>3. A \cup D \subseteq B
    <2>1. \A d \in A : d \in Int /\ d <= a
      BY <1>1, <1>2, <1>a
    <2>2. \A d \in A : d <= b
      BY <2>1, <1>1
    <2>3. QED
      BY <2>2, <1>a, <1>b
  <1>4. A \cap D = {}
    <2>1. \A d \in A \cap D : d \in Int /\ d <= a /\ a < d
      BY <1>1, <1>2, <1>a
    <2>2. QED
      BY <2>1, <1>1
  <1>5. /\ IsFiniteSet(A) /\ IsFiniteSet(B) /\ IsFiniteSet(D)
        /\ Cardinality(A) \in Nat /\ Cardinality(B) \in Nat /\ Cardinality(D) \in Nat
    BY <1>2, DaysFinite
  <1>6. Cardinality(A \cup D) = Cardinality(A) + Cardinality(D)
    <2>1. Cardinality(A \cup D) = Cardinality(A) + Cardinality(D) - Cardinality(A \cap D)
      BY <1>5, FS_Union
    <2>2. Cardinality(A \cap D) = 0
      BY <1>4, FS_EmptySet
    <2>3. QED
      BY <2>1, <2>2, <1>5
  <1>7. Cardinality(A \cup D) <= Cardinality(B)
    BY <1>3, <1>5, FS_Subset
  <1>8. QED
    BY <1>5, <1>6, <1>7 DEF A, B

(* A check-in can only add completed days, up to any anchor.                  *)
LEMMA StillPaid ==
  ASSUME NEW st, NEW new, DoneDays(st) \subseteq DoneDays(new), NEW a
  PROVE  /\ Cardinality(PaidDays(st, a)) \in Nat /\ Cardinality(PaidDays(new, a)) \in Nat
         /\ Cardinality(PaidDays(st, a)) <= Cardinality(PaidDays(new, a))
  <1>1. PaidDays(st, a) \subseteq PaidDays(new, a) /\ PaidDays(new, a) \subseteq Day
    BY DoneAreDays DEF PaidDays
  <1>2. QED
    BY <1>1, DaysFinite, FS_Subset

-----------------------------------------------------------------------------
(* Lemmas on the rules *)

(* The pattern of skips implies level 1, 3, 4 or 5.                           *)
LEMMA PatternLevels ==
  ASSUME NEW oc, NEW now, NEW since
  PROVE  pattern_level(oc, now, since) \in {1, 3, 4, 5}
  BY DEF pattern_level

(* What evaluate() may do to a state: nothing, escalate, or recover.          *)
Raised(s, n) ==
    /\ n.level \in 3..5 /\ n.level > s.level /\ n.anchor = s.anchor
    /\ n.required = (s.required \/ (n.level >= 4 /\ (s.level = 1 \/ ~ s.done)))
    /\ n.done = (s.done /\ s.level # 1)
    /\ n.episode = IF s.level = 1 THEN s.episode + 1 ELSE s.episode
Lowered(s, n) ==
    /\ s.level > 1 /\ n.level = s.level - 1 /\ ~ s.required /\ ~ n.required
    /\ n.done = s.done /\ n.episode = s.episode

LEMMA EvaluateCases ==
  ASSUME NEW s \in State, NEW oc, NEW now, Days(oc, "Completed") \subseteq Day
  PROVE  LET n == evaluate(s, oc, now)
         IN  /\ n \in State
             /\ n = s \/ Raised(s, n) \/ Lowered(s, n)
             /\ Lowered(s, n) =>
                  \E D \in SUBSET Days(oc, "Completed") :
                     /\ Cardinality(D) >= RECOVERY_DAYS /\ n.anchor \in Day
                     /\ \A d \in D : s.anchor < d /\ d <= n.anchor
                     /\ s.anchor < n.anchor
  <1> DEFINE pattern == pattern_level(oc, now, s.anchor)
             dates == recovery_dates(oc, now, s.anchor)
             n == evaluate(s, oc, now)
  <1>0. /\ s.level \in Level /\ s.level \in Int /\ s.required \in BOOLEAN
        /\ s.done \in BOOLEAN /\ s.anchor \in Day \cup {NoDay} /\ s.episode \in Nat
    BY DEF State, Level
  <1>1. pattern \in {1, 3, 4, 5}
    BY PatternLevels
  <1>2. dates \subseteq Days(oc, "Completed") /\ \A d \in dates : s.anchor < d
    <2>1. \A d \in dates : d \in Day /\ d > s.anchor
      BY DEF recovery_dates
    <2>2. \A d \in Day : d \in Int
      BY DayAssumption DEF Day
    <2>3. s.anchor \in Int
      BY <1>0, DayAssumption DEF Day, NoDay
    <2>4. QED
      BY <2>1, <2>2, <2>3 DEF recovery_dates
  <1>3. n = IF pattern > s.level THEN Escalated(s, pattern)
            ELSE IF s.level = 1 \/ s.required \/ Cardinality(dates) < RECOVERY_DAYS
            THEN s ELSE Reduced(s, dates)
    BY DEF evaluate
  <1>4. dates \subseteq Day
    BY <1>2
  <1> HIDE DEF pattern, dates, n
  <1>5. CASE pattern > s.level
    <2>1. n = Escalated(s, pattern)
      BY <1>3, <1>5
    <2>2. pattern \in {3, 4, 5}
      BY <1>0, <1>1, <1>5 DEF Level
    <2>3. n \in State
      BY <1>0, <2>1, <2>2 DEF Escalated, State, Level
    <2>4. Raised(s, n)
      BY <1>0, <2>1, <2>2, <1>5 DEF Escalated, Raised
    <2>5. ~ Lowered(s, n)
      BY <2>4, <1>0 DEF Raised, Lowered
    <2>6. QED
      BY <2>3, <2>4, <2>5 DEF n
  <1>6. CASE ~ (pattern > s.level) /\ (s.level = 1 \/ s.required \/ Cardinality(dates) < RECOVERY_DAYS)
    <2>1. n = s
      BY <1>3, <1>6
    <2>2. ~ Lowered(s, n)
      BY <2>1, <1>0 DEF Lowered
    <2>3. QED
      BY <2>1, <2>2 DEF n
  <1>7. CASE ~ (pattern > s.level) /\ ~ (s.level = 1 \/ s.required \/ Cardinality(dates) < RECOVERY_DAYS)
    <2> DEFINE last == CHOOSE d \in dates : \A e \in dates : e <= d
    <2>1. n = Reduced(s, dates)
      BY <1>3, <1>7
    <2>2. RECOVERY_DAYS \in Nat /\ RECOVERY_DAYS > 0 /\ Cardinality(dates) \in Nat
      BY ThresholdAssumption, <1>4, DaysFinite
    <2>3. Cardinality(dates) >= RECOVERY_DAYS
      BY <1>7, <2>2
    <2>4. dates # {}
      BY <2>2, <2>3, FS_EmptySet
    <2>5. last \in dates /\ \A e \in dates : e <= last
      BY <1>4, <2>4, LastOf
    <2>6. n = [s EXCEPT !.level = @ - 1, !.required = FALSE, !.anchor = last]
      BY <2>1 DEF Reduced
    <2> HIDE DEF last
    <2>7. s.level - 1 \in Level /\ s.level > 1
      BY <1>0, <1>7 DEF Level
    <2>8. /\ n.level = s.level - 1 /\ n.required = FALSE /\ n.anchor = last
          /\ n.done = s.done /\ n.episode = s.episode /\ n \in State
      BY <2>6, <2>7, <2>5, <1>0, <1>4 DEF State
    <2>9. Lowered(s, n)
      BY <2>8, <2>7, <1>0, <1>7 DEF Lowered
    <2>10. QED
      BY <2>3, <2>5, <2>8, <2>9, <1>2, <1>4 DEF n
  <1>8. QED
    BY <1>5, <1>6, <1>7

(* The completed days an evaluation reads are completed.                      *)
LEMMA OutcomesRead ==
  ASSUME NEW st, NEW now
  PROVE  /\ day_outcomes(st, now) \in Outcomes
         /\ Days(day_outcomes(st, now), "Completed") \subseteq DoneDays(st)
  <1> DEFINE D == {e \in Day : now - LOOKBACK_DAYS <= e /\ e <= now /\ ~ in_pause(e)}
             Has(d, v) == \E o \in Occurrence : DayOf[o] = d /\ st[o] = v
             oc == day_outcomes(st, now)
  <1>1. oc = [d \in D |-> IF Has(d, "Completed") THEN "Completed"
                          ELSE IF Has(d, "Skipped") THEN "Skipped" ELSE "Open"]
    BY DEF day_outcomes
  <1>2. D \in SUBSET Day
    OBVIOUS
  <1> HIDE DEF D
  <1>3. oc \in [D -> {"Completed", "Skipped", "Open"}]
    <2> HIDE DEF Has
    <2> QED BY <1>1
  <1>4. \A d \in D : oc[d] = "Completed" => Has(d, "Completed")
    <2> HIDE DEF Has
    <2> QED BY <1>1
  <1>5. DOMAIN oc = D
    BY <1>3
  <1>6. QED
    <2> HIDE DEF oc
    <2>1. oc \in Outcomes
      BY <1>2, <1>3 DEF Outcomes
    <2>2. Days(oc, "Completed") \subseteq DoneDays(st)
      BY <1>4, <1>5 DEF Days, DoneDays
    <2>3. QED
      BY <2>1, <2>2 DEF oc

(* An evaluation of a sound state leaves a sound row.                         *)
LEMMA GatedNext ==
  ASSUME NEW s \in State, NEW n \in State, Gated(s), s.level >= 4 \/ ~ s.required,
         n = s \/ Raised(s, n) \/ Lowered(s, n)
  PROVE  Gated(n)
  <1>0. /\ s.level \in 1..5 /\ s.required \in BOOLEAN /\ s.done \in BOOLEAN /\ s.episode \in Nat
        /\ n.level \in 1..5 /\ n.required \in BOOLEAN /\ n.done \in BOOLEAN /\ n.episode \in Nat
    BY DEF State, Level
  <1>1. CASE n = s
    BY <1>1
  <1>2. CASE Raised(s, n)
    <2>1. n.episode # 0
      <3>1. s.episode = 0 => s.level = 1
        BY DEF Gated, BASELINE
      <3>2. QED
        BY <1>0, <1>2, <3>1 DEF Raised
    <2>2. n.required => n.level >= 4 /\ ~ n.done
      BY <1>0, <1>2 DEF Raised, Gated
    <2>3. n.level >= 4 => n.required \/ n.done
      BY <1>0, <1>2 DEF Raised, Gated
    <2>4. QED
      BY <2>1, <2>2, <2>3 DEF Gated
  <1>3. CASE Lowered(s, n)
    <2>1. n.episode # 0
      BY <1>0, <1>3 DEF Lowered, Gated, BASELINE
    <2>2. n.level >= 4 => n.required \/ n.done
      BY <1>0, <1>3 DEF Lowered, Gated
    <2>3. QED
      BY <1>3, <2>1, <2>2 DEF Lowered, Gated
  <1>4. QED
    BY <1>1, <1>2, <1>3

(* Reflections stay counted: only a new episode starts without one.           *)
LEMMA ReflectedNext ==
  ASSUME NEW s \in State, NEW n \in State, NEW refl, Reflected(s, refl),
         n = s \/ Raised(s, n) \/ Lowered(s, n)
  PROVE  Reflected(n, refl)
  <1>0. /\ s.level \in 1..5 /\ s.done \in BOOLEAN /\ s.episode \in Nat
        /\ n.done \in BOOLEAN /\ n.episode \in Nat
    BY DEF State, Level
  <1>1. Episode \subseteq Int
    BY DEF Episode
  <1>2. CASE n.episode = s.episode /\ n.done = s.done
    BY <1>2 DEF Reflected
  <1>3. CASE Raised(s, n) /\ s.level = 1
    <2>1. n.episode = s.episode + 1 /\ n.done = FALSE
      BY <1>0, <1>3 DEF Raised
    <2>2. ASSUME NEW e \in Episode
          PROVE  /\ refl[e] <= 1 /\ (e > n.episode => refl[e] = 0)
                 /\ (e = n.episode => refl[e] = 0)
      BY <1>0, <1>1, <2>1, <2>2 DEF Reflected
    <2>3. QED
      BY <2>1, <2>2 DEF Reflected
  <1>4. Raised(s, n) /\ s.level # 1 => n.episode = s.episode /\ n.done = s.done
    BY <1>0 DEF Raised
  <1>5. QED
    BY <1>2, <1>3, <1>4 DEF Lowered

(* An episode more needs a recovery more.                                     *)
LEMMA CountedNext ==
  ASSUME NEW s \in State, NEW n \in State, NEW k \in Nat, Counted(s, k),
         n = s \/ Raised(s, n) \/ Lowered(s, n)
  PROVE  Counted(n, k + (IF n.level < s.level THEN 1 ELSE 0))
  <1>0. s.level \in 1..5 /\ s.episode \in Nat /\ n.level \in 1..5 /\ n.episode \in Nat
    BY DEF State, Level
  <1>1. CASE n = s
    BY <1>0, <1>1 DEF Counted
  <1>2. CASE Raised(s, n)
    BY <1>0, <1>2 DEF Counted, Raised
  <1>3. CASE Lowered(s, n)
    BY <1>0, <1>3 DEF Counted, Lowered
  <1>4. QED
    BY <1>1, <1>2, <1>3

(* A recovery is paid for with the completions after the last anchor.         *)
LEMMA PaidNext ==
  ASSUME NEW s \in State, NEW oc, NEW now, NEW k \in Nat, NEW st, NEW new,
         DoneDays(st) \subseteq DoneDays(new),
         Days(oc, "Completed") \subseteq DoneDays(new), Paid(st, s, k)
  PROVE  LET n == evaluate(s, oc, now)
         IN  Paid(new, n, k + (IF n.level < s.level THEN 1 ELSE 0))
  <1> DEFINE n == evaluate(s, oc, now)
  <1>0. Days(oc, "Completed") \subseteq Day
    BY DoneAreDays
  <1>1. /\ n \in State
        /\ n = s \/ Raised(s, n) \/ Lowered(s, n)
        /\ Lowered(s, n) =>
             \E D \in SUBSET Days(oc, "Completed") :
                /\ Cardinality(D) >= RECOVERY_DAYS /\ n.anchor \in Day
                /\ \A d \in D : s.anchor < d /\ d <= n.anchor
                /\ s.anchor < n.anchor
    BY <1>0, EvaluateCases
  <1> HIDE DEF n
  <1>2. s.level \in Int /\ n.level \in Int /\ s.anchor \in Day \cup {NoDay}
    BY <1>1 DEF State, Level
  <1>3. RECOVERY_DAYS \in Nat
    BY ThresholdAssumption
  <1>4. CASE n.anchor = s.anchor /\ ~ (n.level < s.level)
    <2>1. Cardinality(PaidDays(st, s.anchor)) <= Cardinality(PaidDays(new, s.anchor))
          /\ Cardinality(PaidDays(st, s.anchor)) \in Nat
          /\ Cardinality(PaidDays(new, s.anchor)) \in Nat
      BY StillPaid
    <2> DEFINE c == Cardinality(PaidDays(st, s.anchor))
               m == Cardinality(PaidDays(new, s.anchor))
               x == k * RECOVERY_DAYS
    <2>2. x <= c /\ x \in Int
      BY <1>3 DEF Paid
    <2>3. x <= m
      <3> HIDE DEF c, m, x
      <3> QED BY <2>1, <2>2 DEF c, m
    <2>4. k + (IF n.level < s.level THEN 1 ELSE 0) = k
      BY <1>4
    <2>5. QED
      BY <1>4, <2>3, <2>4 DEF Paid, n
  <1>5. CASE Lowered(s, n)
    <2>1. PICK D \in SUBSET Days(oc, "Completed") :
             /\ Cardinality(D) >= RECOVERY_DAYS /\ n.anchor \in Day
             /\ \A d \in D : s.anchor < d /\ d <= n.anchor
             /\ s.anchor < n.anchor
      BY <1>1, <1>5
    <2>2. D \subseteq DoneDays(new)
      BY <2>1
    <2> DEFINE c == Cardinality(PaidDays(st, s.anchor))
               m == Cardinality(PaidDays(new, n.anchor))
               x == k * RECOVERY_DAYS
    <2>3. c \in Nat /\ m \in Nat /\ Cardinality(D) \in Nat /\ c + Cardinality(D) <= m
      BY <1>2, <2>1, <2>2, MorePaid
    <2>4. x <= c /\ x \in Int
      BY <1>3 DEF Paid
    <2>5. (k + 1) * RECOVERY_DAYS = x + RECOVERY_DAYS
      BY <1>3
    <2>6. x + RECOVERY_DAYS <= m
      <3> HIDE DEF c, m, x
      <3> QED BY <1>3, <2>1, <2>3, <2>4
    <2>7. n.level < s.level
      BY <1>2, <1>5 DEF Lowered
    <2>8. QED
      BY <2>5, <2>6, <2>7 DEF Paid, n
  <1>6. QED
    <2>1. Raised(s, n) => n.anchor = s.anchor /\ ~ (n.level < s.level)
      BY <1>2 DEF Raised
    <2>2. n = s => n.anchor = s.anchor /\ ~ (n.level < s.level)
      BY <1>2
    <2>3. QED
      BY <1>1, <1>4, <1>5, <2>1, <2>2

(* _level_changed() keeps the flags sound: the flags of earlier episodes are  *)
(* resolved, and a flag at level 4 or 5 finds the gate closed or the          *)
(* reflection written.                                                        *)
LEMMA FlagsNext ==
  ASSUME NEW s \in State, NEW n \in State, n = s \/ Raised(s, n) \/ Lowered(s, n),
         NEW refl, Gated(s), Reflected(s, refl), _level_changed(s, n),
         openFlags \subseteq Episode \X (3..5), oldFlags \subseteq Episode \X (3..5),
         Past(s, openFlags \cup oldFlags), Current(s, openFlags),
         Gate(s, openFlags \cup oldFlags, refl), n.level >= 3 => n.episode \in Episode
  PROVE  /\ openFlags' \subseteq Episode \X (3..5) /\ oldFlags' \subseteq Episode \X (3..5)
         /\ Past(n, openFlags' \cup oldFlags') /\ Current(n, openFlags')
         /\ Gate(n, openFlags' \cup oldFlags', refl)
  <1> DEFINE key == <<n.episode, n.level>>
             all == openFlags \cup oldFlags
  <1>0. /\ s.level \in 1..5 /\ s.required \in BOOLEAN /\ s.done \in BOOLEAN /\ s.episode \in Nat
        /\ n.level \in 1..5 /\ n.required \in BOOLEAN /\ n.done \in BOOLEAN /\ n.episode \in Nat
    BY DEF State, Level
  <1>1. \A f \in Episode \X (3..5) : f[1] \in Episode /\ f[1] \in Int /\ f[2] \in 3..5 /\ f[2] \in Int
    BY DEF Episode
  <1>2. CASE n.level = s.level
    <2>1. n = s
      BY <1>0, <1>2 DEF Raised, Lowered
    <2>2. openFlags' = openFlags /\ oldFlags' = oldFlags
      BY <1>2 DEF _level_changed
    <2>3. QED
      BY <2>1, <2>2
  <1>3. CASE n.level # s.level /\ n.level >= 3
    <2>1. openFlags' = openFlags \cup ({key} \ oldFlags) /\ oldFlags' = oldFlags
      BY <1>3 DEF _level_changed
    <2>2. key \in Episode \X (3..5) /\ key[1] = n.episode /\ key[2] = n.level
      BY <1>0, <1>3
    <2> HIDE DEF key
    <2>3. openFlags' \subseteq Episode \X (3..5) /\ oldFlags' \subseteq Episode \X (3..5)
      BY <2>1, <2>2
    <2>4. s.episode <= n.episode /\ (s.level # 1 => n.episode = s.episode)
      BY <1>0, <1>3 DEF Raised, Lowered
    <2>5. Past(n, openFlags' \cup oldFlags')
      <3>1. ASSUME NEW f \in openFlags' \cup oldFlags' PROVE f[1] <= n.episode
        <4>1. CASE f = key
          BY <4>1, <2>2, <1>0
        <4>2. CASE f \in all
          BY <4>2, <2>4, <1>0, <1>1 DEF Past
        <4>3. QED
          BY <4>1, <4>2, <2>1
      <3>2. QED
        BY <3>1 DEF Past
    <2>6. Current(n, openFlags')
      <3>1. ASSUME NEW f \in openFlags' PROVE f[1] = n.episode
        <4>1. CASE f = key
          BY <4>1, <2>2
        <4>2. CASE f \in openFlags
          <5>1. f[1] = s.episode /\ s.level >= 3
            BY <4>2 DEF Current
          <5>2. QED
            BY <5>1, <2>4, <1>0
        <4>3. QED
          BY <4>1, <4>2, <2>1
      <3>2. QED
        BY <3>1, <1>3 DEF Current
    <2>7. ASSUME NEW f \in openFlags' \cup oldFlags',
                 f[1] = n.episode, f[2] >= 4, refl[f[1]] = 0
          PROVE  n.required /\ n.level >= f[2]
      <3>0. f \in Episode \X (3..5)
        BY <2>3
      <3>1. CASE s.level = 1
        <4>1. Raised(s, n) /\ n.episode = s.episode + 1
          BY <1>0, <1>3, <3>1 DEF Raised, Lowered
        <4>2. f \notin all
          BY <4>1, <2>7, <1>0, <1>1 DEF Past
        <4>3. f = key
          BY <4>2, <2>1
        <4>4. n.level = f[2] /\ n.level >= 4
          BY <4>3, <2>2, <2>7
        <4>5. n.required
          BY <4>1, <4>4, <3>1 DEF Raised
        <4>6. QED
          BY <4>4, <4>5, <1>0
      <3>2. CASE s.level # 1
        <4>1. f[1] = s.episode /\ f[1] \in Episode
          BY <3>0, <1>1, <2>4, <2>7, <3>2
        <4>2. ~ s.done
          BY <4>1, <2>7 DEF Reflected
        <4>3. CASE f \in all
          <5>1. s.required /\ s.level >= f[2]
            BY <4>1, <4>3, <2>7 DEF Gate
          <5>2. Raised(s, n)
            BY <5>1, <1>3 DEF Lowered
          <5>3. n.required
            BY <5>1, <5>2 DEF Raised
          <5>4. n.level > s.level /\ f[2] \in Int
            BY <5>2, <3>0, <1>1 DEF Raised
          <5>5. QED
            BY <5>1, <5>3, <5>4, <1>0
        <4>4. CASE f = key
          <5>1. n.level = f[2] /\ n.level >= 4
            BY <4>4, <2>2, <2>7
          <5>2. CASE Raised(s, n)
            <6>1. n.required
              BY <5>1, <5>2, <4>2 DEF Raised
            <6>2. QED
              BY <6>1, <5>1, <1>0
          <5>3. CASE Lowered(s, n)
            <6>1. s.level >= 4 /\ ~ s.required
              BY <5>1, <5>3, <1>0 DEF Lowered
            <6>2. QED
              BY <6>1, <4>2 DEF Gated
          <5>4. QED
            BY <5>2, <5>3, <1>3
        <4>5. QED
          BY <4>3, <4>4, <2>1
      <3>3. QED
        BY <3>1, <3>2
    <2>8. Gate(n, openFlags' \cup oldFlags', refl)
      BY <2>7 DEF Gate
    <2>9. QED
      BY <2>3, <2>5, <2>6, <2>8
  <1>4. CASE n.level # s.level /\ ~ (n.level >= 3)
    <2> DEFINE mine == {f \in openFlags : f[1] = n.episode}
    <2>1. openFlags' = openFlags \ mine /\ oldFlags' = oldFlags \cup mine
      BY <1>4 DEF _level_changed
    <2>2. Lowered(s, n) /\ n.episode = s.episode
      BY <1>0, <1>4 DEF Raised, Lowered
    <2>3. openFlags' = {} /\ openFlags' \cup oldFlags' = all
      BY <2>1, <2>2 DEF Current
    <2>4. oldFlags' \subseteq Episode \X (3..5)
      BY <2>1
    <2>5. Past(n, openFlags' \cup oldFlags') /\ Current(n, openFlags')
      BY <2>2, <2>3 DEF Past, Current
    <2>6. ASSUME NEW f \in all, f[1] = n.episode, f[2] >= 4, refl[f[1]] = 0
          PROVE  FALSE
      <3>1. s.required
        BY <2>2, <2>6 DEF Gate
      <3>2. QED
        BY <3>1, <2>2 DEF Lowered
    <2>7. Gate(n, openFlags' \cup oldFlags', refl)
      BY <2>3, <2>6 DEF Gate
    <2>8. QED
      BY <2>3, <2>4, <2>5, <2>7
  <1>5. QED
    BY <1>2, <1>3, <1>4

(* The recoveries so far bound the episodes, so the type invariant holds.     *)
LEMMA EpisodeBound ==
  ASSUME NEW st, NEW n \in State, NEW k \in Nat, Counted(n, k), Paid(st, n, k)
  PROVE  n.episode \in Episode \cup {0}
  <1>1. PaidDays(st, n.anchor) \subseteq DoneDays(st) /\ DoneDays(st) \subseteq Day
    BY DoneAreDays DEF PaidDays
  <1> DEFINE c == Cardinality(PaidDays(st, n.anchor))
             m == Cardinality(DoneDays(st))
             w == Cardinality(Occurrence)
             x == k * RECOVERY_DAYS
  <1>2. c <= m /\ c \in Nat /\ m \in Nat
    BY <1>1, DaysFinite, FS_Subset
  <1>3. w \in Nat /\ m <= w
    BY DoneBound
  <1>4. x <= c
    BY DEF Paid
  <1>5. k <= x /\ x \in Nat
    BY ThresholdAssumption
  <1>6. n.episode \in Nat /\ n.episode <= k + 1
    BY DEF Counted, State
  <1>7. n.episode <= w + 1
    <2> HIDE DEF c, m, w, x
    <2> QED BY <1>2, <1>3, <1>4, <1>5, <1>6
  <1>8. QED
    <2> HIDE DEF c, m, x
    <2> QED BY <1>3, <1>6, <1>7 DEF Episode

(* The locked part of evaluate_source(), from a state that is sound with the  *)
(* reflections written by its transaction.                                    *)
SoundWith(s, refl) ==
    /\ s \in State /\ Gated(s) /\ Reflected(s, refl)
    /\ Past(s, openFlags \cup oldFlags) /\ Current(s, openFlags)
    /\ Gate(s, openFlags \cup oldFlags, refl)
    /\ Counted(s, reductions) /\ Paid(status, s, reductions)
Flagged == openFlags \subseteq Episode \X (3..5) /\ oldFlags \subseteq Episode \X (3..5)

LEMMA ApplySound ==
  ASSUME NEW s, NEW oc, NEW now, NEW refl, SoundWith(s, refl), Apply(s, oc, now),
         Flagged, reductions \in Nat, DoneDays(status) \subseteq DoneDays(status'),
         Days(oc, "Completed") \subseteq DoneDays(status')
  PROVE  /\ row' \in State /\ row'.episode \in Episode \cup {0}
         /\ reductions' \in Nat /\ Flagged'
         /\ Gated(row') /\ Reflected(row', refl)
         /\ Past(row', openFlags' \cup oldFlags') /\ Current(row', openFlags')
         /\ Gate(row', openFlags' \cup oldFlags', refl)
         /\ Counted(row', reductions') /\ Paid(status', row', reductions')
  <1> DEFINE n == evaluate(s, oc, now)
  <1>0. /\ s \in State /\ Gated(s) /\ Reflected(s, refl)
        /\ Past(s, openFlags \cup oldFlags) /\ Current(s, openFlags)
        /\ Gate(s, openFlags \cup oldFlags, refl)
        /\ Counted(s, reductions) /\ Paid(status, s, reductions)
    BY DEF SoundWith
  <1>1. /\ row' = n /\ _level_changed(s, n)
        /\ reductions' = reductions + (IF n.level < s.level THEN 1 ELSE 0)
    BY DEF Apply
  <1>2. Days(oc, "Completed") \subseteq Day
    BY DoneAreDays
  <1>3. n \in State /\ (n = s \/ Raised(s, n) \/ Lowered(s, n))
    BY <1>0, <1>2, EvaluateCases
  <1>4. Paid(status', n, reductions')
    <2>1. Paid(status', n, reductions + (IF n.level < s.level THEN 1 ELSE 0))
      BY <1>0, PaidNext
    <2>2. QED
      BY <2>1, <1>1
  <1> HIDE DEF n
  <1>5. reductions' \in Nat
    BY <1>1
  <1>6. Counted(n, reductions')
    BY <1>0, <1>1, <1>3, CountedNext
  <1>7. Gated(n)
    <2>1. s.level >= 4 \/ ~ s.required
      BY <1>0 DEF Gated
    <2>2. QED
      BY <1>0, <1>3, <2>1, GatedNext
  <1>8. Reflected(n, refl)
    BY <1>0, <1>3, ReflectedNext
  <1>9. n.episode \in Episode \cup {0}
    BY <1>3, <1>4, <1>5, <1>6, EpisodeBound
  <1>10. n.level >= 3 => n.episode \in Episode
    <2>1. n.episode = 0 => n.level = 1
      BY <1>7 DEF Gated, BASELINE
    <2>2. QED
      BY <1>9, <2>1
  <1>11. /\ openFlags' \subseteq Episode \X (3..5) /\ oldFlags' \subseteq Episode \X (3..5)
         /\ Past(n, openFlags' \cup oldFlags') /\ Current(n, openFlags')
         /\ Gate(n, openFlags' \cup oldFlags', refl)
    BY <1>0, <1>1, <1>3, <1>10, FlagsNext DEF Flagged
  <1>12. QED
    BY <1>1, <1>3, <1>4, <1>5, <1>6, <1>7, <1>8, <1>9, <1>11 DEF Flagged

-----------------------------------------------------------------------------
(* The invariant: initially, and in each step *)

(* The type invariant, with the row as one of the states of the rules.        *)
Types ==
    /\ today \in Day /\ paused \subseteq Day /\ openPause \in Day \cup {NoDay}
    /\ status \in [Occurrence -> {"Open", "Completed", "Skipped"}]
    /\ row \in State /\ row.episode \in Episode \cup {0}
    /\ Flagged /\ reflections \in [Episode -> Nat] /\ reductions \in Nat
    /\ \A p \in Process : txn[p].kind \in {"none", "checkin", "sweep"}

LEMMA StateOf ==
  ASSUME NEW l \in Level, NEW r \in BOOLEAN, NEW d \in BOOLEAN, NEW a \in Day \cup {NoDay},
         NEW e \in Nat
  PROVE  [level |-> l, required |-> r, done |-> d, anchor |-> a, episode |-> e] \in State
  BY DEF State

LEMMA TypeParts == TypeOK <=> Types
  <1> DEFINE Rows == [level : Level, required : BOOLEAN, done : BOOLEAN,
                      anchor : Day \cup {NoDay}, episode : Episode \cup {0}]
             Fields == [level |-> row.level, required |-> row.required, done |-> row.done,
                        anchor |-> row.anchor, episode |-> row.episode]
             Ranges == /\ row.level \in Level /\ row.required \in BOOLEAN
                       /\ row.done \in BOOLEAN /\ row.anchor \in Day \cup {NoDay}
  <1>1. row \in Rows => row = Fields /\ Ranges /\ row.episode \in Episode \cup {0}
    OBVIOUS
  <1>2. row \in State => row = Fields /\ Ranges
    BY DEF State
  <1>3. Ranges /\ row.episode \in Episode \cup {0} => Fields \in Rows
    OBVIOUS
  <1>4. Ranges /\ row.episode \in Episode \cup {0} => Fields \in State
    <2>1. \A e \in Episode \cup {0} : e \in Nat
      BY DEF Episode
    <2>2. Ranges /\ row.episode \in Nat => Fields \in State
      BY StateOf
    <2>3. QED
      BY <2>1, <2>2
  <1>5. row \in Rows <=> row \in State /\ row.episode \in Episode \cup {0}
    <2> HIDE DEF Rows, Fields, Ranges
    <2> QED BY <1>1, <1>2, <1>3, <1>4
  <1>6. QED
    BY <1>5 DEF TypeOK, Types, Flagged

LEMMA TypePartsNext == TypeOK' <=> Types'
  BY TypeParts, PTL

(* The invariant of the row, in the words of the lemmas.                      *)
LEMMA SoundParts ==
  TypeOK => (SoundWith(row, reflections) <=> RowSound /\ RecoverySound)
  BY TypeParts DEF SoundWith, RowSound, RecoverySound, Types

LEMMA InitInv == Init => IInv
  <1> SUFFICES ASSUME Init PROVE IInv
    OBVIOUS
  <1>1. row = BASELINE /\ openFlags = {} /\ oldFlags = {} /\ reductions = 0
        /\ reflections = [e \in Episode |-> 0] /\ txn = [p \in Process |-> NoTxn]
        /\ status = [o \in Occurrence |-> "Open"]
    BY DEF Init
  <1>2. TypeOK
    <2>1. today \in Day /\ paused \subseteq Day /\ openPause \in Day \cup {NoDay}
      BY DayAssumption DEF Init, Day
    <2>2. BASELINE \in State /\ BASELINE.episode = 0
      BY DEF BASELINE, State, Level
    <2>3. \A p \in Process : txn[p].kind = "none"
      BY <1>1 DEF NoTxn
    <2>4. QED
      BY <1>1, <2>1, <2>2, <2>3, TypeParts DEF Flagged, Types
  <1>3. Transactions /\ CheckinsAlone /\ ReadsLast
    BY <1>1 DEF Transactions, CheckinsAlone, ReadsLast, NoTxn
  <1>4. RowSound
    <2>1. /\ BASELINE.episode = 0 /\ BASELINE.required = FALSE /\ BASELINE.done = FALSE
          /\ BASELINE.level = 1
      BY DEF BASELINE
    <2>2. Gated(row) /\ Counted(row, reductions)
      BY <1>1, <2>1 DEF Gated, Counted
    <2>3. Reflected(row, reflections)
      BY <1>1, <2>1 DEF Reflected, Episode
    <2>4. QED
      BY <1>1, <2>2, <2>3 DEF RowSound, Past, Current, Gate
  <1>5. RecoverySound
    <2>1. Cardinality(PaidDays(status, row.anchor)) \in Nat
      BY StillPaid
    <2>2. reductions * RECOVERY_DAYS = 0
      BY <1>1, ThresholdAssumption
    <2>3. QED
      BY <2>1, <2>2 DEF RecoverySound, Paid
  <1>6. QED
    BY <1>2, <1>3, <1>4, <1>5 DEF IInv

(* A transaction in flight and the absent one.                                *)
LEMMA TxnParts ==
  ASSUME Transactions, NEW p \in Process
  PROVE  /\ txn[p] = NoTxn <=> txn[p].kind = "none"
         /\ txn[p] # NoTxn => txn[p] \in Txn
  BY DEF Transactions, Txn, NoTxn

LEMMA TxnFields ==
  ASSUME NEW t \in Txn
  PROVE  /\ t.kind \in {"checkin", "sweep"} /\ t.occurrence \in Occurrence
         /\ t.wrote \in {"Open", "Completed", "Skipped"} /\ t.now \in Day
         /\ t.found \in {"unread", "none"}
  BY DEF Txn

(* Steps that leave the row and the statuses alone leave it sound.            *)
LEMMA Undisturbed ==
  ASSUME IInv, UNCHANGED <<status, row, openFlags, oldFlags, reflections, reductions>>
  PROVE  /\ RowSound' /\ RecoverySound' /\ row' \in State /\ row'.episode \in Episode \cup {0}
         /\ Flagged' /\ reflections' \in [Episode -> Nat] /\ reductions' \in Nat
         /\ status' \in [Occurrence -> {"Open", "Completed", "Skipped"}]
  <1>1. RowSound' /\ RecoverySound'
    BY DEF IInv, RowSound, RecoverySound
  <1>2. QED
    BY <1>1, TypeParts DEF IInv, Flagged, Types

(* A transaction that has read is in flight with what it read.                *)
LEMMA Reads ==
  ASSUME TypeOK, NEW kind \in {"checkin", "sweep"}, NEW o \in Occurrence,
         NEW st \in [Occurrence -> {"Open", "Completed", "Skipped"}]
  PROVE  LET t == InFlight(kind, o, st)
         IN  /\ t \in Txn /\ t.kind = kind /\ t.occurrence = o /\ t.wrote = st[o]
             /\ Days(t.outcomes, "Completed") \subseteq DoneDays(st)
  <1>1. today \in Day
    BY TypeParts DEF Types
  <1>2. st[o] \in {"Open", "Completed", "Skipped"}
    OBVIOUS
  <1> DEFINE oc == day_outcomes(st, today)
             v == st[o]
  <1>3. oc \in Outcomes /\ Days(oc, "Completed") \subseteq DoneDays(st)
    BY OutcomesRead
  <1>4. InFlight(kind, o, st) = [kind |-> kind, occurrence |-> o, wrote |-> v, now |-> today,
                                 outcomes |-> oc, found |-> "unread"]
    BY DEF InFlight
  <1> HIDE DEF oc, v
  <1>5. QED
    BY <1>1, <1>2, <1>3, <1>4 DEF Txn, v

LEMMA BeginCheckinStep ==
  ASSUME IInv, NEW p \in Process, NEW o \in Occurrence, NEW new \in {"Completed", "Skipped"},
         BeginCheckin(p, o, new)
  PROVE  IInv'
  <1> DEFINE st == [status EXCEPT ![o] = new]
             t == InFlight("checkin", o, st)
  <1>0. TypeOK /\ Transactions /\ CheckinsAlone /\ ReadsLast
    BY DEF IInv
  <1>1. /\ txn[p] = NoTxn /\ status[o] = "Open" /\ ~ OtherLocks(o)
        /\ txn' = [txn EXCEPT ![p] = t]
        /\ UNCHANGED <<today, paused, openPause, reflections, row, openFlags, oldFlags,
                       reductions, status>>
    BY DEF BeginCheckin, Elsewhere, Unescalated
  <1>2. status \in [Occurrence -> {"Open", "Completed", "Skipped"}]
    BY <1>0, TypeParts DEF Types
  <1>3. st \in [Occurrence -> {"Open", "Completed", "Skipped"}] /\ st[o] = new
        /\ \A q \in Occurrence \ {o} : st[q] = status[q]
    BY <1>2
  <1>4. DoneDays(st) \subseteq DoneDays(status) \cup (IF new = "Completed" THEN {DayOf[o]} ELSE {})
    <2> HIDE DEF st
    <2> QED BY <1>3 DEF DoneDays
  <1>5. /\ t \in Txn /\ t.kind = "checkin" /\ t.occurrence = o /\ t.wrote = new
        /\ Days(t.outcomes, "Completed") \subseteq DoneDays(st)
    <2>1. "checkin" \in {"checkin", "sweep"}
      OBVIOUS
    <2> HIDE DEF st
    <2>2. QED
      BY <1>0, <1>3, <2>1, Reads DEF t
  <1>6. Days(t.outcomes, "Completed") \subseteq DoneDays(status) \cup Own(t)
    <2> HIDE DEF t, st
    <2> QED BY <1>4, <1>5 DEF Own
  <1> HIDE DEF t, st
  <1>7. txn'[p] = t /\ \A q \in Process \ {p} : txn'[q] = txn[q]
    BY <1>0, <1>1 DEF Transactions
  <1>8. Transactions'
    BY <1>0, <1>1, <1>5 DEF Transactions
  <1>9. CheckinsAlone'
    <2>1. \A q \in Process : txn[q].kind = "checkin" => txn[q].occurrence # o
      BY <1>1 DEF OtherLocks
    <2>2. QED
      BY <1>0, <1>1, <1>5, <1>7, <2>1 DEF CheckinsAlone
  <1>10. ReadsLast'
    BY <1>0, <1>1, <1>6, <1>7 DEF ReadsLast
  <1>11. \A q \in Process : txn'[q].kind \in {"none", "checkin", "sweep"}
    BY <1>0, <1>5, <1>7, TypeParts DEF Types
  <1>12. TypeOK' /\ RowSound' /\ RecoverySound'
    BY <1>0, <1>1, <1>11, Undisturbed, TypeParts, TypePartsNext DEF Types
  <1>13. QED
    BY <1>8, <1>9, <1>10, <1>12 DEF IInv

LEMMA BeginSweepStep ==
  ASSUME IInv, NEW p \in Process, BeginSweep(p) PROVE IInv'
  <1> DEFINE o == CHOOSE q \in Occurrence : TRUE
             t == InFlight("sweep", o, status)
  <1>0. TypeOK /\ Transactions /\ CheckinsAlone /\ ReadsLast
    BY DEF IInv
  <1>1. /\ txn' = [txn EXCEPT ![p] = t]
        /\ UNCHANGED <<today, paused, openPause, reflections, row, openFlags, oldFlags,
                       reductions, status>>
    BY DEF BeginSweep, Elsewhere, Unescalated
  <1>2. o \in Occurrence /\ status \in [Occurrence -> {"Open", "Completed", "Skipped"}]
    BY <1>0, OccurrenceAssumption, TypeParts DEF Types
  <1>3. t \in Txn /\ t.kind = "sweep" /\ Days(t.outcomes, "Completed") \subseteq DoneDays(status)
    <2>1. "sweep" \in {"checkin", "sweep"}
      OBVIOUS
    <2> HIDE DEF o
    <2>2. QED
      BY <1>0, <1>2, <2>1, Reads DEF t
  <1> HIDE DEF t, o
  <1>4. txn'[p] = t /\ \A q \in Process \ {p} : txn'[q] = txn[q]
    BY <1>0, <1>1 DEF Transactions
  <1>5. Transactions'
    BY <1>0, <1>1, <1>3 DEF Transactions
  <1>6. CheckinsAlone'
    BY <1>0, <1>1, <1>3, <1>4 DEF CheckinsAlone
  <1>7. ReadsLast'
    BY <1>0, <1>1, <1>3, <1>4 DEF ReadsLast
  <1>8. \A q \in Process : txn'[q].kind \in {"none", "checkin", "sweep"}
    BY <1>0, <1>3, <1>4, TypeParts DEF Types
  <1>9. TypeOK' /\ RowSound' /\ RecoverySound'
    BY <1>0, <1>1, <1>8, Undisturbed, TypeParts, TypePartsNext DEF Types
  <1>10. QED
    BY <1>5, <1>6, <1>7, <1>9 DEF IInv

LEMMA FindNoRowStep ==
  ASSUME IInv, NEW p \in Process, FindNoRow(p) PROVE IInv'
  <1> DEFINE t == [txn[p] EXCEPT !.found = "none"]
  <1>0. TypeOK /\ Transactions /\ CheckinsAlone /\ ReadsLast
    BY DEF IInv
  <1>1. /\ txn[p] # NoTxn /\ txn' = [txn EXCEPT ![p] = t]
        /\ UNCHANGED <<today, paused, openPause, reflections, row, openFlags, oldFlags,
                       reductions, status>>
    BY DEF FindNoRow, Elsewhere, Unescalated
  <1>2. txn[p] \in Txn
    BY <1>0, <1>1, TxnParts
  <1>3. /\ t \in Txn /\ t.kind = txn[p].kind /\ t.occurrence = txn[p].occurrence
        /\ t.wrote = txn[p].wrote /\ t.outcomes = txn[p].outcomes
    BY <1>2 DEF Txn
  <1>4. Own(t) = Own(txn[p])
    BY <1>3 DEF Own
  <1> HIDE DEF t
  <1>5. txn'[p] = t /\ \A q \in Process \ {p} : txn'[q] = txn[q]
    BY <1>0, <1>1 DEF Transactions
  <1>6. Transactions'
    BY <1>0, <1>1, <1>3 DEF Transactions
  <1>7. CheckinsAlone'
    BY <1>0, <1>1, <1>3, <1>5 DEF CheckinsAlone
  <1>8. ReadsLast'
    BY <1>0, <1>1, <1>3, <1>4, <1>5 DEF ReadsLast
  <1>9. \A q \in Process : txn'[q].kind \in {"none", "checkin", "sweep"}
    BY <1>0, <1>3, <1>5, TypeParts DEF Types
  <1>10. TypeOK' /\ RowSound' /\ RecoverySound'
    BY <1>0, <1>1, <1>9, Undisturbed, TypeParts, TypePartsNext DEF Types
  <1>11. QED
    BY <1>6, <1>7, <1>8, <1>10 DEF IInv

LEMMA RollbackStep ==
  ASSUME IInv, NEW p \in Process, Rollback(p) PROVE IInv'
  <1>0. TypeOK /\ Transactions /\ CheckinsAlone /\ ReadsLast
    BY DEF IInv
  <1>1. /\ txn' = [txn EXCEPT ![p] = NoTxn]
        /\ UNCHANGED <<today, paused, openPause, reflections, row, openFlags, oldFlags,
                       reductions, status>>
    BY DEF Rollback, Elsewhere, Unescalated
  <1>2. txn'[p] = NoTxn /\ NoTxn.kind = "none" /\ \A q \in Process \ {p} : txn'[q] = txn[q]
    BY <1>0, <1>1 DEF Transactions, NoTxn
  <1>3. Transactions'
    BY <1>0, <1>1 DEF Transactions
  <1>4. CheckinsAlone'
    BY <1>0, <1>1, <1>2 DEF CheckinsAlone
  <1>5. ReadsLast'
    BY <1>0, <1>1, <1>2 DEF ReadsLast
  <1>6. \A q \in Process : txn'[q].kind \in {"none", "checkin", "sweep"}
    BY <1>0, <1>2, TypeParts DEF Types
  <1>7. TypeOK' /\ RowSound' /\ RecoverySound'
    BY <1>0, <1>1, <1>6, Undisturbed, TypeParts, TypePartsNext DEF Types
  <1>8. QED
    BY <1>3, <1>4, <1>5, <1>7 DEF IInv

(* The commit of a transaction makes the completion it wrote one that every   *)
(* later evaluation counts, and takes no completed day away.                  *)
LEMMA CommitStep ==
  ASSUME IInv, NEW p \in Process, txn[p] # NoTxn, Commit(p)
  PROVE  /\ Transactions' /\ CheckinsAlone' /\ ReadsLast'
         /\ status' \in [Occurrence -> {"Open", "Completed", "Skipped"}]
         /\ \A q \in Process : txn'[q].kind \in {"none", "checkin", "sweep"}
         /\ DoneDays(status) \subseteq DoneDays(status')
         /\ Days(txn[p].outcomes, "Completed") \subseteq DoneDays(status')
  <1> DEFINE o == txn[p].occurrence
  <1>0. TypeOK /\ Transactions /\ CheckinsAlone /\ ReadsLast
    BY DEF IInv
  <1>1. /\ txn' = [txn EXCEPT ![p] = NoTxn]
        /\ status' = IF txn[p].kind = "checkin"
                     THEN [status EXCEPT ![o] = txn[p].wrote] ELSE status
    BY DEF Commit
  <1>2. txn[p] \in Txn
    BY <1>0, TxnParts
  <1>3. /\ txn[p].kind \in {"checkin", "sweep"} /\ o \in Occurrence
        /\ txn[p].wrote \in {"Open", "Completed", "Skipped"}
    BY <1>2, TxnFields
  <1>4. status \in [Occurrence -> {"Open", "Completed", "Skipped"}]
    BY <1>0, TypeParts DEF Types
  <1> HIDE DEF o
  <1>5. status' \in [Occurrence -> {"Open", "Completed", "Skipped"}]
    BY <1>1, <1>3, <1>4
  <1>6. \A q \in Occurrence \ {o} : status'[q] = status[q]
    BY <1>1, <1>3, <1>4
  <1>7. txn[p].kind = "checkin" => status'[o] = txn[p].wrote /\ status[o] = "Open"
    BY <1>0, <1>1, <1>3, <1>4 DEF CheckinsAlone, o
  <1>8. txn[p].kind # "checkin" => status' = status
    BY <1>1
  <1>9. DoneDays(status) \subseteq DoneDays(status')
    <2>1. \A q \in Occurrence : status[q] = "Completed" => status'[q] = "Completed"
      BY <1>3, <1>6, <1>7, <1>8
    <2>2. QED
      BY <2>1 DEF DoneDays
  <1>10. Own(txn[p]) \subseteq DoneDays(status')
    BY <1>3, <1>7 DEF Own, DoneDays, o
  <1>11. Days(txn[p].outcomes, "Completed") \subseteq DoneDays(status')
    BY <1>0, <1>9, <1>10 DEF ReadsLast
  <1>12. txn'[p] = NoTxn /\ NoTxn.kind = "none" /\ \A q \in Process \ {p} : txn'[q] = txn[q]
    BY <1>0, <1>1 DEF Transactions, NoTxn
  <1>13. Transactions'
    BY <1>0, <1>1 DEF Transactions
  <1>14. CheckinsAlone'
    <2>1. ASSUME NEW q \in Process \ {p}, txn[q].kind = "checkin"
          PROVE  status'[txn[q].occurrence] = status[txn[q].occurrence]
      <3>1. txn[q].occurrence \in Occurrence
        <4>1. txn[q] \in Txn
          BY <1>0, <2>1, TxnParts DEF NoTxn
        <4>2. QED
          BY <4>1, TxnFields
      <3>2. txn[p].kind = "checkin" => txn[q].occurrence # o
        BY <1>0, <2>1 DEF CheckinsAlone, o
      <3>3. QED
        BY <3>1, <3>2, <1>6, <1>8
    <2>2. QED
      BY <1>0, <1>12, <2>1 DEF CheckinsAlone
  <1>15. ReadsLast'
    BY <1>0, <1>9, <1>12 DEF ReadsLast
  <1>16. \A q \in Process : txn'[q].kind \in {"none", "checkin", "sweep"}
    BY <1>0, <1>12, TypeParts DEF Types
  <1>17. QED
    BY <1>5, <1>9, <1>11, <1>13, <1>14, <1>15, <1>16

LEMMA EvaluateLockedStep ==
  ASSUME IInv, NEW p \in Process, EvaluateLocked(p) PROVE IInv'
  <1>0. TypeOK /\ Types /\ SoundWith(row, reflections)
    BY TypeParts, SoundParts DEF IInv
  <1>1. /\ txn[p] # NoTxn /\ Apply(row, txn[p].outcomes, txn[p].now) /\ Commit(p)
        /\ UNCHANGED <<today, paused, openPause, reflections>>
    BY DEF EvaluateLocked, Commit, Elsewhere
  <1>2. /\ Transactions' /\ CheckinsAlone' /\ ReadsLast'
        /\ status' \in [Occurrence -> {"Open", "Completed", "Skipped"}]
        /\ \A q \in Process : txn'[q].kind \in {"none", "checkin", "sweep"}
        /\ DoneDays(status) \subseteq DoneDays(status')
        /\ Days(txn[p].outcomes, "Completed") \subseteq DoneDays(status')
    BY <1>1, CommitStep
  <1>3. /\ row' \in State /\ row'.episode \in Episode \cup {0}
        /\ reductions' \in Nat /\ Flagged'
        /\ Gated(row') /\ Reflected(row', reflections)
        /\ Past(row', openFlags' \cup oldFlags') /\ Current(row', openFlags')
        /\ Gate(row', openFlags' \cup oldFlags', reflections)
        /\ Counted(row', reductions') /\ Paid(status', row', reductions')
    BY <1>0, <1>1, <1>2, ApplySound DEF Types
  <1>4. RowSound' /\ RecoverySound'
    BY <1>1, <1>3 DEF RowSound, RecoverySound
  <1>5. TypeOK'
    BY <1>0, <1>1, <1>2, <1>3, TypePartsNext DEF Types
  <1>6. QED
    BY <1>2, <1>4, <1>5 DEF IInv

(* Without a row the state is the baseline, so inserting one is evaluating it.*)
LEMMA InsertRowStep ==
  ASSUME IInv, NEW p \in Process, InsertRow(p) PROVE IInv'
  <1>0. TypeOK /\ Types /\ SoundWith(row, reflections)
    BY TypeParts, SoundParts DEF IInv
  <1>1. row = BASELINE
    BY DEF InsertRow, IInv, RowSound, Gated
  <1>2. /\ txn[p] # NoTxn /\ Apply(row, txn[p].outcomes, txn[p].now) /\ Commit(p)
        /\ UNCHANGED <<today, paused, openPause, reflections>>
    BY <1>1 DEF InsertRow, Commit, Elsewhere
  <1>3. /\ Transactions' /\ CheckinsAlone' /\ ReadsLast'
        /\ status' \in [Occurrence -> {"Open", "Completed", "Skipped"}]
        /\ \A q \in Process : txn'[q].kind \in {"none", "checkin", "sweep"}
        /\ DoneDays(status) \subseteq DoneDays(status')
        /\ Days(txn[p].outcomes, "Completed") \subseteq DoneDays(status')
    BY <1>2, CommitStep
  <1>4. /\ row' \in State /\ row'.episode \in Episode \cup {0}
        /\ reductions' \in Nat /\ Flagged'
        /\ Gated(row') /\ Reflected(row', reflections)
        /\ Past(row', openFlags' \cup oldFlags') /\ Current(row', openFlags')
        /\ Gate(row', openFlags' \cup oldFlags', reflections)
        /\ Counted(row', reductions') /\ Paid(status', row', reductions')
    BY <1>0, <1>2, <1>3, ApplySound DEF Types
  <1>5. RowSound' /\ RecoverySound'
    BY <1>2, <1>4 DEF RowSound, RecoverySound
  <1>6. TypeOK'
    BY <1>0, <1>2, <1>3, <1>4, TypePartsNext DEF Types
  <1>7. QED
    BY <1>3, <1>5, <1>6 DEF IInv

LEMMA CommitWithoutRowStep ==
  ASSUME IInv, NEW p \in Process, CommitWithoutRow(p) PROVE IInv'
  <1>0. TypeOK /\ Types /\ RowSound /\ RecoverySound
    BY TypeParts DEF IInv
  <1>1. /\ txn[p] # NoTxn /\ Commit(p)
        /\ UNCHANGED <<today, paused, openPause, reflections, row, openFlags, oldFlags, reductions>>
    BY DEF CommitWithoutRow, Unescalated, Commit, Elsewhere
  <1>2. /\ Transactions' /\ CheckinsAlone' /\ ReadsLast'
        /\ status' \in [Occurrence -> {"Open", "Completed", "Skipped"}]
        /\ \A q \in Process : txn'[q].kind \in {"none", "checkin", "sweep"}
        /\ DoneDays(status) \subseteq DoneDays(status')
    BY <1>1, CommitStep
  <1>3. RowSound'
    BY <1>0, <1>1 DEF RowSound
  <1>4. RecoverySound'
    <2> DEFINE c == Cardinality(PaidDays(status, row.anchor))
               m == Cardinality(PaidDays(status', row.anchor))
               x == reductions * RECOVERY_DAYS
    <2>1. c \in Nat /\ m \in Nat /\ c <= m
      BY <1>2, StillPaid
    <2>2. x <= c /\ x \in Int
      BY <1>0, ThresholdAssumption DEF RecoverySound, Paid, Types
    <2>3. x <= m
      <3> HIDE DEF x, c, m
      <3> QED BY <2>1, <2>2
    <2>4. QED
      BY <1>1, <2>3 DEF RecoverySound, Paid
  <1>5. TypeOK'
    BY <1>0, <1>1, <1>2, TypePartsNext DEF Types, Flagged
  <1>6. QED
    BY <1>2, <1>3, <1>4, <1>5 DEF IInv

LEMMA SubmitReflectionStep ==
  ASSUME IInv, submit_reflection PROVE IInv'
  <1> DEFINE s == [row EXCEPT !.required = FALSE, !.done = TRUE]
             oc == day_outcomes(status, today)
             e == row.episode
  <1>0. TypeOK /\ Types /\ RowSound /\ RecoverySound /\ row \in State
    BY TypeParts DEF IInv, Types
  <1>1. /\ row.required /\ reflections' = [reflections EXCEPT ![e] = @ + 1]
        /\ Apply(s, oc, today) /\ UNCHANGED <<today, status, paused, openPause, txn>>
    BY DEF submit_reflection
  <1>2. /\ s \in State /\ s.level = row.level /\ s.required = FALSE /\ s.done = TRUE
        /\ s.anchor = row.anchor /\ s.episode = row.episode
    BY <1>0 DEF State
  <1>3. row.level >= 4 /\ row.done = FALSE /\ row.level \in Int
    BY <1>0, <1>1 DEF RowSound, Gated, State, Level
  <1>4. e \in Episode /\ e # 0
    BY <1>0, <1>1 DEF RowSound, Gated, BASELINE, Types
  <1>5. /\ reflections' \in [Episode -> Nat] /\ reflections'[e] = 1
        /\ \A i \in Episode \ {e} : reflections'[i] = reflections[i]
    <2>1. reflections \in [Episode -> Nat]
      BY <1>0 DEF Types
    <2>2. reflections[e] = 0
      BY <1>0, <1>3, <1>4 DEF RowSound, Reflected
    <2>3. QED
      BY <1>1, <1>4, <2>1, <2>2
  <1>6. Days(oc, "Completed") \subseteq DoneDays(status)
    BY OutcomesRead
  <1>7. SoundWith(s, reflections')
    <2> HIDE DEF s
    <2>1. Gated(s)
      BY <1>2, <1>3, <1>4 DEF Gated
    <2>2. Reflected(s, reflections')
      <3>1. ASSUME NEW i \in Episode
            PROVE  /\ reflections'[i] <= 1
                   /\ i > s.episode => reflections'[i] = 0
                   /\ i = s.episode => reflections'[i] = 1
        <4>1. CASE i = e
          <5>1. i \in Int
            BY DEF Episode
          <5>2. QED
            BY <4>1, <5>1, <1>2, <1>5
        <4>2. CASE i # e
          BY <4>2, <1>0, <1>2, <1>5 DEF RowSound, Reflected
        <4>3. QED
          BY <4>1, <4>2
      <3>2. QED
        BY <3>1, <1>2 DEF Reflected
    <2>3. Past(s, openFlags \cup oldFlags) /\ Current(s, openFlags)
      BY <1>0, <1>2 DEF RowSound, Past, Current
    <2>4. Gate(s, openFlags \cup oldFlags, reflections')
      BY <1>2, <1>5 DEF Gate
    <2>5. Counted(s, reductions) /\ Paid(status, s, reductions)
      BY <1>0, <1>2 DEF RowSound, RecoverySound, Counted, Paid
    <2>6. QED
      BY <1>2, <2>1, <2>2, <2>3, <2>4, <2>5 DEF SoundWith
  <1>8. /\ row' \in State /\ row'.episode \in Episode \cup {0}
        /\ reductions' \in Nat /\ Flagged'
        /\ Gated(row') /\ Reflected(row', reflections')
        /\ Past(row', openFlags' \cup oldFlags') /\ Current(row', openFlags')
        /\ Gate(row', openFlags' \cup oldFlags', reflections')
        /\ Counted(row', reductions') /\ Paid(status', row', reductions')
    <2> HIDE DEF s, oc
    <2>1. DoneDays(status') = DoneDays(status)
      BY <1>1
    <2>2. QED
      BY <1>0, <1>1, <1>6, <1>7, <2>1, ApplySound DEF Types
  <1>9. RowSound' /\ RecoverySound'
    BY <1>8 DEF RowSound, RecoverySound
  <1>10. TypeOK'
    BY <1>0, <1>1, <1>5, <1>8, TypePartsNext DEF Types
  <1>11. Transactions' /\ CheckinsAlone' /\ ReadsLast'
    BY <1>1 DEF IInv, Transactions, CheckinsAlone, ReadsLast
  <1>12. QED
    BY <1>9, <1>10, <1>11 DEF IInv

(* The pauses, midnights and changes of zone touch neither rows nor           *)
(* transactions.                                                              *)
LEMMA AroundStep ==
  ASSUME IInv, \/ \E start \in Day : pause(start)
               \/ resume \/ NewDay \/ TravelBack \/ UNCHANGED vars
  PROVE  IInv'
  <1>0. TypeOK /\ Types
    BY TypeParts DEF IInv
  <1>1. UNCHANGED <<status, reflections, txn, row, openFlags, oldFlags, reductions>>
    BY DEF pause, resume, NewDay, TravelBack, vars, Still, Unescalated
  <1> DEFINE Dates == today' \in Day /\ paused' \subseteq Day /\ openPause' \in Day \cup {NoDay}
  <1>2. Dates
    <2>1. ASSUME NEW start \in Day, pause(start) PROVE Dates
      BY <1>0, <2>1 DEF pause, Types
    <2>2. CASE resume
      <3>1. openPause \in Day /\ today \in Day /\ today' = today
        BY <1>0, <2>2 DEF resume, Types
      <3>2. openPause .. (today - 1) \subseteq Day
        BY <3>1, DayAssumption DEF Day
      <3>3. QED
        BY <1>0, <2>2, <3>1, <3>2 DEF resume, Types
    <2>3. CASE NewDay
      BY <1>0, <2>3, DayAssumption DEF NewDay, Types, Day
    <2>4. CASE TravelBack
      BY <1>0, <2>4, DayAssumption DEF TravelBack, Types, Day
    <2>5. CASE UNCHANGED vars
      BY <1>0, <2>5 DEF vars, Types
    <2>6. QED
      BY <2>1, <2>2, <2>3, <2>4, <2>5
  <1>3. TypeOK' /\ RowSound' /\ RecoverySound'
    BY <1>0, <1>1, <1>2, Undisturbed, TypePartsNext DEF Types
  <1>4. Transactions' /\ CheckinsAlone' /\ ReadsLast'
    BY <1>1 DEF IInv, Transactions, CheckinsAlone, ReadsLast
  <1>5. QED
    BY <1>3, <1>4 DEF IInv

LEMMA NextInv == IInv /\ [Next]_vars => IInv'
  BY BeginCheckinStep, BeginSweepStep, EvaluateLockedStep, FindNoRowStep,
     CommitWithoutRowStep, InsertRowStep, RollbackStep, SubmitReflectionStep, AroundStep
     DEF Next

(* The inductive invariant holds of every behaviour.                          *)
THEOREM InvariantHolds == Spec => []IInv
  BY InitInv, NextInv, PTL DEF Spec

-----------------------------------------------------------------------------
(* The theorems *)

(* Every row and flag stays within its range; in particular there are never   *)
(* more episodes than occurrences and one.                                    *)
THEOREM TypeCorrect == Spec => []TypeOK
  <1>1. IInv => TypeOK
    BY DEF IInv
  <1>2. QED
    BY <1>1, InvariantHolds, PTL

(* An episode that reached level 4 or 5 leaves it only with a reflection.     *)
THEOREM GateHolds == Spec => []ReflectionGate
  <1>1. IInv => ReflectionGate
    BY DEF IInv, RowSound, Gate, ReflectionGate
  <1>2. QED
    BY <1>1, InvariantHolds, PTL

(* No episode makes the User write a second reflection.                       *)
THEOREM OneReflectionHolds == Spec => []OneReflection
  <1>1. IInv => OneReflection
    BY DEF IInv, RowSound, Reflected, OneReflection
  <1>2. QED
    BY <1>1, InvariantHolds, PTL

(* Every recovery is paid for with RECOVERY_DAYS completed days of its own.   *)
THEOREM RecoveriesPaid == Spec => []RecoveryPaid
  <1>1. IInv => RecoveryPaid
    <2> SUFFICES ASSUME IInv PROVE RecoveryPaid
      OBVIOUS
    <2> DEFINE c == Cardinality(PaidDays(status, row.anchor))
               m == Cardinality(DoneDays(status))
               x == reductions * RECOVERY_DAYS
    <2>1. PaidDays(status, row.anchor) \subseteq DoneDays(status) /\ DoneDays(status) \subseteq Day
      BY DoneAreDays DEF PaidDays
    <2>2. c \in Nat /\ m \in Nat /\ c <= m
      BY <2>1, DaysFinite, FS_Subset
    <2>3. x <= c /\ x \in Int
      BY ThresholdAssumption, TypeParts DEF IInv, RecoverySound, Paid, Types
    <2>4. x <= m
      <3> HIDE DEF x, c, m
      <3> QED BY <2>2, <2>3
    <2>5. QED
      BY <2>4 DEF RecoveryPaid, DoneDays
  <1>2. QED
    BY <1>1, InvariantHolds, PTL

(* Open flags belong to the current episode of a source at level 3 or above.  *)
THEOREM NoFlagLeftBehind == Spec => []NoStaleFlag
  <1>1. IInv => NoStaleFlag
    BY DEF IInv, RowSound, Current, NoStaleFlag
  <1>2. QED
    BY <1>1, InvariantHolds, PTL
=============================================================================
