------------------------- MODULE OccurrencesProofs -------------------------
(* Machine-checked theorems about the specification of module Occurrences,    *)
(* for any habits, routines and generations and any calendar.                 *)
EXTENDS Occurrences, FiniteSetTheorems, TLAPS

Instant == 0..((MaxTime + 2) * Slots)
EntryView == [id : Entry, template : Template, habit : Habit \cup {NoHabit}]
DayView == [entries : SUBSET EntryView, habits : SUBSET Habit]
DayViews == UNION {[S -> DayView] : S \in SUBSET Day}
PlanRow == [source : Source, start : Instant, template : SUBSET Template]
NewRow == [source : Source, occ : Day, date : Day, start : Instant, status : {"Planned"},
           live : {TRUE}]
ActRow == [source : Source, occ : Day, date : Day, start : Instant,
           status : {"Planned", "Started", "Completed", "Skipped"}, live : BOOLEAN,
           nr : Nat, missed : BOOLEAN]
GenRow == [pc : {"loaded", "planned", "written"}, days : Seq(Day), src : DayViews,
           plan : SUBSET PlanRow, rows : SUBSET NewRow, made : SUBSET (Template \X Day),
           missed : SUBSET Source]

(* What TypeOK leaves open: pauses, actions and generations in flight.        *)
Rows ==
    /\ pauses \in [Habit -> SUBSET (Nat \X Int)]
    /\ actions \subseteq ActRow /\ IsFiniteSet(actions)
    /\ gen \in [Generator -> {Idle, Done} \cup GenRow]

(* A generation in flight: the days it still has to write are distinct and    *)
(* not those of the rows it has written, its plan is for the first of them,   *)
(* and plan and rows come from the definitions it has read.                   *)
DaysSound(r) ==
    /\ \A i, j \in 1..Len(r.days) : r.days[i] = r.days[j] => i = j
    /\ \A i \in 1..Len(r.days) : r.days[i] \in DOMAIN r.src
    /\ r.pc # "written" => r.days # <<>>
PlanSound(r) ==
    /\ r.pc # "planned" => r.plan = {}
    /\ \A d \in DOMAIN r.src : \A x, y \in r.src[d].entries : x.id = y.id => x = y
    /\ \A p, q \in r.plan : p.source = q.source => p = q
    /\ \A p \in r.plan : p.source \in Habit => p.source \in r.src[r.days[1]].habits
RowsSound(r) ==
    /\ \A a \in r.rows :
         /\ a.date = a.occ /\ a.occ \in DOMAIN r.src
         /\ \A i \in 1..Len(r.days) : r.days[i] # a.occ
         /\ a.source \in Habit => a.source \in r.src[a.occ].habits
    /\ \A a, b \in r.rows : Key(a) = Key(b) => a = b
GenSound == \A g \in Generator : InFlight(g) =>
                DaysSound(gen[g]) /\ PlanSound(gen[g]) /\ RowsSound(gen[g])

(* The unique index holds the keys of uncommitted rows too.                   *)
Reserved ==
    \A g \in Generator : \A k \in Written(g) :
        k \notin ActiveKeys /\ \A o \in Generator \ {g} : k \notin Written(o)

(* What a generation is about to write is not cancelled, or the cancellation  *)
(* came after its read.                                                       *)
CancelKnown ==
    \A g \in Generator : InFlight(g) =>
        /\ \A a \in gen[g].rows : Key(a) \in removed => a.source \in gen[g].missed
        /\ \A p \in gen[g].plan :
             <<p.source, gen[g].days[1]>> \in removed => p.source \in gen[g].missed

(* A habit a generation has read was not paused, or paused after its read.    *)
PauseKnown ==
    \A g \in Generator : InFlight(g) =>
        \A d \in DOMAIN gen[g].src : \A h \in gen[g].src[d].habits \ gen[g].missed :
            \A p \in open_pause(h) : d < p[1]

(* The inductive invariant.                                                   *)
IInv ==
    /\ TypeOK /\ Rows /\ GenSound /\ Reserved /\ CancelKnown /\ PauseKnown
    /\ OneActive /\ NeverRegenerated /\ PausedDaysEmpty

-----------------------------------------------------------------------------
(* Lemmas on the calendar *)

(* The local date of a later instant is not earlier.                          *)
LEMMA DivMonotone ==
  ASSUME NEW a \in Nat, NEW c \in Nat, NEW b \in Nat, b > 0, a <= c
  PROVE  a \div b \in Nat /\ a \div b <= c \div b
  <1> DEFINE q == a \div b
             r == c \div b
  <1>1. q \in Nat /\ r \in Nat /\ b * q <= a /\ c < b * r + b
    OBVIOUS
  <1>2. SUFFICES ASSUME q > r PROVE FALSE
    BY <1>1
  <1> HIDE DEF q, r
  <1>3. q >= r + 1
    BY <1>1, <1>2
  <1>4. b * q >= b * (r + 1)
    BY <1>1, <1>3
  <1>5. b * (r + 1) = b * r + b /\ b * q \in Int /\ b * r \in Int
    BY <1>1
  <1>6. QED
    BY <1>1, <1>4, <1>5

LEMMA Numbers ==
  /\ Slots \in Nat /\ Slots > 0 /\ MaxTime \in Nat /\ MaxEdits \in Nat
  /\ HabitSlot \in 0..(Slots - 1) /\ EntrySlot \in 0..(Slots - 1)
  /\ MaxTime \div Slots \in Nat /\ Day \subseteq Nat
  <1>1. /\ Slots \in Nat /\ Slots > 0 /\ MaxTime \in Nat /\ MaxEdits \in Nat
        /\ HabitSlot \in 0..(Slots - 1) /\ EntrySlot \in 0..(Slots - 1)
    BY CalendarAssumption
  <1>2. MaxTime \div Slots \in Nat
    BY <1>1, DivMonotone
  <1>3. QED
    BY <1>1, <1>2 DEF Day

(* Today and tomorrow are local dates of the model.                           *)
LEMMA TodayIsDay ==
  ASSUME now \in 0..MaxTime
  PROVE  today \in Nat /\ today \in Day /\ today + 1 \in Day
  <1>1. today \in Nat /\ today <= MaxTime \div Slots
    BY Numbers, DivMonotone DEF today
  <1>2. QED
    BY <1>1, Numbers DEF Day

(* A time of day on a local date is an instant.                               *)
LEMMA InstantOf ==
  ASSUME NEW d \in Day, NEW slot \in 0..(Slots - 1)
  PROVE  d * Slots + slot \in Instant /\ d * Slots + slot # NoDate
  <1> DEFINE q == MaxTime \div Slots
  <1>1. q \in Nat /\ Slots * q <= MaxTime
    BY Numbers
  <1>2. d \in Nat /\ d <= q + 1
    BY <1>1 DEF Day
  <1> HIDE DEF q
  <1>3. d * Slots <= (q + 1) * Slots /\ d * Slots \in Nat
    BY <1>1, <1>2, Numbers
  <1>4. (q + 1) * Slots = Slots * q + Slots /\ Slots * q \in Nat
    BY <1>1, Numbers
  <1>5. d * Slots <= MaxTime + Slots
    BY <1>1, <1>3, <1>4, Numbers
  <1>6. (MaxTime + 2) * Slots = MaxTime * Slots + 2 * Slots /\ MaxTime <= MaxTime * Slots
        /\ MaxTime * Slots \in Nat
    BY Numbers
  <1>7. d * Slots + slot \in Nat /\ d * Slots + slot <= (MaxTime + 2) * Slots
    BY <1>3, <1>5, <1>6, Numbers
  <1>8. QED
    BY <1>6, <1>7, Numbers DEF Instant, NoDate

(* Where an occurrence starts is an instant.                                  *)
LEMMA StartTyped ==
  ASSUME moved \in [Source \X Day -> Instant \cup {NoDate}], NEW s \in Source, NEW d \in Day
  PROVE  Start(s, d) \in Instant
  <1>1. moved[<<s, d>>] \in Instant \cup {NoDate}
    OBVIOUS
  <1>2. d * Slots + HabitSlot \in Instant /\ d * Slots + EntrySlot \in Instant
    BY Numbers, InstantOf
  <1>3. QED
    BY <1>1, <1>2 DEF Start

-----------------------------------------------------------------------------
(* Lemmas on generations *)

LEMMA GenParts ==
  ASSUME Rows, NEW g \in Generator
  PROVE  /\ InFlight(g) <=> gen[g] \in GenRow
         /\ gen[g] \in GenRow <=> gen[g].pc \in {"loaded", "planned", "written"}
         /\ gen[g] \in {Idle, Done} \cup GenRow
  BY DEF Rows, InFlight, Idle, Done, GenRow

LEMMA GenFields ==
  ASSUME NEW r \in GenRow
  PROVE  /\ r.pc \in {"loaded", "planned", "written"} /\ r.days \in Seq(Day)
         /\ r.src \in DayViews /\ r.plan \subseteq PlanRow /\ r.rows \subseteq NewRow
         /\ r.made \subseteq Template \X Day /\ r.missed \subseteq Source
  BY DEF GenRow

LEMMA ViewFields ==
  ASSUME NEW v \in DayViews, NEW d \in DOMAIN v
  PROVE  d \in Day /\ v[d].entries \subseteq EntryView /\ v[d].habits \subseteq Habit
  <1>1. PICK S \in SUBSET Day : v \in [S -> DayView]
    BY DEF DayViews
  <1>2. d \in S /\ v[d] \in DayView
    BY <1>1
  <1>3. QED
    BY <1>2 DEF DayView

(* A step that at most tells generations of an edit they have missed.         *)
Kept ==
    /\ gen' \in [Generator -> {Idle, Done} \cup GenRow]
    /\ \A g \in Generator :
         /\ gen'[g].pc = gen[g].pc
         /\ gen'[g] \in GenRow <=> gen[g] \in GenRow
         /\ gen[g] \in GenRow =>
              /\ gen'[g].days = gen[g].days /\ gen'[g].src = gen[g].src
              /\ gen'[g].plan = gen[g].plan /\ gen'[g].rows = gen[g].rows
              /\ gen'[g].made = gen[g].made /\ gen[g].missed \subseteq gen'[g].missed

LEMMA TellsOne ==
  ASSUME NEW r \in GenRow, NEW S \in SUBSET Source
  PROVE  LET n == [r EXCEPT !.missed = @ \cup S]
         IN  /\ n \in GenRow /\ n.pc = r.pc /\ n.days = r.days /\ n.src = r.src /\ n.plan = r.plan
             /\ n.rows = r.rows /\ n.made = r.made /\ n.missed = r.missed \cup S
  BY DEF GenRow

LEMMA EditKeeps ==
  ASSUME Rows, NEW S \in SUBSET Source, Edit(S)
  PROVE  Kept /\ \A g \in Generator : gen[g] \in GenRow => S \subseteq gen'[g].missed
  <1>1. gen' = [g \in Generator |->
                  IF InFlight(g) THEN [gen[g] EXCEPT !.missed = @ \cup S] ELSE gen[g]]
    BY DEF Edit
  <1>2. ASSUME NEW g \in Generator
        PROVE  /\ gen'[g] \in {Idle, Done} \cup GenRow /\ gen'[g].pc = gen[g].pc
               /\ gen'[g] \in GenRow <=> gen[g] \in GenRow
               /\ gen[g] \in GenRow =>
                    /\ gen'[g].days = gen[g].days /\ gen'[g].src = gen[g].src
                    /\ gen'[g].plan = gen[g].plan /\ gen'[g].rows = gen[g].rows
                    /\ gen'[g].made = gen[g].made /\ gen[g].missed \subseteq gen'[g].missed
                    /\ S \subseteq gen'[g].missed
    <2>1. CASE gen[g] \in GenRow
      <3>1. gen'[g] = [gen[g] EXCEPT !.missed = @ \cup S]
        BY <1>1, <2>1, GenParts
      <3>2. QED
        BY <2>1, <3>1, TellsOne
    <2>2. CASE gen[g] \notin GenRow
      <3>1. gen'[g] = gen[g]
        BY <1>1, <2>2, GenParts
      <3>2. QED
        BY <2>2, <3>1, GenParts
    <2>3. QED
      BY <2>1, <2>2
  <1>3. gen' \in [Generator -> {Idle, Done} \cup GenRow]
    BY <1>1, <1>2
  <1>4. QED
    BY <1>2, <1>3 DEF Kept

LEMMA SameKeeps ==
  ASSUME Rows, gen' = gen PROVE Kept
  BY DEF Kept, Rows

(* The invariants of generations depend on what was told only monotonically.  *)
LEMMA KeptSound ==
  ASSUME Rows, GenSound, Kept
  PROVE  /\ GenSound'
         /\ \A g \in Generator : Written(g)' = Written(g)
         /\ \A g \in Generator : InFlight(g)' <=> InFlight(g)
  <1>1. \A g \in Generator : InFlight(g) <=> gen[g] \in GenRow
    BY GenParts
  <1>2. \A g \in Generator : InFlight(g)' <=> gen'[g] \in GenRow
    BY DEF Kept, InFlight, Idle, Done, GenRow
  <1>3. GenSound'
    <2>1. ASSUME NEW g \in Generator, gen'[g] \in GenRow
          PROVE  DaysSound(gen'[g]) /\ PlanSound(gen'[g]) /\ RowsSound(gen'[g])
      <3>1. /\ gen'[g].pc = gen[g].pc /\ gen'[g].days = gen[g].days /\ gen'[g].src = gen[g].src
            /\ gen'[g].plan = gen[g].plan /\ gen'[g].rows = gen[g].rows
        BY <2>1 DEF Kept
      <3>2. DaysSound(gen[g]) /\ PlanSound(gen[g]) /\ RowsSound(gen[g])
        BY <1>1, <2>1 DEF Kept, GenSound
      <3>3. DaysSound(gen'[g])
        BY <3>1, <3>2 DEF DaysSound
      <3>4. PlanSound(gen'[g])
        BY <3>1, <3>2 DEF PlanSound
      <3>5. RowsSound(gen'[g])
        BY <3>1, <3>2 DEF RowsSound
      <3>6. QED
        BY <3>3, <3>4, <3>5
    <2>2. QED
      BY <1>2, <2>1 DEF GenSound
  <1>4. \A g \in Generator : InFlight(g)' <=> InFlight(g)
    BY <1>1, <1>2 DEF Kept
  <1>5. \A g \in Generator : Written(g)' = Written(g)
    BY <1>1, <1>4 DEF Written, Kept
  <1>6. QED
    BY <1>3, <1>4, <1>5

-----------------------------------------------------------------------------
(* Lemmas on Daily Actions *)

LEMMA ActFields ==
  ASSUME NEW a \in ActRow
  PROVE  /\ a.source \in Source /\ a.occ \in Day /\ a.date \in Day /\ a.start \in Instant
         /\ a.status \in {"Planned", "Started", "Completed", "Skipped"} /\ a.live \in BOOLEAN
         /\ a.nr \in Nat /\ a.missed \in BOOLEAN /\ Key(a) \in Source \X Day
  BY DEF ActRow, Key

(* The image of a finite set is finite.                                       *)
LEMMA ImageFinite ==
  ASSUME NEW f, IsFiniteSet(DOMAIN f)
  PROVE  IsFiniteSet({f[x] : x \in DOMAIN f})
  <1> DEFINE g == [x \in DOMAIN f |-> f[x]]
             T == {f[x] : x \in DOMAIN f}
  <1>1. g \in Surjection(DOMAIN f, T)
    BY DEF Surjection
  <1> HIDE DEF g, T
  <1>2. IsFiniteSet(T)
    BY <1>1, FS_Surjection
  <1>3. QED
    BY <1>2 DEF T

LEMMA Ended ==
  ASSUME NEW a \in ActRow
  PROVE  LET b == [a EXCEPT !.live = FALSE]
         IN  b \in ActRow /\ ~ b.live
  BY DEF ActRow

(* system_cancel() takes actions out of the active ones and adds none.        *)
LEMMA CancelShrinks ==
  ASSUME Rows, NEW A, A \subseteq Active, system_cancel(A)
  PROVE  actions' \subseteq ActRow /\ IsFiniteSet(actions') /\ Active' \subseteq Active \ A
  <1> DEFINE f == [a \in A |-> [a EXCEPT !.live = FALSE]]
             E == {f[a] : a \in A}
  <1>0. actions \subseteq ActRow /\ IsFiniteSet(actions) /\ A \subseteq actions
    BY DEF Rows, Active
  <1>1. actions' = (actions \ A) \cup E
    BY DEF system_cancel
  <1>2. \A b \in E : b \in ActRow /\ ~ b.live
    BY <1>0, Ended
  <1>3. IsFiniteSet(E)
    <2>1. IsFiniteSet(A)
      BY <1>0, FS_Subset
    <2>2. DOMAIN f = A
      OBVIOUS
    <2> HIDE DEF f
    <2>3. QED
      BY <2>1, <2>2, ImageFinite
  <1> HIDE DEF E
  <1>4. IsFiniteSet(actions')
    <2>1. IsFiniteSet(actions \ A)
      BY <1>0, FS_Subset
    <2>2. QED
      BY <1>1, <1>3, <2>1, FS_Union
  <1>5. QED
    BY <1>0, <1>1, <1>2, <1>4 DEF Active

(* One action is replaced by another.                                         *)
LEMMA PutTyped ==
  ASSUME Rows, NEW a, NEW b \in ActRow, Put(a, b)
  PROVE  actions' \subseteq ActRow /\ IsFiniteSet(actions')
  <1>0. actions \subseteq ActRow /\ IsFiniteSet(actions) /\ actions' = (actions \ {a}) \cup {b}
    BY DEF Rows, Put
  <1>1. IsFiniteSet(actions \ {a})
    BY <1>0, FS_RemoveElement
  <1>2. QED
    BY <1>0, <1>1, FS_AddElement

-----------------------------------------------------------------------------
(* The invariant: initially, and in each step *)

(* Steps that add no active action and lift no cancellation.                  *)
Typed ==
    /\ actions' \subseteq ActRow /\ IsFiniteSet(actions')
    /\ pauses' \in [Habit -> SUBSET (Nat \X Int)]
    /\ now' \in 0..MaxTime /\ edits' \in 0..MaxEdits
    /\ template' \in [Template -> [days : SUBSET (0..(Week - 1)), deleted : BOOLEAN]]
    /\ entry' \in [Entry -> [template : Template \cup {NoTemplate}, habit : Habit \cup {NoHabit},
                             deleted : BOOLEAN]]

LEMMA QuietRest ==
  ASSUME IInv, Kept, Typed, Active' \subseteq Active, UNCHANGED <<removed, moved, instances>>
  PROVE  /\ TypeOK' /\ Rows' /\ GenSound' /\ Reserved' /\ CancelKnown'
         /\ OneActive' /\ NeverRegenerated'
  <1>0. /\ TypeOK /\ Rows /\ GenSound /\ Reserved /\ CancelKnown
        /\ OneActive /\ NeverRegenerated
    BY DEF IInv
  <1>1. TypeOK'
    <2>1. \A a \in actions' : Key(a) \in Source \X Day /\ a.nr \in Nat
      BY ActFields DEF Typed
    <2>2. QED
      BY <1>0, <2>1 DEF TypeOK, Typed
  <1>2. Rows'
    BY DEF Rows, Kept, Typed
  <1>3. /\ GenSound' /\ \A g \in Generator : Written(g)' = Written(g)
        /\ \A g \in Generator : InFlight(g)' <=> InFlight(g)
    BY <1>0, KeptSound
  <1>4. \A g \in Generator : InFlight(g) <=> gen[g] \in GenRow
    BY <1>0, GenParts
  <1>5. Reserved'
    <2>1. ActiveKeys' \subseteq ActiveKeys
      BY DEF ActiveKeys
    <2>2. QED
      BY <1>0, <1>3, <2>1 DEF Reserved
  <1>6. CancelKnown'
    BY <1>0, <1>3, <1>4 DEF CancelKnown, Kept
  <1>7. OneActive' /\ NeverRegenerated'
    BY <1>0 DEF OneActive, NeverRegenerated
  <1>8. QED
    BY <1>1, <1>2, <1>3, <1>5, <1>6, <1>7

(* A generation's read of a pause stays valid while no pause is opened.       *)
LEMMA PauseKept ==
  ASSUME Rows, GenSound, PauseKnown, Kept,
         \A h \in Habit : open_pause(h)' \subseteq open_pause(h)
  PROVE  PauseKnown'
  <1>1. ASSUME NEW g \in Generator, InFlight(g), NEW d \in DOMAIN gen'[g].src,
               NEW h \in gen'[g].src[d].habits \ gen'[g].missed, NEW p \in open_pause(h)'
        PROVE  d < p[1]
    <2>1. /\ gen'[g].src = gen[g].src /\ gen[g].missed \subseteq gen'[g].missed
          /\ gen[g].src \in DayViews
      BY <1>1, GenParts, GenFields DEF Kept
    <2>2. h \in Habit
      BY <2>1, ViewFields
    <2>3. QED
      BY <1>1, <2>1, <2>2 DEF PauseKnown
  <1>2. \A g \in Generator : InFlight(g)' <=> InFlight(g)
    BY KeptSound
  <1>3. QED
    BY <1>1, <1>2 DEF PauseKnown

(* Steps that open no pause either.                                           *)
LEMMA QuietStep ==
  ASSUME IInv, Kept, Typed, Active' \subseteq Active, UNCHANGED <<removed, moved, instances>>,
         now <= now', \A h \in Habit : open_pause(h)' \subseteq open_pause(h)
  PROVE  IInv'
  <1>0. TypeOK /\ Rows /\ GenSound /\ PauseKnown /\ PausedDaysEmpty
    BY DEF IInv
  <1>1. PauseKnown'
    BY <1>0, PauseKept
  <1>2. ASSUME NEW a \in Active', a.source \in Habit, ~ a.missed, a.status = "Planned",
               a.start > now', NEW p \in open_pause(a.source)', a.date >= p[1]
        PROVE  moved[Key(a)] # NoDate
    <2>1. a \in Active /\ a \in ActRow /\ p \in open_pause(a.source)
      BY <1>2 DEF Active, Typed
    <2>2. a.start \in Int /\ now \in Int /\ now' \in Int
      BY <1>0, <2>1, ActFields, Numbers DEF TypeOK, Instant, Typed
    <2>3. a.start > now
      BY <1>2, <2>2
    <2>4. QED
      BY <1>0, <1>2, <2>1, <2>3 DEF PausedDaysEmpty
  <1>3. PausedDaysEmpty'
    BY <1>2 DEF PausedDaysEmpty
  <1>4. QED
    BY <1>1, <1>3, QuietRest DEF IInv

LEMMA RequestTyped ==
  ASSUME TypeOK, Request PROVE edits' \in 0..MaxEdits
  BY Numbers DEF TypeOK, Request

TemplateRow == [days : SUBSET (0..(Week - 1)), deleted : BOOLEAN]
EntryRow == [template : Template \cup {NoTemplate}, habit : Habit \cup {NoHabit},
             deleted : BOOLEAN]

(* Edits of definitions that touch neither pauses nor Daily Actions.          *)
LEMMA DefinitionStep ==
  ASSUME IInv, Kept, Request, UNCHANGED <<now, pauses, removed, moved, instances, actions>>,
         template' \in [Template -> TemplateRow], entry' \in [Entry -> EntryRow]
  PROVE  IInv'
  <1>1. TypeOK /\ Rows
    BY DEF IInv
  <1>2. edits' \in 0..MaxEdits /\ now' \in 0..MaxTime /\ now <= now'
    BY <1>1, RequestTyped, Numbers DEF TypeOK
  <1>3. \A h \in Habit : open_pause(h)' \subseteq open_pause(h)
    BY DEF open_pause
  <1>4. Active' \subseteq Active
    BY DEF Active
  <1>5. QED
    BY <1>1, <1>2, <1>3, <1>4, QuietStep DEF Rows, TemplateRow, EntryRow, Typed

(* Edits that cancel future actions and leave the pauses alone.               *)
LEMMA CancellingStep ==
  ASSUME IInv, Kept, Request, UNCHANGED <<now, pauses, template, entry, removed, moved, instances>>,
         NEW A, A \subseteq Active, system_cancel(A)
  PROVE  IInv'
  <1>1. TypeOK /\ Rows
    BY DEF IInv
  <1>2. edits' \in 0..MaxEdits /\ now' \in 0..MaxTime /\ now <= now'
    BY <1>1, RequestTyped, Numbers DEF TypeOK
  <1>3. \A h \in Habit : open_pause(h)' \subseteq open_pause(h)
    BY DEF open_pause
  <1>4. actions' \subseteq ActRow /\ IsFiniteSet(actions') /\ Active' \subseteq Active
    BY <1>1, CancelShrinks
  <1>5. template' = template /\ entry' = entry
    OBVIOUS
  <1>6. QED
    BY <1>1, <1>2, <1>3, <1>4, <1>5, QuietStep DEF Rows, TypeOK, Typed

LEMMA FutureActive ==
  ASSUME NEW h, NEW from PROVE Future(h, from) \subseteq Active
  BY DEF Future

LEMMA TouchedSources ==
  ASSUME NEW E, E \subseteq Entry PROVE Touched(E) \in SUBSET Source
  BY DEF Touched, Source

LEMMA TickStep ==
  ASSUME IInv, Tick PROVE IInv'
  <1>1. TypeOK /\ Rows
    BY DEF IInv
  <1>2. /\ now' = now + 1 /\ now < MaxTime
        /\ UNCHANGED <<goal, habit, pauses, template, entry, removed, moved, instances, actions,
                       gen, edits>>
    BY DEF Tick, definitions
  <1>3. now' \in 0..MaxTime /\ now <= now' /\ edits' \in 0..MaxEdits
    BY <1>1, <1>2, Numbers DEF TypeOK
  <1>4. \A h \in Habit : open_pause(h)' \subseteq open_pause(h)
    BY <1>2 DEF open_pause
  <1>5. Active' \subseteq Active
    BY <1>2 DEF Active
  <1>6. Kept
    BY <1>1, <1>2, SameKeeps
  <1>7. template' = template /\ entry' = entry
    BY <1>2
  <1>8. QED
    BY <1>1, <1>2, <1>3, <1>4, <1>5, <1>6, <1>7, QuietStep DEF Rows, TypeOK, Typed

LEMMA HabitEditStep ==
  ASSUME IInv, NEW h \in Habit,
         \/ \E days \in HabitDays :
              \/ create_habit(h, days)
              \/ \E status \in {"active", "archived"}, last \in {NoDate, today} :
                   update_habit(h, days, status, last)
         \/ delete_habit(h)
  PROVE  IInv'
  <1>1. TypeOK /\ Rows /\ {h} \in SUBSET Source
    BY DEF IInv, Source
  <1>2. template \in [Template -> TemplateRow] /\ entry \in [Entry -> EntryRow]
    BY <1>1 DEF TypeOK, TemplateRow, EntryRow
  <1>3. Edit({h})
    BY DEF create_habit, update_habit, delete_habit
  <1>4. Kept /\ Request
    BY <1>1, <1>3, EditKeeps DEF Edit
  <1>5. CASE delete_habit(h)
    BY <1>4, <1>5, FutureActive, CancellingStep DEF delete_habit
  <1>6. CASE UNCHANGED <<now, goal, pauses, template, entry, removed, moved, instances, actions>>
    BY <1>2, <1>4, <1>6, DefinitionStep
  <1>7. QED
    BY <1>5, <1>6 DEF create_habit, update_habit

LEMMA ResumeStep ==
  ASSUME IInv, NEW h \in Habit, resume(h) PROVE IInv'
  <1>1. TypeOK /\ Rows /\ {h} \in SUBSET Source
    BY DEF IInv, Source
  <1>2. Kept /\ Request
    BY <1>1, EditKeeps DEF resume, Edit
  <1>3. UNCHANGED <<now, goal, habit, template, entry, removed, moved, instances, actions>>
    BY DEF resume
  <1>4. PICK p \in open_pause(h) :
          pauses' = [pauses EXCEPT ![h] =
                       (@ \ {p}) \cup (IF p[1] >= today THEN {} ELSE {<<p[1], today - 1>>})]
    BY DEF resume
  <1>5. pauses \in [Habit -> SUBSET (Nat \X Int)] /\ today \in Nat
    BY <1>1, TodayIsDay DEF Rows, TypeOK
  <1> DEFINE N == IF p[1] >= today THEN {} ELSE {<<p[1], today - 1>>}
             Q == (pauses[h] \ {p}) \cup N
  <1>6. p \in Nat \X Int
    BY <1>4, <1>5 DEF open_pause
  <1>7. N \in SUBSET (Nat \X Int) /\ \A q \in N : q[2] # NoDate
    <2>1. p[1] \in Nat /\ today - 1 \in Int /\ (~ (p[1] >= today) => today - 1 # NoDate)
      BY <1>5, <1>6 DEF NoDate
    <2>2. QED
      BY <2>1
  <1>8. pauses' = [pauses EXCEPT ![h] = Q]
    BY <1>4
  <1> HIDE DEF N
  <1>9. Q \in SUBSET (Nat \X Int)
    BY <1>5, <1>7
  <1>10. pauses' \in [Habit -> SUBSET (Nat \X Int)]
    BY <1>5, <1>8, <1>9
  <1>11. ASSUME NEW k \in Habit PROVE open_pause(k)' \subseteq open_pause(k)
    <2>1. CASE k = h
      <3>1. pauses'[k] = Q
        BY <1>5, <1>8, <2>1
      <3>2. QED
        BY <2>1, <3>1, <1>7 DEF open_pause
    <2>2. CASE k # h
      BY <1>5, <1>8, <2>2 DEF open_pause
    <2>3. QED
      BY <2>1, <2>2
  <1>12. edits' \in 0..MaxEdits /\ now' \in 0..MaxTime /\ now <= now'
    BY <1>1, <1>2, <1>3, RequestTyped, Numbers DEF TypeOK
  <1>13. Active' \subseteq Active
    BY <1>3 DEF Active
  <1>14. QED
    BY <1>1, <1>2, <1>3, <1>10, <1>11, <1>12, <1>13, QuietStep DEF Rows, TypeOK, Typed

LEMMA GoalStep ==
  ASSUME IInv, NEW g \in Goal, archive(g) \/ delete_goal(g)
  PROVE  IInv'
  <1>1. TypeOK /\ Rows /\ HabitsOf(g) \in SUBSET Source
    BY DEF IInv, HabitsOf, Source
  <1>2. Kept /\ Request
    BY <1>1, EditKeeps DEF archive, delete_goal, Edit
  <1>3. CASE archive(g)
    <2>1. UNION {Future(h, 0) : h \in HabitsOf(g)} \subseteq Active
      BY FutureActive
    <2>2. QED
      BY <1>2, <1>3, <2>1, CancellingStep DEF archive
  <1>4. CASE delete_goal(g)
    <2>1. UNCHANGED <<now, pauses, template, entry, removed, moved, instances, actions>>
      BY <1>4 DEF delete_goal
    <2>2. template \in [Template -> TemplateRow] /\ entry \in [Entry -> EntryRow]
      BY <1>1 DEF TypeOK, TemplateRow, EntryRow
    <2>3. QED
      BY <1>2, <2>1, <2>2, DefinitionStep
  <1>5. QED
    BY <1>3, <1>4

LEMMA TemplateStep ==
  ASSUME IInv, NEW t \in Template,
         \/ delete_template(t)
         \/ \E days \in RoutineDays : create_template(t, days) \/ update_template(t, days)
  PROVE  IInv'
  <1>1. /\ TypeOK /\ Rows /\ Touched(EntriesOf(t)) \in SUBSET Source
        /\ template \in [Template -> TemplateRow] /\ entry \in [Entry -> EntryRow]
    BY TouchedSources DEF IInv, TypeOK, TemplateRow, EntryRow, EntriesOf
  <1>2. UNCHANGED <<now, pauses, removed, moved, instances, actions>>
    BY DEF delete_template, create_template, update_template
  <1>3. Kept /\ Request
    <2>1. CASE Edit(Touched(EntriesOf(t)))
      BY <1>1, <2>1, EditKeeps DEF Edit
    <2>2. CASE gen' = gen /\ Request
      BY <1>1, <2>2, SameKeeps
    <2>3. QED
      BY <2>1, <2>2 DEF delete_template, create_template, update_template
  <1>4. template' \in [Template -> TemplateRow]
    <2>1. ASSUME NEW days \in RoutineDays, template' = [template EXCEPT ![t].days = days]
          PROVE  template' \in [Template -> TemplateRow]
      <3>1. days \in SUBSET (0..(Week - 1))
        BY CalendarAssumption
      <3>2. [template[t] EXCEPT !.days = days] \in TemplateRow
        BY <1>1, <3>1 DEF TemplateRow
      <3>3. QED
        BY <1>1, <2>1, <3>2
    <2>2. ASSUME template' = [template EXCEPT ![t].deleted = TRUE]
          PROVE  template' \in [Template -> TemplateRow]
      <3>1. [template[t] EXCEPT !.deleted = TRUE] \in TemplateRow
        BY <1>1 DEF TemplateRow
      <3>2. QED
        BY <1>1, <2>2, <3>1
    <2>3. QED
      BY <2>1, <2>2 DEF delete_template, create_template, update_template
  <1>5. entry' \in [Entry -> EntryRow]
    <2>1. ASSUME entry' = [e \in Entry |-> [entry[e] EXCEPT !.deleted = @ \/ e \in EntriesOf(t)]]
          PROVE  entry' \in [Entry -> EntryRow]
      <3>1. \A e \in Entry : [entry[e] EXCEPT !.deleted = @ \/ e \in EntriesOf(t)] \in EntryRow
        BY <1>1 DEF EntryRow
      <3>2. QED
        BY <2>1, <3>1
    <2>2. QED
      BY <1>1, <2>1 DEF delete_template, create_template, update_template
  <1>6. QED
    BY <1>2, <1>3, <1>4, <1>5, DefinitionStep

LEMMA EntryStep ==
  ASSUME IInv, NEW e \in Entry,
         \/ \E t \in Template, h \in Habit \cup {NoHabit} : create_entry(e, t, h)
         \/ \E h \in Habit \cup {NoHabit} : update_entry(e, h)
         \/ delete_entry(e)
  PROVE  IInv'
  <1>1. /\ TypeOK /\ Rows
        /\ template \in [Template -> TemplateRow] /\ entry \in [Entry -> EntryRow]
    BY DEF IInv, TypeOK, TemplateRow, EntryRow
  <1>2. UNCHANGED <<now, pauses, template, removed, moved, instances, actions>>
    BY DEF create_entry, update_entry, delete_entry
  <1>3. PICK S \in SUBSET Source : Edit(S)
    BY TouchedSources DEF create_entry, update_entry, delete_entry
  <1>4. Kept /\ Request
    BY <1>1, <1>3, EditKeeps DEF Edit
  <1>5. entry' \in [Entry -> EntryRow]
    <2>1. ASSUME NEW t \in Template, NEW h \in Habit \cup {NoHabit}, create_entry(e, t, h)
          PROVE  entry' \in [Entry -> EntryRow]
      <3>1. entry' = [entry EXCEPT ![e] = [[entry[e] EXCEPT !.template = t] EXCEPT !.habit = h]]
        BY <1>1, <2>1 DEF create_entry
      <3>2. [[entry[e] EXCEPT !.template = t] EXCEPT !.habit = h] \in EntryRow
        BY <1>1 DEF EntryRow
      <3>3. QED
        BY <1>1, <3>1, <3>2
    <2>2. ASSUME NEW h \in Habit \cup {NoHabit}, update_entry(e, h)
          PROVE  entry' \in [Entry -> EntryRow]
      <3>1. [entry[e] EXCEPT !.habit = h] \in EntryRow
        BY <1>1 DEF EntryRow
      <3>2. QED
        BY <1>1, <2>2, <3>1 DEF update_entry
    <2>3. ASSUME delete_entry(e) PROVE entry' \in [Entry -> EntryRow]
      <3>1. [entry[e] EXCEPT !.deleted = TRUE] \in EntryRow
        BY <1>1 DEF EntryRow
      <3>2. QED
        BY <1>1, <2>3, <3>1 DEF delete_entry
    <2>4. QED
      BY <2>1, <2>2, <2>3
  <1>6. QED
    BY <1>1, <1>2, <1>4, <1>5, DefinitionStep

LEMMA PauseStep ==
  ASSUME IInv, NEW h \in Habit, NEW from \in Day, pause(h, from) PROVE IInv'
  <1>0. TypeOK /\ Rows /\ GenSound /\ PauseKnown /\ PausedDaysEmpty /\ {h} \in SUBSET Source
    BY DEF IInv, Source
  <1>1. /\ open_pause(h) = {} /\ pauses' = [pauses EXCEPT ![h] = @ \cup {<<from, NoDate>>}]
        /\ system_cancel(Future(h, from)) /\ Edit({h})
        /\ UNCHANGED <<now, goal, habit, template, entry, removed, moved, instances>>
    BY DEF pause
  <1>2. Kept /\ Request /\ \A g \in Generator : gen[g] \in GenRow => h \in gen'[g].missed
    BY <1>0, <1>1, EditKeeps DEF Edit
  <1>3. /\ actions' \subseteq ActRow /\ IsFiniteSet(actions')
        /\ Active' \subseteq Active \ Future(h, from)
    BY <1>0, <1>1, FutureActive, CancelShrinks
  <1>4. pauses \in [Habit -> SUBSET (Nat \X Int)] /\ from \in Nat /\ NoDate \in Int
    BY <1>0, Numbers DEF Rows, NoDate
  <1>5. /\ pauses' \in [Habit -> SUBSET (Nat \X Int)]
        /\ pauses'[h] = pauses[h] \cup {<<from, NoDate>>}
        /\ \A k \in Habit \ {h} : pauses'[k] = pauses[k]
    BY <1>1, <1>4
  <1>6. /\ \A k \in Habit \ {h} : open_pause(k)' = open_pause(k)
        /\ \A p \in open_pause(h)' : p = <<from, NoDate>>
    BY <1>1, <1>5 DEF open_pause
  <1>7. Typed
    BY <1>0, <1>1, <1>2, <1>3, <1>5, RequestTyped DEF Typed, TypeOK
  <1>8. PauseKnown'
    <2>1. ASSUME NEW g \in Generator, InFlight(g), NEW d \in DOMAIN gen'[g].src,
                 NEW k \in gen'[g].src[d].habits \ gen'[g].missed, NEW p \in open_pause(k)'
          PROVE  d < p[1]
      <3>1. /\ gen'[g].src = gen[g].src /\ gen[g].missed \subseteq gen'[g].missed
            /\ gen[g].src \in DayViews /\ gen[g] \in GenRow
        BY <1>0, <1>2, <2>1, GenParts, GenFields DEF Kept
      <3>2. k \in Habit \ {h}
        BY <1>2, <3>1, ViewFields
      <3>3. QED
        BY <1>0, <1>6, <2>1, <3>1, <3>2 DEF PauseKnown
    <2>2. \A g \in Generator : InFlight(g)' <=> InFlight(g)
      BY <1>0, <1>2, KeptSound
    <2>3. QED
      BY <2>1, <2>2 DEF PauseKnown
  <1>9. PausedDaysEmpty'
    <2>1. ASSUME NEW a \in Active', a.source \in Habit, ~ a.missed, a.status = "Planned",
                 a.start > now, NEW p \in open_pause(a.source)', a.date >= p[1]
          PROVE  moved[Key(a)] # NoDate
      <3>1. a \in Active /\ a \notin Future(h, from)
        BY <1>3
      <3>2. a.source # h
        BY <1>6, <2>1, <3>1 DEF Future
      <3>3. QED
        BY <1>0, <1>6, <2>1, <3>1, <3>2 DEF PausedDaysEmpty
    <2>2. QED
      BY <1>1, <2>1 DEF PausedDaysEmpty
  <1>10. QED
    BY <1>1, <1>2, <1>3, <1>7, <1>8, <1>9, QuietRest DEF IInv

(* Replacing an active action by one of the same occurrence.                  *)
LEMMA PutStep ==
  ASSUME IInv, NEW a \in Active, NEW b \in ActRow, b.live, Key(b) = Key(a), b.missed = a.missed,
         Put(a, b), Request, UNCHANGED <<now, pauses, template, entry, instances, gen>>,
         removed' \subseteq removed, moved' \in [Source \X Day -> Instant \cup {NoDate}],
         \A k \in Source \X Day : k # Key(a) => moved'[k] = moved[k],
         b.status # "Planned" \/ moved'[Key(a)] # NoDate
  PROVE  IInv'
  <1>0. /\ TypeOK /\ Rows /\ GenSound /\ Reserved /\ CancelKnown /\ PauseKnown
        /\ OneActive /\ NeverRegenerated /\ PausedDaysEmpty
    BY DEF IInv
  <1>1. actions' = (actions \ {a}) \cup {b} /\ a \in actions /\ actions \subseteq ActRow
    BY <1>0 DEF Put, Active, Rows
  <1>2. actions' \subseteq ActRow /\ IsFiniteSet(actions')
    BY <1>0, PutTyped
  <1>3. Active' = (Active \ {a}) \cup {b}
    BY <1>1 DEF Active
  <1>4. ActiveKeys' = ActiveKeys
    BY <1>3 DEF ActiveKeys
  <1>5. TypeOK'
    <2>1. \A x \in actions' : Key(x) \in Source \X Day /\ x.nr \in Nat
      BY <1>2, ActFields
    <2>2. edits' \in 0..MaxEdits
      BY <1>0, RequestTyped
    <2>3. QED
      BY <1>0, <2>1, <2>2 DEF TypeOK, Instant
  <1>6. Rows'
    BY <1>0, <1>2 DEF Rows
  <1>7. Kept
    BY <1>0, SameKeeps
  <1>8. /\ GenSound' /\ \A g \in Generator : Written(g)' = Written(g)
        /\ \A g \in Generator : InFlight(g)' <=> InFlight(g)
    BY <1>0, <1>7, KeptSound
  <1>9. Reserved'
    BY <1>0, <1>4, <1>8 DEF Reserved
  <1>10. CancelKnown'
    BY <1>0, <1>8 DEF CancelKnown
  <1>11. PauseKnown'
    <2>1. \A h \in Habit : open_pause(h)' \subseteq open_pause(h)
      BY DEF open_pause
    <2>2. QED
      BY <1>0, <1>7, <2>1, PauseKept
  <1>12. OneActive'
    <2>1. \A x \in Active \ {a} : Key(x) # Key(a)
      BY <1>0 DEF OneActive
    <2>2. QED
      BY <1>0, <1>3, <2>1 DEF OneActive
  <1>13. NeverRegenerated'
    BY <1>0, <1>3 DEF NeverRegenerated
  <1>14. PausedDaysEmpty'
    <2>1. ASSUME NEW x \in Active', x.source \in Habit, ~ x.missed, x.status = "Planned",
                 x.start > now, NEW p \in open_pause(x.source), x.date >= p[1]
          PROVE  moved'[Key(x)] # NoDate
      <3>1. CASE x = b
        BY <2>1, <3>1
      <3>2. CASE x \in Active \ {a}
        <4>1. moved[Key(x)] # NoDate
          BY <1>0, <2>1, <3>2 DEF PausedDaysEmpty
        <4>2. Key(x) # Key(a) /\ Key(x) \in Source \X Day
          BY <1>0, <1>1, <3>2, ActFields DEF OneActive, Active
        <4>3. QED
          BY <4>1, <4>2
      <3>3. QED
        BY <1>3, <3>1, <3>2
    <2>2. QED
      BY <2>1 DEF PausedDaysEmpty, open_pause
  <1>15. QED
    BY <1>5, <1>6, <1>8, <1>9, <1>10, <1>11, <1>12, <1>13, <1>14 DEF IInv

LEMMA MovedTyped ==
  TypeOK => moved \in [Source \X Day -> Instant \cup {NoDate}]
  BY DEF TypeOK, Instant

LEMMA RescheduleStep ==
  ASSUME IInv, NEW a \in Active, NEW d \in Day, NEW slot \in 0..(Slots - 1), reschedule(a, d, slot)
  PROVE  IInv'
  <1> DEFINE start == d * Slots + slot
             b == [a EXCEPT !.date = d, !.start = start]
  <1>0. TypeOK /\ Rows /\ a \in ActRow /\ a.live
    BY DEF IInv, Rows, Active
  <1>1. /\ removed' = (IF a.source \in Habit THEN removed \ {Key(a)} ELSE removed)
        /\ moved' = [moved EXCEPT ![Key(a)] = start] /\ Put(a, b) /\ Request
        /\ UNCHANGED <<now, goal, habit, pauses, template, entry, instances, gen>>
    BY DEF reschedule, definitions
  <1>2. start \in Instant /\ start # NoDate
    BY InstantOf
  <1> HIDE DEF start
  <1>3. b \in ActRow /\ b.live /\ Key(b) = Key(a) /\ b.missed = a.missed
    BY <1>0, <1>2 DEF ActRow, Key
  <1>4. Key(a) \in Source \X Day
    BY <1>0, ActFields
  <1> HIDE DEF b
  <1>5. /\ moved' \in [Source \X Day -> Instant \cup {NoDate}] /\ moved'[Key(a)] # NoDate
        /\ \A k \in Source \X Day : k # Key(a) => moved'[k] = moved[k]
    BY <1>0, <1>1, <1>2, <1>4, MovedTyped
  <1>6. removed' \subseteq removed
    BY <1>1
  <1>7. QED
    BY <1>1, <1>3, <1>5, <1>6, PutStep

LEMMA TransitionStep ==
  ASSUME IInv, NEW a \in Active, NEW new \in {"Started", "Completed", "Skipped"},
         transition(a, new)
  PROVE  IInv'
  <1> DEFINE b == [a EXCEPT !.status = new]
  <1>0. TypeOK /\ Rows /\ a \in ActRow /\ a.live
    BY DEF IInv, Rows, Active
  <1>1. /\ Put(a, b) /\ Request
        /\ UNCHANGED <<now, goal, habit, pauses, template, entry, removed, moved, instances, gen>>
    BY DEF transition, definitions
  <1>2. b \in ActRow /\ b.live /\ Key(b) = Key(a) /\ b.missed = a.missed /\ b.status # "Planned"
    BY <1>0 DEF ActRow, Key
  <1> HIDE DEF b
  <1>3. /\ moved' \in [Source \X Day -> Instant \cup {NoDate}] /\ removed' \subseteq removed
        /\ \A k \in Source \X Day : k # Key(a) => moved'[k] = moved[k]
    BY <1>0, <1>1, MovedTyped
  <1>4. QED
    BY <1>1, <1>2, <1>3, PutStep

(* cancel() tells the generations that have read the overrides of the day.    *)
LEMMA CancelTells ==
  ASSUME Rows, NEW a \in ActRow, cancel(a)
  PROVE  Kept /\ \A g \in Generator :
                   gen[g] \in GenRow /\ ~ Unread(g, a.occ) =>
                     /\ a.source \in gen'[g].missed
                     /\ Touched({a.source} \cap Entry) \subseteq gen'[g].missed
  <1> DEFINE S == Touched({a.source} \cap Entry) \cup {a.source}
             T == Touched({a.source} \cap Entry)
  <1>1. gen' = [g \in Generator |->
                  IF InFlight(g) /\ ~ Unread(g, a.occ)
                  THEN [gen[g] EXCEPT !.missed = @ \cup T \cup {a.source}] ELSE gen[g]]
    BY DEF cancel
  <1>2. S \in SUBSET Source /\ a.source \in S /\ T \subseteq S
    BY TouchedSources, ActFields
  <1>3. ASSUME NEW g \in Generator
        PROVE  /\ gen'[g] \in {Idle, Done} \cup GenRow /\ gen'[g].pc = gen[g].pc
               /\ gen'[g] \in GenRow <=> gen[g] \in GenRow
               /\ gen[g] \in GenRow =>
                    /\ gen'[g].days = gen[g].days /\ gen'[g].src = gen[g].src
                    /\ gen'[g].plan = gen[g].plan /\ gen'[g].rows = gen[g].rows
                    /\ gen'[g].made = gen[g].made /\ gen[g].missed \subseteq gen'[g].missed
                    /\ ~ Unread(g, a.occ) => a.source \in gen'[g].missed /\ T \subseteq gen'[g].missed
    <2>1. CASE gen[g] \in GenRow /\ ~ Unread(g, a.occ)
      <3>1. gen'[g] = [gen[g] EXCEPT !.missed = @ \cup T \cup {a.source}]
        BY <1>1, <2>1, GenParts
      <3>2. gen[g].missed \cup T \cup {a.source} = gen[g].missed \cup S
        OBVIOUS
      <3>3. gen'[g] = [gen[g] EXCEPT !.missed = @ \cup S]
        BY <3>1, <3>2
      <3> HIDE DEF S, T
      <3>4. QED
        BY <1>2, <2>1, <3>3, TellsOne
    <2>2. CASE ~ (gen[g] \in GenRow /\ ~ Unread(g, a.occ))
      <3>1. gen'[g] = gen[g]
        BY <1>1, <2>2, GenParts
      <3>2. QED
        BY <2>2, <3>1, GenParts
    <2>3. QED
      BY <2>1, <2>2
  <1>4. gen' \in [Generator -> {Idle, Done} \cup GenRow]
    BY <1>1, <1>3
  <1>5. QED
    BY <1>3, <1>4 DEF Kept

LEMMA CancelStep ==
  ASSUME IInv, NEW a \in Active, cancel(a) PROVE IInv'
  <1> DEFINE b == [a EXCEPT !.live = FALSE]
  <1>0. /\ TypeOK /\ Rows /\ GenSound /\ Reserved /\ CancelKnown /\ PauseKnown
        /\ OneActive /\ NeverRegenerated /\ PausedDaysEmpty
        /\ a \in ActRow /\ actions \subseteq ActRow
    BY DEF IInv, Rows, Active
  <1>1. /\ removed' = removed \cup {Key(a)} /\ moved' = [moved EXCEPT ![Key(a)] = NoDate]
        /\ Put(a, b) /\ Request
        /\ UNCHANGED <<now, goal, habit, pauses, template, entry, instances>>
    BY DEF cancel, definitions
  <1>2. Kept /\ \A g \in Generator :
                  gen[g] \in GenRow /\ ~ Unread(g, a.occ) => a.source \in gen'[g].missed
    BY <1>0, CancelTells
  <1>3. b \in ActRow /\ ~ b.live
    BY <1>0, Ended
  <1> HIDE DEF b
  <1>4. actions' \subseteq ActRow /\ IsFiniteSet(actions')
    BY <1>0, <1>1, <1>3, PutTyped
  <1>5. Active' \subseteq Active \ {a}
    BY <1>1, <1>3 DEF Active, Put
  <1>6. Key(a) \in Source \X Day /\ Key(a) \in ActiveKeys /\ Key(a) = <<a.source, a.occ>>
    BY <1>0, ActFields DEF ActiveKeys, Key
  <1>7. /\ moved' \in [Source \X Day -> Instant \cup {NoDate}]
        /\ \A k \in Source \X Day : k # Key(a) => moved'[k] = moved[k]
    BY <1>0, <1>1, <1>6, MovedTyped
  <1>8. \A x \in Active' : x \in Active /\ Key(x) # Key(a) /\ Key(x) \in Source \X Day
    BY <1>0, <1>5, ActFields DEF OneActive, Active
  <1>9. TypeOK'
    <2>1. \A x \in actions' : Key(x) \in Source \X Day /\ x.nr \in Nat
      BY <1>4, ActFields
    <2>2. edits' \in 0..MaxEdits
      BY <1>0, <1>1, RequestTyped
    <2>3. removed' \subseteq Source \X Day
      BY <1>0, <1>1, <1>6 DEF TypeOK
    <2>4. QED
      BY <1>0, <1>1, <1>7, <2>1, <2>2, <2>3 DEF TypeOK, Instant
  <1>10. Rows'
    BY <1>0, <1>1, <1>2, <1>4 DEF Rows, Kept
  <1>11. /\ GenSound' /\ \A g \in Generator : Written(g)' = Written(g)
         /\ \A g \in Generator : InFlight(g)' <=> InFlight(g)
    BY <1>0, <1>2, KeptSound
  <1>12. Reserved'
    <2>1. ActiveKeys' \subseteq ActiveKeys
      BY <1>5 DEF ActiveKeys
    <2>2. QED
      BY <1>0, <1>11, <2>1 DEF Reserved
  <1>13. CancelKnown'
    <2>1. ASSUME NEW g \in Generator, InFlight(g)
          PROVE  /\ \A r \in gen'[g].rows : Key(r) \in removed' => r.source \in gen'[g].missed
                 /\ \A p \in gen'[g].plan :
                      <<p.source, gen'[g].days[1]>> \in removed' => p.source \in gen'[g].missed
      <3>1. gen[g] \in GenRow
        BY <1>0, <2>1, GenParts
      <3>2. /\ gen'[g].days = gen[g].days /\ gen'[g].plan = gen[g].plan
            /\ gen'[g].rows = gen[g].rows /\ gen[g].missed \subseteq gen'[g].missed
        BY <1>2, <3>1 DEF Kept
      <3>3. ASSUME NEW r \in gen[g].rows, Key(r) \in removed' PROVE r.source \in gen'[g].missed
        <4>1. Key(r) \in Written(g)
          BY <2>1 DEF Written
        <4>2. Key(r) # Key(a)
          BY <1>0, <1>6, <4>1 DEF Reserved
        <4>3. QED
          BY <1>0, <1>1, <2>1, <3>2, <3>3, <4>2 DEF CancelKnown
      <3>4. ASSUME NEW p \in gen[g].plan, <<p.source, gen[g].days[1]>> \in removed'
            PROVE  p.source \in gen'[g].missed
        <4>1. CASE <<p.source, gen[g].days[1]>> = Key(a)
          <5>1. p.source = a.source /\ gen[g].days[1] = a.occ
            BY <1>6, <4>1
          <5>2. /\ gen[g].pc = "planned" /\ gen[g].days # <<>> /\ gen[g].days \in Seq(Day)
                /\ \A i, j \in 1..Len(gen[g].days) :
                     gen[g].days[i] = gen[g].days[j] => i = j
            BY <1>0, <2>1, <3>1, GenFields DEF GenSound, PlanSound, DaysSound
          <5>3. 1 \in 1..Len(gen[g].days)
            BY <5>2
          <5>4. ~ Unread(g, a.occ)
            BY <5>1, <5>2, <5>3 DEF Unread
          <5>5. QED
            BY <1>2, <3>1, <5>1, <5>4
        <4>2. CASE <<p.source, gen[g].days[1]>> \in removed
          BY <1>0, <2>1, <3>2, <4>2 DEF CancelKnown
        <4>3. QED
          BY <1>1, <3>4, <4>1, <4>2
      <3>5. QED
        BY <3>2, <3>3, <3>4
    <2>2. QED
      BY <1>11, <2>1 DEF CancelKnown
  <1>14. PauseKnown'
    <2>1. \A h \in Habit : open_pause(h)' \subseteq open_pause(h)
      BY <1>1 DEF open_pause
    <2>2. QED
      BY <1>0, <1>2, <2>1, PauseKept
  <1>15. OneActive'
    BY <1>0, <1>8 DEF OneActive
  <1>16. NeverRegenerated'
    BY <1>0, <1>1, <1>8 DEF NeverRegenerated
  <1>17. PausedDaysEmpty'
    <2>1. ASSUME NEW x \in Active', x.source \in Habit, ~ x.missed, x.status = "Planned",
                 x.start > now, NEW p \in open_pause(x.source), x.date >= p[1]
          PROVE  moved'[Key(x)] # NoDate
      <3>1. moved[Key(x)] # NoDate
        BY <1>0, <1>8, <2>1 DEF PausedDaysEmpty
      <3>2. QED
        BY <1>7, <1>8, <3>1
    <2>2. QED
      BY <1>1, <2>1 DEF PausedDaysEmpty, open_pause
  <1>18. QED
    BY <1>9, <1>10, <1>11, <1>12, <1>13, <1>14, <1>15, <1>16, <1>17 DEF IInv

(* One generation goes a step further, or ends without its rows.              *)
LEMMA GenStep ==
  ASSUME IInv, NEW g \in Generator, NEW r \in {Done} \cup GenRow, gen' = [gen EXCEPT ![g] = r],
         UNCHANGED <<now, goal, habit, pauses, template, entry, removed, moved, instances,
                     actions, edits>>,
         r \in GenRow => /\ DaysSound(r) /\ PlanSound(r) /\ RowsSound(r)
                         /\ \A a \in r.rows :
                              /\ Key(a) \notin ActiveKeys
                              /\ \A o \in Generator \ {g} : Key(a) \notin Written(o)
                              /\ Key(a) \in removed => a.source \in r.missed
                         /\ \A p \in r.plan :
                              <<p.source, r.days[1]>> \in removed => p.source \in r.missed
                         /\ \A d \in DOMAIN r.src : \A h \in r.src[d].habits \ r.missed :
                              \A p \in open_pause(h) : d < p[1]
  PROVE  IInv'
  <1>0. /\ TypeOK /\ Rows /\ GenSound /\ Reserved /\ CancelKnown /\ PauseKnown
        /\ OneActive /\ NeverRegenerated /\ PausedDaysEmpty
    BY DEF IInv
  <1>1. TypeOK' /\ OneActive' /\ NeverRegenerated'
    BY <1>0 DEF TypeOK, OneActive, NeverRegenerated, Active
  <1>2. PausedDaysEmpty'
    BY <1>0 DEF PausedDaysEmpty, Active, open_pause
  <1>3. gen'[g] = r /\ \A o \in Generator \ {g} : gen'[o] = gen[o]
    BY <1>0 DEF Rows
  <1>4. Rows'
    BY <1>0 DEF Rows
  <1>5. /\ InFlight(g)' <=> r \in GenRow
        /\ \A o \in Generator \ {g} : InFlight(o)' <=> InFlight(o)
    BY <1>3 DEF InFlight, Idle, Done, GenRow
  <1>6. GenSound'
    BY <1>0, <1>3, <1>5 DEF GenSound
  <1>7. /\ \A o \in Generator \ {g} : Written(o)' = Written(o)
        /\ Written(g)' = IF r \in GenRow THEN {Key(a) : a \in r.rows} ELSE {}
    BY <1>3, <1>5 DEF Written
  <1>8. Reserved'
    <2>1. ActiveKeys' = ActiveKeys
      BY DEF ActiveKeys, Active
    <2>2. \A k \in Written(g)' : k \notin ActiveKeys /\ \A o \in Generator \ {g} : k \notin Written(o)
      BY <1>7
    <2>3. ASSUME NEW o \in Generator \ {g}, NEW k \in Written(o)
          PROVE  k \notin ActiveKeys /\ \A q \in Generator \ {o} : k \notin Written(q)'
      BY <1>0, <1>7, <2>2 DEF Reserved
    <2>4. QED
      BY <1>7, <2>1, <2>2, <2>3 DEF Reserved
  <1>9. CancelKnown'
    BY <1>0, <1>3, <1>5 DEF CancelKnown
  <1>10. PauseKnown'
    <2>1. ASSUME NEW o \in Generator, InFlight(o)', NEW d \in DOMAIN gen'[o].src,
                 NEW h \in gen'[o].src[d].habits \ gen'[o].missed, NEW p \in open_pause(h)'
          PROVE  d < p[1]
      <3>1. open_pause(h)' = open_pause(h)
        BY DEF open_pause
      <3>2. QED
        BY <1>0, <1>3, <1>5, <2>1, <3>1 DEF PauseKnown
    <2>2. QED
      BY <2>1 DEF PauseKnown
  <1>11. QED
    BY <1>1, <1>2, <1>4, <1>6, <1>8, <1>9, <1>10 DEF IInv

LEMMA RollbackStep ==
  ASSUME IInv, NEW g \in Generator, Rollback(g) PROVE IInv'
  <1>1. Done \notin GenRow
    BY DEF Done, GenRow
  <1>2. QED
    BY <1>1, GenStep DEF Rollback, definitions

(* The definitions as a generation reads them.                                *)
LEMMA SourcesSound ==
  ASSUME TypeOK, NEW d
  PROVE  LET v == Sources(d)
         IN  /\ v \in DayView /\ \A x, y \in v.entries : x.id = y.id => x = y
             /\ \A h \in v.habits : ~ in_pause(h, d)
  <1> DEFINE L == {e \in Entry : /\ LiveEntry(e) /\ LiveTemplate(entry[e].template)
                                 /\ weekday(d) \in template[entry[e].template].days}
             V(e) == [id |-> e, template |-> entry[e].template, habit |-> entry[e].habit]
             E == {V(e) : e \in L}
             H == {h \in Habit : LiveHabit(h) /\ habit_scheduled_on(h, d)}
  <1>1. Sources(d) = [entries |-> E, habits |-> H]
    BY DEF Sources
  <1>2. \A e \in L : e \in Entry /\ entry[e].template \in Template /\ entry[e].habit \in Habit \cup {NoHabit}
    BY DEF LiveEntry, TypeOK
  <1> HIDE DEF L
  <1>3. \A e \in L : V(e) \in EntryView /\ V(e).id = e
    BY <1>2 DEF EntryView
  <1> HIDE DEF V
  <1>4. E \subseteq EntryView /\ \A x, y \in E : x.id = y.id => x = y
    BY <1>3
  <1>5. H \subseteq Habit /\ \A h \in H : ~ in_pause(h, d)
    BY DEF habit_scheduled_on
  <1> HIDE DEF E, H
  <1>6. QED
    BY <1>1, <1>4, <1>5 DEF DayView

LEMMA LoadStep ==
  ASSUME IInv, NEW g \in Generator, Load(g) PROVE IInv'
  <1> DEFINE ds == local_dates(g)
             v == [d \in Range(ds) |-> Sources(d)]
             r == [pc |-> "loaded", days |-> ds, src |-> v, plan |-> {}, rows |-> {},
                   made |-> {}, missed |-> {}]
  <1>0. TypeOK /\ Rows
    BY DEF IInv
  <1>1. /\ gen' = [gen EXCEPT ![g] = r]
        /\ UNCHANGED <<now, goal, habit, pauses, template, entry, removed, moved, instances,
                       actions, edits>>
    BY DEF Load, definitions
  <1>2. /\ Dates[g] \in Seq({0, 1}) /\ Dates[g] # <<>>
        /\ \A i, j \in 1..Len(Dates[g]) : Dates[g][i] = Dates[g][j] => i = j
    BY IdAssumption
  <1>3. today \in Nat /\ today \in Day /\ today + 1 \in Day
    BY <1>0, TodayIsDay DEF TypeOK
  <1>4. ds = [i \in 1..Len(Dates[g]) |-> today + Dates[g][i]]
    BY DEF local_dates
  <1>5. \A i \in 1..Len(Dates[g]) : Dates[g][i] \in {0, 1} /\ today + Dates[g][i] \in Day
    BY <1>2, <1>3
  <1>6. ds \in Seq(Day) /\ Len(ds) = Len(Dates[g]) /\ ds # <<>>
    BY <1>2, <1>4, <1>5
  <1>7. \A i \in 1..Len(ds) : ds[i] = today + Dates[g][i] /\ ds[i] \in Range(ds)
    BY <1>4, <1>6 DEF Range
  <1>8. \A i, j \in 1..Len(ds) : ds[i] = ds[j] => i = j
    BY <1>2, <1>3, <1>5, <1>6, <1>7
  <1>9. Range(ds) \in SUBSET Day
    BY <1>6 DEF Range
  <1> HIDE DEF ds
  <1>10. v \in [Range(ds) -> DayView]
    BY <1>0, SourcesSound
  <1>11. v \in DayViews /\ DOMAIN v = Range(ds)
    BY <1>9, <1>10 DEF DayViews
  <1>12. \A d \in DOMAIN v : /\ \A x, y \in v[d].entries : x.id = y.id => x = y
                             /\ \A h \in v[d].habits : h \in Habit /\ ~ in_pause(h, d)
    <2>1. ASSUME NEW d \in Range(ds)
          PROVE  /\ \A x, y \in v[d].entries : x.id = y.id => x = y
                 /\ \A h \in v[d].habits : h \in Habit /\ ~ in_pause(h, d)
      <3>1. v[d] = Sources(d)
        OBVIOUS
      <3>2. QED
        BY <1>0, <3>1, SourcesSound DEF DayView
    <2>2. QED
      BY <2>1, <1>11
  <1>13. \A d \in DOMAIN v : \A h \in v[d].habits : \A p \in open_pause(h) : d < p[1]
    <2>1. ASSUME NEW d \in DOMAIN v, NEW h \in v[d].habits, NEW p \in open_pause(h)
          PROVE  d < p[1]
      <3>1. d \in Nat /\ h \in Habit
        BY <1>9, <1>11, <1>12, Numbers
      <3>2. p \in pauses[h] /\ p[2] = NoDate /\ p[1] \in Nat
        BY <1>0, <3>1 DEF open_pause, Rows
      <3>3. ~ (p[1] <= d)
        BY <1>12, <3>2 DEF in_pause
      <3>4. QED
        BY <3>1, <3>2, <3>3
    <2>2. QED
      BY <2>1
  <1> HIDE DEF v
  <1>14. /\ r \in GenRow /\ r.pc = "loaded" /\ r.days = ds /\ r.src = v /\ r.plan = {}
         /\ r.rows = {} /\ r.missed = {}
    BY <1>6, <1>11 DEF GenRow
  <1> HIDE DEF r
  <1>15. DaysSound(r) /\ PlanSound(r) /\ RowsSound(r)
    BY <1>6, <1>7, <1>8, <1>11, <1>12, <1>14 DEF DaysSound, PlanSound, RowsSound
  <1>16. QED
    BY <1>1, <1>13, <1>14, <1>15, GenStep

(* What plan_occurrences() plans: one row for each source, taken from what    *)
(* was read, and none that is cancelled.                                      *)
LEMMA PlanFacts ==
  ASSUME TypeOK, NEW v, v.entries \subseteq EntryView, v.habits \subseteq Habit, NEW d \in Day,
         \A x, y \in v.entries : x.id = y.id => x = y
  PROVE  LET P == plan_occurrences(v, d)
         IN  /\ P \subseteq PlanRow /\ \A p, q \in P : p.source = q.source => p = q
             /\ \A p \in P : p.source \in Habit => p.source \in v.habits
             /\ \A p \in P : <<p.source, d>> \notin removed
  <1> DEFINE kept == {x \in v.entries : ~ Removed(x.id, d)}
             routine == {x.habit : x \in kept}
             free == {h \in v.habits \ routine : ~ Removed(h, d)}
             E(x) == [source |-> x.id, start |-> Start(x.id, d), template |-> {x.template}]
             F(h) == [source |-> h, start |-> Start(h, d), template |-> {}]
             P == plan_occurrences(v, d)
  <1>1. P = {E(x) : x \in kept} \cup {F(h) : h \in free}
    BY DEF plan_occurrences
  <1>2. moved \in [Source \X Day -> Instant \cup {NoDate}]
    BY MovedTyped
  <1>3. ASSUME NEW x \in kept
        PROVE  /\ E(x) \in PlanRow /\ E(x).source = x.id /\ x.id \in Entry
               /\ <<x.id, d>> \notin removed /\ x \in v.entries
    <2>1. /\ x.id \in Entry /\ x.template \in Template /\ x.id \in Source /\ x \in v.entries
          /\ ~ Removed(x.id, d)
      BY DEF EntryView, Source
    <2>2. Start(x.id, d) \in Instant
      BY <1>2, <2>1, StartTyped
    <2>3. QED
      BY <2>1, <2>2 DEF PlanRow, Removed
  <1>4. ASSUME NEW h \in free
        PROVE  /\ F(h) \in PlanRow /\ F(h).source = h /\ h \in Habit /\ h \in v.habits
               /\ <<h, d>> \notin removed
    <2>1. h \in Habit /\ h \in Source /\ h \in v.habits /\ ~ Removed(h, d)
      BY DEF Source
    <2>2. Start(h, d) \in Instant
      BY <1>2, <2>1, StartTyped
    <2>3. QED
      BY <2>1, <2>2 DEF PlanRow, Removed
  <1>5. Habit \cap Entry = {}
    BY IdAssumption
  <1> HIDE DEF kept, free, E, F, P
  <1>6. P \subseteq PlanRow
    BY <1>1, <1>3, <1>4
  <1>7. \A p \in P : (p.source \in Habit => p.source \in v.habits) /\ <<p.source, d>> \notin removed
    <2>1. ASSUME NEW x \in kept
          PROVE  E(x).source \notin Habit /\ <<E(x).source, d>> \notin removed
      BY <1>3, <1>5
    <2>2. ASSUME NEW h \in free
          PROVE  F(h).source \in v.habits /\ <<F(h).source, d>> \notin removed
      BY <1>4
    <2>3. QED
      BY <1>1, <2>1, <2>2
  <1>8. \A p, q \in P : p.source = q.source => p = q
    <2>1. ASSUME NEW p \in P, NEW q \in P, p.source = q.source PROVE p = q
      <3>1. CASE \E x \in kept : p = E(x)
        <4>1. PICK x \in kept : p = E(x)
          BY <3>1
        <4>2. q.source \in Entry
          BY <2>1, <4>1, <1>3
        <4>3. PICK y \in kept : q = E(y)
          BY <4>2, <1>1, <1>4, <1>5
        <4>4. x.id = y.id /\ x \in v.entries /\ y \in v.entries
          BY <2>1, <4>1, <4>3, <1>3
        <4>5. x = y
          BY <4>4
        <4>6. QED
          BY <4>1, <4>3, <4>5
      <3>2. CASE \E h \in free : p = F(h)
        <4>1. PICK h \in free : p = F(h)
          BY <3>2
        <4>2. q.source \in Habit
          BY <2>1, <4>1, <1>4
        <4>3. PICK k \in free : q = F(k)
          BY <4>2, <1>1, <1>3, <1>5
        <4>4. h = k
          BY <2>1, <4>1, <4>3, <1>4
        <4>5. QED
          BY <4>1, <4>3, <4>4
      <3>3. QED
        BY <1>1, <3>1, <3>2
    <2>2. QED
      BY <2>1
  <1>9. QED
    BY <1>6, <1>7, <1>8 DEF P

LEMMA LoadOverridesStep ==
  ASSUME IInv, NEW g \in Generator, _load_overrides(g) PROVE IInv'
  <1> DEFINE q == gen[g]
             d == Head(q.days)
             P == plan_occurrences(q.src[d], d)
             r == [[q EXCEPT !.pc = "planned"] EXCEPT !.plan = P]
  <1>0. TypeOK /\ Rows /\ GenSound /\ Reserved /\ CancelKnown /\ PauseKnown
    BY DEF IInv
  <1>1. /\ q.pc = "loaded" /\ gen' = [gen EXCEPT ![g].pc = "planned", ![g].plan = P]
        /\ UNCHANGED <<now, goal, habit, pauses, template, entry, removed, moved, instances,
                       actions, edits>>
    BY DEF _load_overrides, definitions
  <1>2. q \in GenRow /\ InFlight(g)
    BY <1>0, <1>1, GenParts
  <1>3. q.days \in Seq(Day) /\ q.days # <<>> /\ q.src \in DayViews
    BY <1>0, <1>1, <1>2, GenFields DEF GenSound, DaysSound
  <1>4. d = q.days[1] /\ 1 \in 1..Len(q.days)
    BY <1>3
  <1>5. d \in DOMAIN q.src
    BY <1>0, <1>2, <1>4 DEF GenSound, DaysSound
  <1>6. d \in Day /\ q.src[d].entries \subseteq EntryView /\ q.src[d].habits \subseteq Habit
    BY <1>3, <1>5, ViewFields
  <1>7. \A x, y \in q.src[d].entries : x.id = y.id => x = y
    BY <1>0, <1>2, <1>5 DEF GenSound, PlanSound
  <1>8. /\ P \subseteq PlanRow /\ \A x, y \in P : x.source = y.source => x = y
        /\ \A x \in P : x.source \in Habit => x.source \in q.src[d].habits
        /\ \A x \in P : <<x.source, d>> \notin removed
    <2> HIDE DEF d
    <2> QED BY <1>0, <1>6, <1>7, PlanFacts
  <1>9. gen' = [gen EXCEPT ![g] = r]
    BY <1>0, <1>1 DEF Rows
  <1> HIDE DEF P, d
  <1>10. /\ r \in GenRow /\ r.pc = "planned" /\ r.days = q.days /\ r.src = q.src /\ r.plan = P
         /\ r.rows = q.rows /\ r.missed = q.missed
    BY <1>2, <1>8 DEF GenRow
  <1> HIDE DEF r
  <1>11. DaysSound(r)
    BY <1>0, <1>1, <1>2, <1>10 DEF GenSound, DaysSound
  <1>12. PlanSound(r)
    BY <1>0, <1>2, <1>4, <1>8, <1>10 DEF GenSound, PlanSound
  <1>13. RowsSound(r)
    BY <1>0, <1>2, <1>10 DEF GenSound, RowsSound
  <1>14. \A a \in r.rows : /\ Key(a) \notin ActiveKeys
                           /\ \A o \in Generator \ {g} : Key(a) \notin Written(o)
                           /\ Key(a) \in removed => a.source \in r.missed
    <2>1. \A a \in q.rows : Key(a) \in Written(g)
      BY <1>2 DEF Written
    <2>2. QED
      BY <1>0, <1>2, <1>10, <2>1 DEF Reserved, CancelKnown
  <1>15. \A p \in r.plan : <<p.source, r.days[1]>> \notin removed
    BY <1>4, <1>8, <1>10
  <1>16. \A e \in DOMAIN r.src : \A h \in r.src[e].habits \ r.missed :
           \A p \in open_pause(h) : e < p[1]
    BY <1>0, <1>2, <1>10 DEF PauseKnown
  <1>17. QED
    BY <1>1, <1>9, <1>10, <1>11, <1>12, <1>13, <1>14, <1>15, <1>16, GenStep

LEMMA PersistStep ==
  ASSUME IInv, NEW g \in Generator, _persist(g) PROVE IInv'
  <1> DEFINE q == gen[g]
             d == Head(q.days)
             new == {p \in q.plan : ~ Taken(p.source, d)}
             R(p) == [source |-> p.source, occ |-> d, date |-> d, start |-> p.start,
                      status |-> "Planned", live |-> TRUE]
             N == {R(p) : p \in new}
             M == UNION {p.template \X {d} : p \in q.plan}
             pc == IF Len(q.days) = 1 THEN "written" ELSE "loaded"
             r == [q EXCEPT !.pc = pc, !.days = Tail(@), !.plan = {}, !.made = @ \cup M,
                            !.rows = @ \cup N]
  <1>0. TypeOK /\ Rows /\ GenSound /\ Reserved /\ CancelKnown /\ PauseKnown
    BY DEF IInv
  <1>1. /\ q.pc = "planned" /\ ~ Blocked(g)
        /\ gen' = [gen EXCEPT ![g].pc = pc, ![g].days = Tail(@), ![g].plan = {},
                              ![g].made = @ \cup M, ![g].rows = @ \cup N]
        /\ UNCHANGED <<now, goal, habit, pauses, template, entry, removed, moved, instances,
                       actions, edits>>
    BY DEF _persist, definitions
  <1>2. q \in GenRow /\ InFlight(g) /\ DaysSound(q) /\ PlanSound(q) /\ RowsSound(q)
    BY <1>0, <1>1, GenParts DEF GenSound
  <1>3. /\ q.days \in Seq(Day) /\ q.days # <<>> /\ q.src \in DayViews /\ q.plan \subseteq PlanRow
        /\ q.rows \subseteq NewRow /\ q.made \subseteq Template \X Day
    BY <1>1, <1>2, GenFields DEF DaysSound
  <1>4. d = q.days[1] /\ 1 \in 1..Len(q.days) /\ d \in Day /\ d \in DOMAIN q.src
    BY <1>2, <1>3 DEF DaysSound
  <1>5. gen' = [gen EXCEPT ![g] = r]
    BY <1>0, <1>1 DEF Rows
  <1> HIDE DEF d
  <1>6. M \subseteq Template \X Day
    <2>1. \A p \in q.plan : p.template \subseteq Template
      BY <1>3 DEF PlanRow
    <2>2. QED
      BY <1>4, <2>1
  <1>7. ASSUME NEW p \in q.plan
        PROVE  R(p) \in NewRow /\ R(p).source = p.source /\ R(p).occ = d /\ R(p).date = d
    <2>1. p.source \in Source /\ p.start \in Instant
      BY <1>3 DEF PlanRow
    <2>2. QED
      BY <1>4, <2>1 DEF NewRow
  <1>8. new \subseteq q.plan
    OBVIOUS
  <1>9. \A p \in new : <<p.source, d>> \notin ActiveKeys
    BY DEF Taken
  <1>10. \A p \in q.plan : \A o \in Generator \ {g} : <<p.source, d>> \notin Written(o)
    BY <1>1 DEF Blocked, d
  <1> HIDE DEF new, R, M
  <1>11. N \subseteq NewRow
    BY <1>7, <1>8
  <1>12. \A a \in N : \E p \in new : a = R(p) /\ a.source = p.source /\ a.occ = d /\ a.date = d
    BY <1>7, <1>8
  <1> HIDE DEF N
  <1> DEFINE t == Tail(q.days)
  <1>13. /\ t \in Seq(Day) /\ Len(t) = Len(q.days) - 1 /\ Len(q.days) \in Nat
         /\ \A i \in 1..Len(t) : t[i] = q.days[i + 1] /\ i + 1 \in 1..Len(q.days)
    BY <1>3
  <1>14. pc \in {"loaded", "written"} /\ (pc # "written" => t # <<>>)
    <2>1. Len(q.days) >= 1
      BY <1>4, <1>13
    <2>2. Len(q.days) # 1 => Len(t) # 0
      BY <1>13, <2>1
    <2> HIDE DEF t
    <2>3. Len(<<>>) = 0
      OBVIOUS
    <2>4. QED
      BY <2>2, <2>3
  <1> HIDE DEF t, pc
  <1>15. /\ r \in GenRow /\ r.pc = pc /\ r.days = t /\ r.src = q.src /\ r.plan = {}
         /\ r.rows = q.rows \cup N /\ r.missed = q.missed
    <2>1. r = [q EXCEPT !.pc = pc, !.days = t, !.plan = {}, !.made = @ \cup M, !.rows = @ \cup N]
      BY DEF t
    <2>2. q.made \cup M \in SUBSET (Template \X Day) /\ q.rows \cup N \in SUBSET NewRow
      BY <1>3, <1>6, <1>11
    <2> HIDE DEF r
    <2>3. QED
      BY <1>2, <1>13, <1>14, <2>1, <2>2 DEF GenRow
  <1> HIDE DEF r
  <1>16. DaysSound(r)
    <2>1. \A i, j \in 1..Len(t) : t[i] = t[j] => i = j
      <3>1. ASSUME NEW i \in 1..Len(t), NEW j \in 1..Len(t), t[i] = t[j] PROVE i = j
        <4>1. i + 1 \in 1..Len(q.days) /\ j + 1 \in 1..Len(q.days) /\ q.days[i + 1] = q.days[j + 1]
          BY <1>13, <3>1
        <4>2. i + 1 = j + 1
          BY <1>2, <4>1 DEF DaysSound
        <4>3. QED
          BY <4>2
      <3>2. QED
        BY <3>1
    <2>2. \A i \in 1..Len(t) : t[i] \in DOMAIN q.src
      BY <1>2, <1>13 DEF DaysSound
    <2>3. QED
      BY <1>14, <1>15, <2>1, <2>2 DEF DaysSound
  <1>17. PlanSound(r)
    BY <1>2, <1>15 DEF PlanSound
  <1>18. \A i \in 1..Len(t) : t[i] # d
    <2>1. ASSUME NEW i \in 1..Len(t), t[i] = d PROVE FALSE
      <3>1. i + 1 \in 1..Len(q.days) /\ q.days[i + 1] = q.days[1]
        BY <1>4, <1>13, <2>1
      <3>2. i + 1 = 1
        BY <1>2, <1>4, <3>1 DEF DaysSound
      <3>3. QED
        BY <3>2
    <2>2. QED
      BY <2>1
  <1>19. RowsSound(r)
    <2>1. ASSUME NEW a \in q.rows
          PROVE  /\ a.date = a.occ /\ a.occ \in DOMAIN q.src /\ a.occ # d
                 /\ \A i \in 1..Len(t) : t[i] # a.occ
                 /\ a.source \in Habit => a.source \in q.src[a.occ].habits
      BY <1>2, <1>4, <1>13 DEF RowsSound
    <2>2. ASSUME NEW a \in N
          PROVE  /\ a.date = a.occ /\ a.occ \in DOMAIN q.src /\ a.occ = d
                 /\ \A i \in 1..Len(t) : t[i] # a.occ
                 /\ a.source \in Habit => a.source \in q.src[a.occ].habits
      <3>1. PICK p \in new : a = R(p) /\ a.source = p.source /\ a.occ = d /\ a.date = d
        BY <1>12
      <3>2. p.source \in Habit => p.source \in q.src[d].habits
        BY <1>2, <1>4, <1>8 DEF PlanSound
      <3>3. QED
        BY <1>4, <1>18, <3>1, <3>2
    <2>3. ASSUME NEW a \in q.rows \cup N, NEW b \in q.rows \cup N, Key(a) = Key(b) PROVE a = b
      <3>1. a.source = b.source /\ a.occ = b.occ
        BY <2>3 DEF Key
      <3>2. CASE a \in q.rows
        BY <1>2, <2>1, <2>2, <2>3, <3>1, <3>2 DEF RowsSound
      <3>3. CASE a \in N
        <4>1. b \in N
          BY <2>1, <2>2, <3>1, <3>3
        <4>2. PICK x \in new : a = R(x) /\ a.source = x.source
          BY <1>12, <3>3
        <4>3. PICK y \in new : b = R(y) /\ b.source = y.source
          BY <1>12, <4>1
        <4>4. x = y
          BY <1>2, <1>8, <3>1, <4>2, <4>3 DEF PlanSound
        <4>5. QED
          BY <4>2, <4>3, <4>4
      <3>4. QED
        BY <3>2, <3>3
    <2>4. QED
      BY <1>15, <2>1, <2>2, <2>3 DEF RowsSound
  <1>20. \A a \in r.rows : /\ Key(a) \notin ActiveKeys
                           /\ \A o \in Generator \ {g} : Key(a) \notin Written(o)
                           /\ Key(a) \in removed => a.source \in r.missed
    <2>1. ASSUME NEW a \in q.rows
          PROVE  /\ Key(a) \notin ActiveKeys
                 /\ \A o \in Generator \ {g} : Key(a) \notin Written(o)
                 /\ Key(a) \in removed => a.source \in q.missed
      <3>1. Key(a) \in Written(g)
        BY <1>2 DEF Written
      <3>2. QED
        BY <1>0, <1>2, <3>1 DEF Reserved, CancelKnown
    <2>2. ASSUME NEW a \in N
          PROVE  /\ Key(a) \notin ActiveKeys
                 /\ \A o \in Generator \ {g} : Key(a) \notin Written(o)
                 /\ Key(a) \in removed => a.source \in q.missed
      <3>1. PICK p \in new : a.source = p.source /\ a.occ = d
        BY <1>12
      <3>2. Key(a) = <<p.source, d>> /\ p \in q.plan
        BY <1>8, <3>1 DEF Key
      <3>3. QED
        BY <1>0, <1>2, <1>4, <1>9, <1>10, <3>1, <3>2 DEF CancelKnown
    <2>3. QED
      BY <1>15, <2>1, <2>2
  <1>21. \A e \in DOMAIN r.src : \A h \in r.src[e].habits \ r.missed :
           \A p \in open_pause(h) : e < p[1]
    BY <1>0, <1>2, <1>15 DEF PauseKnown
  <1>22. QED
    BY <1>1, <1>5, <1>15, <1>16, <1>17, <1>19, <1>20, <1>21, GenStep

(* The rows of a generation are finitely many: one for each key.              *)
LEMMA RowsFinite ==
  ASSUME NEW r \in GenRow, RowsSound(r) PROVE IsFiniteSet(r.rows)
  <1> DEFINE f == [a \in r.rows |-> Key(a)]
  <1>1. r.rows \subseteq NewRow
    BY GenFields
  <1>2. \A a \in r.rows : Key(a) \in Source \X Day
    BY <1>1 DEF NewRow, Key
  <1>3. f \in [r.rows -> Source \X Day]
    BY <1>2
  <1>4. \A a, b \in r.rows : f[a] = f[b] => a = b
    BY DEF RowsSound
  <1>5. f \in Injection(r.rows, Source \X Day)
    BY <1>3, <1>4 DEF Injection, IsInjective
  <1> HIDE DEF f
  <1>6. IsFiniteSet(Source \X Day)
    <2>1. IsFiniteSet(Day)
      BY FS_Interval, Numbers DEF Day
    <2>2. IsFiniteSet(Source)
      BY IdAssumption DEF Source
    <2>3. QED
      BY <2>1, <2>2, FS_Product
  <1>7. QED
    BY <1>5, <1>6, FS_Injection

LEMMA CommitStep ==
  ASSUME IInv, NEW g \in Generator, Commit(g) PROVE IInv'
  <1> DEFINE q == gen[g]
             C(a) == Cardinality({b \in actions : Key(b) = Key(a)})
             Numbered(a) ==
               [source |-> a.source, occ |-> a.occ, date |-> a.date, start |-> a.start,
                status |-> a.status, live |-> a.live, nr |-> C(a),
                missed |-> a.source \in q.missed]
             N == {Numbered(a) : a \in q.rows}
  <1>0. /\ TypeOK /\ Rows /\ GenSound /\ Reserved /\ CancelKnown /\ PauseKnown
        /\ OneActive /\ NeverRegenerated /\ PausedDaysEmpty
    BY DEF IInv
  <1>1. /\ q.pc = "written" /\ actions' = actions \cup N /\ instances' = instances \cup q.made
        /\ gen' = [gen EXCEPT ![g] = Done]
        /\ UNCHANGED <<now, goal, habit, pauses, template, entry, removed, moved, edits>>
    BY DEF Commit, definitions
  <1>2. q \in GenRow /\ InFlight(g) /\ RowsSound(q)
    BY <1>0, <1>1, GenParts DEF GenSound
  <1>3. /\ q.rows \subseteq NewRow /\ q.made \subseteq Template \X Day /\ q.src \in DayViews
        /\ actions \subseteq ActRow /\ IsFiniteSet(actions)
    BY <1>0, <1>2, GenFields DEF Rows
  <1>4. \A a : C(a) \in Nat
    <2>1. ASSUME NEW a PROVE C(a) \in Nat
      <3>1. IsFiniteSet({b \in actions : Key(b) = Key(a)})
        BY <1>3, FS_Subset
      <3>2. QED
        BY <3>1, FS_CardinalityType
    <2>2. QED
      BY <2>1
  <1> HIDE DEF C
  <1>5. ASSUME NEW a \in q.rows
        PROVE  /\ Numbered(a) \in ActRow /\ Key(Numbered(a)) = Key(a) /\ Numbered(a).live
               /\ Numbered(a).source = a.source /\ Numbered(a).date = a.date
               /\ Numbered(a).missed = (a.source \in q.missed)
    <2>1. /\ a.source \in Source /\ a.occ \in Day /\ a.date \in Day /\ a.start \in Instant
          /\ a.status = "Planned" /\ a.live = TRUE
      BY <1>3 DEF NewRow
    <2>2. C(a) \in Nat
      BY <1>4
    <2> DEFINE m == a.source \in q.missed
    <2>3. m \in BOOLEAN
      OBVIOUS
    <2>4. QED
      BY <2>1, <2>2, <2>3 DEF ActRow, Key
  <1>6. IsFiniteSet(N)
    <2> DEFINE f == [a \in q.rows |-> Numbered(a)]
    <2>1. IsFiniteSet(q.rows)
      BY <1>2, RowsFinite
    <2>2. DOMAIN f = q.rows /\ N = {f[a] : a \in q.rows}
      OBVIOUS
    <2> HIDE DEF f, N
    <2>3. QED
      BY <2>1, <2>2, ImageFinite
  <1> HIDE DEF Numbered
  <1>7. \A b \in N : b \in ActRow /\ b.live /\ \E a \in q.rows : b = Numbered(a)
    BY <1>5
  <1> HIDE DEF N
  <1>8. actions' \subseteq ActRow /\ IsFiniteSet(actions')
    BY <1>1, <1>3, <1>6, <1>7, FS_Union
  <1>9. Active' = Active \cup N
    BY <1>1, <1>7 DEF Active
  <1>10. \A a \in q.rows : /\ Key(a) \in Written(g) /\ Key(a) \notin ActiveKeys
                           /\ \A o \in Generator \ {g} : Key(a) \notin Written(o)
    <2>1. \A a \in q.rows : Key(a) \in Written(g)
      BY <1>2 DEF Written
    <2>2. QED
      BY <1>0, <2>1 DEF Reserved
  <1>11. gen'[g] = Done /\ \A o \in Generator \ {g} : gen'[o] = gen[o]
    BY <1>0, <1>1 DEF Rows
  <1>12. ~ InFlight(g)' /\ \A o \in Generator \ {g} : InFlight(o)' <=> InFlight(o)
    BY <1>11 DEF InFlight
  <1>13. TypeOK'
    <2>1. \A x \in actions' : Key(x) \in Source \X Day /\ x.nr \in Nat
      BY <1>8, ActFields
    <2>2. instances' \subseteq Template \X Day
      BY <1>0, <1>1, <1>3 DEF TypeOK
    <2>3. QED
      BY <1>0, <1>1, <2>1, <2>2 DEF TypeOK
  <1>14. Rows'
    BY <1>0, <1>1, <1>8 DEF Rows
  <1>15. GenSound' /\ CancelKnown'
    BY <1>0, <1>1, <1>11, <1>12 DEF GenSound, CancelKnown
  <1>16. PauseKnown'
    <2>1. ASSUME NEW o \in Generator, InFlight(o)', NEW d \in DOMAIN gen'[o].src,
                 NEW h \in gen'[o].src[d].habits \ gen'[o].missed, NEW p \in open_pause(h)'
          PROVE  d < p[1]
      <3>1. open_pause(h)' = open_pause(h)
        BY <1>1 DEF open_pause
      <3>2. QED
        BY <1>0, <1>11, <1>12, <2>1, <3>1 DEF PauseKnown
    <2>2. QED
      BY <2>1 DEF PauseKnown
  <1>17. Reserved'
    <2>1. ASSUME NEW k \in ActiveKeys' PROVE k \in ActiveKeys \/ \E a \in q.rows : k = Key(a)
      <3>1. PICK x \in Active' : k = Key(x)
        BY DEF ActiveKeys
      <3>2. CASE x \in Active
        BY <3>1, <3>2 DEF ActiveKeys
      <3>3. CASE x \in N
        BY <1>5, <1>7, <3>1, <3>3
      <3>4. QED
        BY <1>9, <3>2, <3>3
    <2>2. Written(g)' = {} /\ \A o \in Generator \ {g} : Written(o)' = Written(o)
      BY <1>11, <1>12 DEF Written
    <2>3. QED
      BY <1>0, <1>10, <2>1, <2>2 DEF Reserved
  <1>18. OneActive'
    <2>1. ASSUME NEW x \in Active', NEW y \in Active', Key(x) = Key(y) PROVE x = y
      <3>1. \A b \in N : \E a \in q.rows : b = Numbered(a) /\ Key(b) = Key(a)
        BY <1>5, <1>7
      <3>2. CASE x \in Active /\ y \in Active
        BY <1>0, <2>1, <3>2 DEF OneActive
      <3>3. CASE x \in N /\ y \in N
        <4>1. PICK a \in q.rows : x = Numbered(a) /\ Key(x) = Key(a)
          BY <3>1, <3>3
        <4>2. PICK b \in q.rows : y = Numbered(b) /\ Key(y) = Key(b)
          BY <3>1, <3>3
        <4>3. a = b
          BY <1>2, <2>1, <4>1, <4>2 DEF RowsSound
        <4>4. QED
          BY <4>1, <4>2, <4>3
      <3>4. \A b \in N : Key(b) \notin ActiveKeys
        BY <1>10, <3>1
      <3>5. \A b \in Active : Key(b) \in ActiveKeys
        BY DEF ActiveKeys
      <3>6. QED
        BY <1>9, <2>1, <3>2, <3>3, <3>4, <3>5
    <2>2. QED
      BY <2>1 DEF OneActive
  <1>19. NeverRegenerated'
    <2>1. ASSUME NEW x \in N, Key(x) \in removed PROVE x.missed
      <3>1. PICK a \in q.rows : x = Numbered(a)
        BY <1>7
      <3>2. Key(a) \in removed
        BY <1>5, <2>1, <3>1
      <3>3. a.source \in q.missed
        BY <1>0, <1>2, <3>2 DEF CancelKnown
      <3>4. QED
        BY <1>5, <3>1, <3>3
    <2>2. QED
      BY <1>0, <1>1, <1>9, <2>1 DEF NeverRegenerated
  <1>20. PausedDaysEmpty'
    <2>1. ASSUME NEW x \in N, x.source \in Habit, ~ x.missed, NEW p \in open_pause(x.source),
                 x.date >= p[1]
          PROVE  FALSE
      <3>1. PICK a \in q.rows : x = Numbered(a)
        BY <1>7
      <3>2. x.source = a.source /\ x.date = a.date /\ a.source \notin q.missed
        BY <1>5, <2>1, <3>1
      <3>3. a.date = a.occ /\ a.occ \in DOMAIN q.src /\ a.source \in q.src[a.occ].habits
        BY <1>2, <2>1, <3>2 DEF RowsSound
      <3>4. a.occ < p[1]
        BY <1>0, <1>2, <2>1, <3>2, <3>3 DEF PauseKnown
      <3>5. a.occ \in Nat
        BY <1>3, Numbers DEF NewRow
      <3>6. p \in Nat \X Int
        BY <1>0, <2>1 DEF Rows, open_pause
      <3>7. QED
        BY <2>1, <3>2, <3>3, <3>4, <3>5, <3>6
    <2>2. QED
      BY <1>0, <1>1, <1>9, <2>1 DEF PausedDaysEmpty, open_pause
  <1>21. QED
    BY <1>13, <1>14, <1>15, <1>16, <1>17, <1>18, <1>19, <1>20 DEF IInv

LEMMA InitInv == Init => IInv
  <1> SUFFICES ASSUME Init PROVE IInv
    OBVIOUS
  <1>1. /\ actions = {} /\ instances = {} /\ removed = {} /\ now = 0 /\ edits = 0
        /\ pauses = [h \in Habit |-> {}] /\ gen = [g \in Generator |-> Idle]
        /\ entry = [e \in Entry |-> NoEntry] /\ moved = [k \in Source \X Day |-> NoDate]
    BY DEF Init
  <1>2. \A g \in Generator : ~ InFlight(g)
    BY <1>1 DEF InFlight
  <1>3. TypeOK
    <2>1. template \in [Template -> [days : SUBSET (0..(Week - 1)), deleted : BOOLEAN]]
      <3>1. PICK days \in {{}} \cup RoutineDays :
               template = [t \in Template |-> [days |-> days, deleted |-> FALSE]]
        BY DEF Init
      <3>2. days \in SUBSET (0..(Week - 1))
        BY CalendarAssumption
      <3>3. QED
        BY <3>1, <3>2
    <2>2. NoEntry \in [template : Template \cup {NoTemplate}, habit : Habit \cup {NoHabit},
                       deleted : BOOLEAN]
      BY DEF NoEntry
    <2>3. QED
      BY <1>1, <2>1, <2>2, Numbers DEF TypeOK
  <1>4. Rows
    BY <1>1, FS_EmptySet DEF Rows
  <1>5. GenSound /\ CancelKnown /\ PauseKnown /\ Reserved
    BY <1>2 DEF GenSound, CancelKnown, PauseKnown, Reserved, Written
  <1>6. OneActive /\ NeverRegenerated /\ PausedDaysEmpty
    BY <1>1 DEF OneActive, NeverRegenerated, PausedDaysEmpty, Active
  <1>7. QED
    BY <1>3, <1>4, <1>5, <1>6 DEF IInv

LEMMA StutterStep ==
  ASSUME IInv, UNCHANGED vars PROVE IInv'
  <1>1. TypeOK /\ Rows /\ now <= now'
    BY Numbers DEF IInv, vars, TypeOK
  <1>2. Kept
    BY <1>1, SameKeeps DEF vars
  <1>3. Typed
    BY <1>1 DEF Typed, TypeOK, Rows, vars
  <1>4. Active' \subseteq Active /\ \A h \in Habit : open_pause(h)' \subseteq open_pause(h)
    BY DEF vars, Active, open_pause
  <1>5. QED
    BY <1>1, <1>2, <1>3, <1>4, QuietStep DEF vars

LEMMA NextInv == IInv /\ [Next]_vars => IInv'
  <1> SUFFICES ASSUME IInv, [Next]_vars PROVE IInv'
    OBVIOUS
  <1>1. ASSUME NEW g \in Generator,
               Load(g) \/ _load_overrides(g) \/ _persist(g) \/ Commit(g) \/ Rollback(g)
        PROVE  IInv'
    BY <1>1, LoadStep, LoadOverridesStep, PersistStep, CommitStep, RollbackStep
  <1>2. ASSUME NEW a \in Active,
               \/ cancel(a)
               \/ \E d \in Day, slot \in 0..(Slots - 1) : reschedule(a, d, slot)
               \/ \E new \in {"Started", "Completed", "Skipped"} : transition(a, new)
        PROVE  IInv'
    BY <1>2, CancelStep, RescheduleStep, TransitionStep
  <1>3. QED
    BY <1>1, <1>2, TickStep, HabitEditStep, ResumeStep, PauseStep, GoalStep, TemplateStep,
       EntryStep, StutterStep DEF Next

(* The inductive invariant holds of every behaviour.                          *)
THEOREM InvariantHolds == Spec => []IInv
  BY InitInv, NextInv, PTL DEF Spec

-----------------------------------------------------------------------------
(* The theorems *)

(* Every row and every generation in flight stays within its range.           *)
THEOREM TypeCorrect == Spec => []TypeOK
  <1>1. IInv => TypeOK
    BY DEF IInv
  <1>2. QED
    BY <1>1, InvariantHolds, PTL

(* However many generations overlap, with each other and with the User's      *)
(* edits, an occurrence has at most one active Daily Action.                  *)
THEOREM OneActiveHolds == Spec => []OneActive
  <1>1. IInv => OneActive
    BY DEF IInv
  <1>2. QED
    BY <1>1, InvariantHolds, PTL

(* An occurrence the User cancelled comes back only through a generation that *)
(* had read the overrides of the day before the cancellation.                 *)
THEOREM CancellationHolds == Spec => []NeverRegenerated
  <1>1. IInv => NeverRegenerated
    BY DEF IInv
  <1>2. QED
    BY <1>1, InvariantHolds, PTL

(* A paused habit has no planned future action from the start of its pause,   *)
(* other than one the User moved there or one of a generation that had read   *)
(* the habit before.                                                          *)
THEOREM PauseHolds == Spec => []PausedDaysEmpty
  <1>1. IInv => PausedDaysEmpty
    BY DEF IInv
  <1>2. QED
    BY <1>1, InvariantHolds, PTL
-----------------------------------------------------------------------------
(* What is due, source by source *)

ViewOf(e) == [id |-> e, template |-> entry[e].template, habit |-> entry[e].habit]
EntryOn(e, d) ==
    /\ LiveEntry(e) /\ LiveTemplate(entry[e].template)
    /\ weekday(d) \in template[entry[e].template].days
HabitOn(h, d) == LiveHabit(h) /\ habit_scheduled_on(h, d)

(* The occurrences of a day that are not cancelled: an entry's, and a habit's *)
(* unless such an entry represents it.                                        *)
DueEntry(e, d) == EntryOn(e, d) /\ ~ Removed(e, d)
Represented(h, d) == \E e \in Entry : DueEntry(e, d) /\ entry[e].habit = h
DueHabit(h, d) == HabitOn(h, d) /\ ~ Removed(h, d) /\ ~ Represented(h, d)
Due(s, d) == (s \in Entry /\ DueEntry(s, d)) \/ (s \in Habit /\ DueHabit(s, d))

GoalRow == [status : {"active", "archived"}, deleted : BOOLEAN]
HabitRow == [created : Int, last : Int, days : SUBSET Int, status : {"active", "archived"},
             deleted : BOOLEAN]

(* An entry belongs to a template that was created.                           *)
Defined ==
    /\ goal \in [Goal -> GoalRow] /\ habit \in [Habit -> HabitRow]
    /\ \A e \in Entry : entry[e].template # NoTemplate =>
         template[entry[e].template].days # {}

(* What a generation has read of a source is still so, or it was told: of an  *)
(* entry and a habit, that they apply, and of a habit, what represents it.    *)
KnownTo(r) ==
    \A d \in DOMAIN r.src :
        /\ \A e \in Entry \ r.missed : EntryOn(e, d) => ViewOf(e) \in r.src[d].entries
        /\ \A h \in Habit \ r.missed : HabitOn(h, d) => h \in r.src[d].habits
        /\ \A x \in r.src[d].entries : x.habit \in Habit \ r.missed =>
             EntryOn(x.id, d) /\ ViewOf(x.id) = x
Known == \A g \in Generator : InFlight(g) => KnownTo(gen[g])

(* What is due on a day of a generation is still to come, planned, written by *)
(* it, or there.                                                              *)
Handled(g, s, d) ==
    \/ Unread(g, d)
    \/ gen[g].pc = "planned" /\ d = gen[g].days[1] /\ \E p \in gen[g].plan : p.source = s
    \/ <<s, d>> \in Written(g)
    \/ <<s, d>> \in ActiveKeys
Covered ==
    \A g \in Generator : InFlight(g) =>
        \A d \in DOMAIN gen[g].src : \A s \in Source \ gen[g].missed :
            Due(s, d) => Handled(g, s, d)

(* The second inductive invariant, on top of the first.                       *)
DueInv == Defined /\ Known /\ Covered

(* Definitions change only for the sources in S: whatever applies to another  *)
(* source, and what represents another habit, is as before.                   *)
Frame(S) ==
    \A d \in Day :
        /\ \A h \in Habit \ S : HabitOn(h, d)' => HabitOn(h, d)
        /\ \A e \in Entry :
             \/ e \in S /\ entry[e].habit \in S \cup {NoHabit}
             \/ /\ EntryOn(e, d)' <=> EntryOn(e, d)
                /\ EntryOn(e, d) => ViewOf(e)' = ViewOf(e)

-----------------------------------------------------------------------------
(* Lemmas on what is due *)

LEMMA SourcesAre ==
  ASSUME NEW d
  PROVE  /\ \A x : x \in Sources(d).entries <=> \E e \in Entry : EntryOn(e, d) /\ x = ViewOf(e)
         /\ \A h : h \in Sources(d).habits <=> h \in Habit /\ HabitOn(h, d)
  BY DEF Sources, EntryOn, HabitOn, ViewOf

LEMMA ViewParts ==
  ASSUME NEW e PROVE ViewOf(e).id = e /\ ViewOf(e).habit = entry[e].habit
  BY DEF ViewOf

(* The sources of the rows plan_occurrences() plans.                          *)
LEMMA PlanSources ==
  ASSUME NEW src, NEW d, NEW s
  PROVE  (\E p \in plan_occurrences(src, d) : p.source = s) <=>
           \/ \E x \in src.entries : ~ Removed(x.id, d) /\ x.id = s
           \/ /\ s \in src.habits /\ ~ Removed(s, d)
              /\ \A x \in src.entries : ~ Removed(x.id, d) => x.habit # s
  <1> DEFINE kept == {x \in src.entries : ~ Removed(x.id, d)}
             routine == {x.habit : x \in kept}
             free == {h \in src.habits \ routine : ~ Removed(h, d)}
             E(x) == [source |-> x.id, start |-> Start(x.id, d), template |-> {x.template}]
             F(h) == [source |-> h, start |-> Start(h, d), template |-> {}]
             P == plan_occurrences(src, d)
  <1>1. P = {E(x) : x \in kept} \cup {F(h) : h \in free}
    BY DEF plan_occurrences
  <1>2. (\A x : E(x).source = x.id) /\ (\A h : F(h).source = h)
    OBVIOUS
  <1> HIDE DEF E, F, P
  <1>3. (\E p \in P : p.source = s) <=> (\E x \in kept : x.id = s) \/ s \in free
    BY <1>1, <1>2
  <1>4. s \in free <=> /\ s \in src.habits /\ ~ Removed(s, d)
                       /\ \A x \in src.entries : ~ Removed(x.id, d) => x.habit # s
    OBVIOUS
  <1>5. QED
    BY <1>3, <1>4 DEF P

(* What plan_occurrences() makes of the present definitions is due.           *)
LEMMA PlannedIsDue ==
  ASSUME NEW d, NEW p \in plan_occurrences(Sources(d), d)
  PROVE  p.source \in Source /\ Due(p.source, d)
  <1>1. \/ \E x \in Sources(d).entries : ~ Removed(x.id, d) /\ x.id = p.source
        \/ /\ p.source \in Sources(d).habits /\ ~ Removed(p.source, d)
           /\ \A x \in Sources(d).entries : ~ Removed(x.id, d) => x.habit # p.source
    BY PlanSources
  <1>2. CASE \E x \in Sources(d).entries : ~ Removed(x.id, d) /\ x.id = p.source
    <2>1. PICK e \in Entry : EntryOn(e, d) /\ ~ Removed(e, d) /\ e = p.source
      BY <1>2, SourcesAre, ViewParts
    <2>2. QED
      BY <2>1 DEF Due, DueEntry, Source
  <1>3. CASE /\ p.source \in Sources(d).habits /\ ~ Removed(p.source, d)
             /\ \A x \in Sources(d).entries : ~ Removed(x.id, d) => x.habit # p.source
    <2>1. p.source \in Habit /\ HabitOn(p.source, d)
      BY <1>3, SourcesAre
    <2>2. ASSUME NEW e \in Entry, DueEntry(e, d) PROVE entry[e].habit # p.source
      <3>1. ViewOf(e) \in Sources(d).entries
        BY <2>2, SourcesAre DEF DueEntry
      <3>2. QED
        BY <1>3, <2>2, <3>1, ViewParts DEF DueEntry
    <2>3. QED
      BY <1>3, <2>1, <2>2 DEF Due, DueHabit, Represented, Source
  <1>4. QED
    BY <1>1, <1>2, <1>3

(* What is due and not missed is planned from what the generation has read.   *)
LEMMA DueIsPlanned ==
  ASSUME NEW r, KnownTo(r), NEW d \in DOMAIN r.src, r.src[d].entries \subseteq EntryView,
         NEW s \in Source \ r.missed, Due(s, d)
  PROVE  \E p \in plan_occurrences(r.src[d], d) : p.source = s
  <1>1. CASE s \in Entry /\ DueEntry(s, d)
    <2>1. ViewOf(s) \in r.src[d].entries
      BY <1>1 DEF KnownTo, DueEntry
    <2>2. QED
      BY <1>1, <2>1, PlanSources, ViewParts DEF DueEntry
  <1>2. CASE s \in Habit /\ DueHabit(s, d)
    <2>1. s \in r.src[d].habits /\ ~ Removed(s, d)
      BY <1>2 DEF KnownTo, DueHabit
    <2>2. ASSUME NEW x \in r.src[d].entries, ~ Removed(x.id, d) PROVE x.habit # s
      <3>1. SUFFICES ASSUME x.habit = s PROVE FALSE
        OBVIOUS
      <3>2. EntryOn(x.id, d) /\ ViewOf(x.id) = x
        BY <1>2, <3>1 DEF KnownTo
      <3>3. DueEntry(x.id, d) /\ entry[x.id].habit = s
        BY <2>2, <3>1, <3>2, ViewParts DEF DueEntry
      <3>4. x.id \in Entry
        BY DEF EntryView
      <3>5. QED
        BY <1>2, <3>3, <3>4 DEF DueHabit, Represented
    <2>3. QED
      BY <2>1, <2>2, PlanSources
  <1>3. QED
    BY <1>1, <1>2 DEF Due

(* A source outside S that is due after the step was due before it.           *)
LEMMA DueKept ==
  ASSUME NEW S, Frame(S), NEW d \in Day, NEW s \in Source \ S,
         \A x \in Entry \cup {s} : Removed(x, d)' <=> Removed(x, d), Due(s, d)'
  PROVE  Due(s, d)
  <1>1. CASE s \in Entry /\ DueEntry(s, d)'
    BY <1>1 DEF Frame, Due, DueEntry
  <1>2. CASE s \in Habit /\ DueHabit(s, d)'
    <2>1. HabitOn(s, d) /\ ~ Removed(s, d)
      BY <1>2 DEF Frame, DueHabit
    <2>2. ASSUME NEW e \in Entry, DueEntry(e, d), entry[e].habit = s PROVE FALSE
      <3>1. entry[e].habit \notin S \cup {NoHabit}
        BY <1>2, <2>2, IdAssumption
      <3>2. EntryOn(e, d)' /\ ViewOf(e)' = ViewOf(e)
        BY <2>2, <3>1 DEF Frame, DueEntry
      <3>3. entry'[e].habit = s
        BY <2>2, <3>2, ViewParts DEF ViewOf
      <3>4. DueEntry(e, d)'
        BY <2>2, <3>2 DEF DueEntry
      <3>5. QED
        BY <1>2, <3>3, <3>4 DEF DueHabit, Represented
    <2>3. QED
      BY <1>2, <2>1, <2>2 DEF Due, DueHabit, Represented
  <1>3. QED
    BY <1>1, <1>2 DEF Due

(* Generations know of a change of definitions that they are told of.         *)
LEMMA KnownKept ==
  ASSUME Rows, GenSound, Known, Kept, NEW S, Frame(S),
         \A g \in Generator : gen[g] \in GenRow => S \subseteq gen'[g].missed
  PROVE  Known'
  <1>1. ASSUME NEW g \in Generator, gen[g] \in GenRow, NEW d \in DOMAIN gen'[g].src
        PROVE  /\ \A e \in Entry \ gen'[g].missed :
                    EntryOn(e, d)' => ViewOf(e)' \in gen'[g].src[d].entries
               /\ \A h \in Habit \ gen'[g].missed :
                    HabitOn(h, d)' => h \in gen'[g].src[d].habits
               /\ \A x \in gen'[g].src[d].entries : x.habit \in Habit \ gen'[g].missed =>
                    EntryOn(x.id, d)' /\ ViewOf(x.id)' = x
    <2>1. /\ gen'[g].src = gen[g].src /\ gen[g].missed \subseteq gen'[g].missed
          /\ S \subseteq gen'[g].missed /\ KnownTo(gen[g])
      BY <1>1, GenParts DEF Kept, Known
    <2>2. d \in Day /\ gen[g].src[d].entries \subseteq EntryView
      BY <1>1, <2>1, GenFields, ViewFields
    <2>3. ASSUME NEW e \in Entry \ gen'[g].missed, EntryOn(e, d)'
          PROVE  ViewOf(e)' \in gen'[g].src[d].entries
      BY <1>1, <2>1, <2>2, <2>3 DEF Frame, KnownTo
    <2>4. ASSUME NEW h \in Habit \ gen'[g].missed, HabitOn(h, d)'
          PROVE  h \in gen'[g].src[d].habits
      BY <1>1, <2>1, <2>2, <2>4 DEF Frame, KnownTo
    <2>5. ASSUME NEW x \in gen'[g].src[d].entries, x.habit \in Habit \ gen'[g].missed
          PROVE  EntryOn(x.id, d)' /\ ViewOf(x.id)' = x
      <3>1. x.id \in Entry /\ x.habit \in Habit \ gen[g].missed /\ x.habit \notin S
        BY <2>1, <2>2, <2>5 DEF EntryView
      <3>2. EntryOn(x.id, d) /\ ViewOf(x.id) = x
        BY <1>1, <2>1, <2>5, <3>1 DEF KnownTo
      <3>3. entry[x.id].habit \notin S \cup {NoHabit}
        BY <3>1, <3>2, ViewParts, IdAssumption
      <3>4. QED
        BY <2>2, <3>1, <3>2, <3>3 DEF Frame
    <2>6. QED
      BY <2>3, <2>4, <2>5
  <1>2. \A g \in Generator : InFlight(g)' <=> gen[g] \in GenRow
    BY KeptSound, GenParts
  <1>3. QED
    BY <1>1, <1>2 DEF Known, KnownTo

(* What is due stays handled: a step that moves no generation on leaves it    *)
(* active, makes it active, or leaves it to a generation to come to.          *)
LEMMA CoveredKept ==
  ASSUME Rows, GenSound, Covered, Kept,
         \A g \in Generator, d \in Day, s \in Source :
            gen[g] \in GenRow /\ s \notin gen'[g].missed /\ Due(s, d)' =>
              \/ Unread(g, d)
              \/ <<s, d>> \in ActiveKeys'
              \/ Due(s, d) /\ (<<s, d>> \in ActiveKeys => <<s, d>> \in ActiveKeys')
  PROVE  Covered'
  <1>1. ASSUME NEW g \in Generator, gen[g] \in GenRow, NEW d \in DOMAIN gen'[g].src,
               NEW s \in Source \ gen'[g].missed, Due(s, d)'
        PROVE  Handled(g, s, d)'
    <2>1. /\ gen'[g].src = gen[g].src /\ gen[g].missed \subseteq gen'[g].missed
          /\ gen'[g].pc = gen[g].pc /\ gen'[g].days = gen[g].days /\ gen'[g].plan = gen[g].plan
          /\ Written(g)' = Written(g) /\ InFlight(g)
      BY <1>1, GenParts, KeptSound DEF Kept
    <2>2. d \in Day
      BY <1>1, <2>1, GenFields, ViewFields
    <2>3. Unread(g, d)' <=> Unread(g, d)
      BY <2>1 DEF Unread
    <2>4. Due(s, d) => Handled(g, s, d)
      BY <1>1, <2>1 DEF Covered
    <2>5. QED
      BY <1>1, <2>1, <2>2, <2>3, <2>4 DEF Handled
  <1>2. \A g \in Generator : InFlight(g)' <=> gen[g] \in GenRow
    BY KeptSound, GenParts
  <1>3. QED
    BY <1>1, <1>2 DEF Covered

(* Edits: what they cancel belongs to the sources the generations are told of. *)
LEMMA EditCovers ==
  ASSUME IInv, Known, Covered, NEW S \in SUBSET Source, Edit(S), Frame(S), UNCHANGED removed,
         \A k \in ActiveKeys : k[1] \in S \/ k \in ActiveKeys'
  PROVE  Known' /\ Covered'
  <1>1. Rows /\ GenSound
    BY DEF IInv
  <1>2. Kept /\ \A g \in Generator : gen[g] \in GenRow => S \subseteq gen'[g].missed
    BY <1>1, EditKeeps
  <1>3. \A g \in Generator, d \in Day, s \in Source :
           gen[g] \in GenRow /\ s \notin gen'[g].missed /\ Due(s, d)' =>
             Due(s, d) /\ (<<s, d>> \in ActiveKeys => <<s, d>> \in ActiveKeys')
    <2>1. ASSUME NEW g \in Generator, NEW d \in Day, NEW s \in Source, gen[g] \in GenRow,
                 s \notin gen'[g].missed, Due(s, d)'
          PROVE  Due(s, d) /\ (<<s, d>> \in ActiveKeys => <<s, d>> \in ActiveKeys')
      <3>1. s \notin S
        BY <1>2, <2>1
      <3>2. \A x \in Entry \cup {s} : Removed(x, d)' <=> Removed(x, d)
        BY DEF Removed
      <3>3. Due(s, d)
        BY <2>1, <3>1, <3>2, DueKept
      <3>4. <<s, d>>[1] = s
        OBVIOUS
      <3>5. QED
        BY <3>1, <3>3, <3>4
    <2>2. QED
      BY <2>1
  <1>4. Known'
    BY <1>1, <1>2, KnownKept
  <1>5. Covered'
    BY <1>1, <1>2, <1>3, CoveredKept
  <1>6. QED
    BY <1>4, <1>5

-----------------------------------------------------------------------------
(* What is due is handled: in each step *)

LEMMA SameHabit ==
  ASSUME NEW h \in Habit, NEW d, habit'[h] = habit[h], pauses'[h] = pauses[h],
         goal'[GoalOf[h]].status = goal[GoalOf[h]].status
  PROVE  HabitOn(h, d)' <=> HabitOn(h, d)
  BY DEF HabitOn, LiveHabit, habit_scheduled_on, GoalArchived, in_pause

(* Edits of goals, habits and pauses leave the routines alone.                *)
LEMMA HabitsFrame ==
  ASSUME NEW S, UNCHANGED <<template, entry>>,
         \A h \in Habit \ S : /\ habit'[h] = habit[h] /\ pauses'[h] = pauses[h]
                              /\ goal'[GoalOf[h]].status = goal[GoalOf[h]].status
  PROVE  Frame(S)
  <1>1. ASSUME NEW d \in Day, NEW h \in Habit \ S PROVE HabitOn(h, d)' <=> HabitOn(h, d)
    BY SameHabit
  <1>2. ASSUME NEW d \in Day, NEW e \in Entry
        PROVE  (EntryOn(e, d)' <=> EntryOn(e, d)) /\ ViewOf(e)' = ViewOf(e)
    BY DEF EntryOn, ViewOf, LiveEntry, LiveTemplate
  <1>3. QED
    BY <1>1, <1>2 DEF Frame

LEMMA CancelledKeys ==
  ASSUME NEW A, system_cancel(A), NEW S, \A a \in A : a.source \in S
  PROVE  \A k \in ActiveKeys : k[1] \in S \/ k \in ActiveKeys'
  <1>1. ASSUME NEW k \in ActiveKeys, k[1] \notin S PROVE k \in ActiveKeys'
    <2>1. PICK a \in Active : k = Key(a)
      BY DEF ActiveKeys
    <2>2. a \notin A
      BY <1>1, <2>1 DEF Key
    <2>3. a \in Active'
      BY <2>2 DEF Active, system_cancel
    <2>4. QED
      BY <2>1, <2>3 DEF ActiveKeys
  <1>2. QED
    BY <1>1

LEMMA SameKeys ==
  ASSUME UNCHANGED actions PROVE ActiveKeys' = ActiveKeys
  BY DEF ActiveKeys, Active

LEMMA RoutinesDefined ==
  ASSUME Defined, UNCHANGED <<template, entry>>, goal' \in [Goal -> GoalRow],
         habit' \in [Habit -> HabitRow]
  PROVE  Defined'
  BY DEF Defined

LEMMA HabitUpdated ==
  ASSUME NEW r \in HabitRow, NEW created \in Int, NEW last \in Int, NEW days \in SUBSET Int,
         NEW status \in {"active", "archived"}
  PROVE  /\ [[r EXCEPT !.created = created] EXCEPT !.days = days] \in HabitRow
         /\ [r EXCEPT !.days = days, !.status = status, !.last = last] \in HabitRow
         /\ [r EXCEPT !.deleted = TRUE] \in HabitRow
  BY DEF HabitRow

LEMMA HabitEditCovers ==
  ASSUME IInv, DueInv, NEW h \in Habit,
         \/ \E days \in HabitDays :
              \/ create_habit(h, days)
              \/ \E status \in {"active", "archived"}, last \in {NoDate, today} :
                   update_habit(h, days, status, last)
         \/ delete_habit(h) \/ resume(h)
         \/ \E d \in Day : pause(h, d)
  PROVE  DueInv'
  <1>0. Defined /\ Known /\ Covered /\ goal \in [Goal -> GoalRow] /\ habit \in [Habit -> HabitRow]
    BY DEF DueInv, Defined
  <1>1. Edit({h}) /\ {h} \in SUBSET Source /\ UNCHANGED <<removed, goal, template, entry>>
    BY DEF create_habit, update_habit, delete_habit, resume, pause, Source
  <1>2. /\ habit' \in [Habit -> HabitRow]
        /\ \A k \in Habit \ {h} : habit'[k] = habit[k]
    <2>1. today \in Int /\ NoDate \in Int
      BY TodayIsDay DEF IInv, TypeOK, NoDate
    <2>2. ASSUME NEW days \in HabitDays PROVE days \in SUBSET Int
      <3>1. days \subseteq 0..(Week - 1) /\ Week \in Int
        BY CalendarAssumption
      <3>2. QED
        BY <3>1
    <2>3. ASSUME NEW days \in HabitDays, create_habit(h, days)
          PROVE  habit' \in [Habit -> HabitRow] /\ \A k \in Habit \ {h} : habit'[k] = habit[k]
      <3>1. habit' = [habit EXCEPT ![h] = [[habit[h] EXCEPT !.created = today] EXCEPT !.days = days]]
        BY <1>0, <2>3 DEF create_habit
      <3>2. [[habit[h] EXCEPT !.created = today] EXCEPT !.days = days] \in HabitRow
        BY <1>0, <2>1, <2>2, HabitUpdated
      <3>3. QED
        BY <1>0, <3>1, <3>2
    <2>4. ASSUME NEW days \in HabitDays, NEW status \in {"active", "archived"},
                 NEW last \in {NoDate, today}, update_habit(h, days, status, last)
          PROVE  habit' \in [Habit -> HabitRow] /\ \A k \in Habit \ {h} : habit'[k] = habit[k]
      <3> DEFINE new == [habit[h] EXCEPT !.days = days, !.status = status, !.last = last]
      <3>1. habit' = [habit EXCEPT ![h] = new]
        BY <1>0, <2>4 DEF update_habit
      <3>2. last \in Int /\ days \in SUBSET Int /\ habit[h] \in HabitRow
        BY <1>0, <2>1, <2>2
      <3>3. new \in HabitRow
        BY <2>1, <3>2, HabitUpdated
      <3> HIDE DEF new
      <3>4. QED
        BY <1>0, <3>1, <3>3
    <2>5. ASSUME delete_habit(h)
          PROVE  habit' \in [Habit -> HabitRow] /\ \A k \in Habit \ {h} : habit'[k] = habit[k]
      <3>1. [habit[h] EXCEPT !.deleted = TRUE] \in HabitRow
        BY <1>0 DEF HabitRow
      <3>2. QED
        BY <1>0, <2>5, <3>1 DEF delete_habit
    <2>6. QED
      BY <1>0, <2>3, <2>4, <2>5 DEF resume, pause
  <1>3. \A k \in Habit \ {h} : pauses'[k] = pauses[k]
    <2>1. pauses \in [Habit -> SUBSET (Nat \X Int)]
      BY DEF IInv, Rows
    <2>2. UNCHANGED pauses \/ \E P : pauses' = [pauses EXCEPT ![h] = P]
      BY DEF create_habit, update_habit, delete_habit, resume, pause
    <2>3. QED
      BY <2>1, <2>2
  <1>4. Frame({h})
    BY <1>1, <1>2, <1>3, HabitsFrame
  <1>5. \A k \in ActiveKeys : k[1] \in {h} \/ k \in ActiveKeys'
    <2>1. CASE UNCHANGED actions
      BY <2>1, SameKeys
    <2>2. CASE \E from \in Int : system_cancel(Future(h, from))
      <3>1. PICK from \in Int : system_cancel(Future(h, from))
        BY <2>2
      <3>2. \A a \in Future(h, from) : a.source \in {h}
        BY DEF Future
      <3>3. QED
        BY <3>1, <3>2, CancelledKeys
    <2>3. QED
      <3>1. 0 \in Int /\ Day \subseteq Int
        BY Numbers
      <3>2. (\E d \in Day : pause(h, d)) \/ delete_habit(h) =>
              \E from \in Int : system_cancel(Future(h, from))
        BY <3>1 DEF delete_habit, pause
      <3>3. QED
        BY <2>1, <2>2, <3>2 DEF create_habit, update_habit, resume
  <1>6. Defined'
    BY <1>0, <1>1, <1>2, RoutinesDefined
  <1>7. QED
    BY <1>0, <1>1, <1>4, <1>5, <1>6, EditCovers DEF DueInv

LEMMA GoalCovers ==
  ASSUME IInv, DueInv, NEW g \in Goal, archive(g) \/ delete_goal(g)
  PROVE  DueInv'
  <1> DEFINE S == HabitsOf(g)
  <1>0. Defined /\ Known /\ Covered /\ goal \in [Goal -> GoalRow] /\ habit \in [Habit -> HabitRow]
    BY DEF DueInv, Defined
  <1>1. Edit(S) /\ S \in SUBSET Source /\ UNCHANGED <<removed, pauses, template, entry>>
    BY DEF archive, delete_goal, HabitsOf, Source
  <1>2. /\ goal' \in [Goal -> GoalRow]
        /\ \A k \in Goal \ {g} : goal'[k] = goal[k]
    <2>1. [goal[g] EXCEPT !.status = "archived"] \in GoalRow /\ [goal[g] EXCEPT !.deleted = TRUE] \in GoalRow
      BY <1>0 DEF GoalRow
    <2>2. QED
      BY <1>0, <2>1 DEF archive, delete_goal
  <1>3. /\ habit' \in [Habit -> HabitRow]
        /\ \A k \in Habit \ S : habit'[k] = habit[k]
    <2>1. CASE archive(g)
      BY <1>0, <2>1 DEF archive
    <2>2. CASE delete_goal(g)
      <3> DEFINE D(h) == GoalOf[h] = g /\ habit[h].created # NoDate
                 R(h) == [habit[h] EXCEPT !.deleted = @ \/ D(h)]
      <3>1. habit' = [h \in Habit |-> R(h)]
        BY <2>2 DEF delete_goal
      <3>2. \A h \in Habit : D(h) \in BOOLEAN
        OBVIOUS
      <3>3. \A h \in Habit \ S : D(h) = FALSE
        BY DEF HabitsOf
      <3> HIDE DEF D
      <3>4. ASSUME NEW h \in Habit PROVE R(h) \in HabitRow /\ (D(h) = FALSE => R(h) = habit[h])
        <4>1. habit[h].deleted \in BOOLEAN /\ habit[h] \in HabitRow
          BY <1>0 DEF HabitRow
        <4>2. (habit[h].deleted \/ D(h)) \in BOOLEAN
          BY <3>2, <4>1
        <4>3. D(h) = FALSE => (habit[h].deleted \/ D(h)) = habit[h].deleted
          BY <4>1
        <4> DEFINE v == habit[h].deleted \/ D(h)
        <4>4. R(h) = [habit[h] EXCEPT !.deleted = v]
          OBVIOUS
        <4>5. v \in BOOLEAN /\ (D(h) = FALSE => v = habit[h].deleted)
          BY <4>2, <4>3
        <4> HIDE DEF v, R
        <4>6. QED
          BY <4>1, <4>4, <4>5 DEF HabitRow
      <3> HIDE DEF R
      <3>5. QED
        BY <3>1, <3>3, <3>4
    <2>3. QED
      BY <2>1, <2>2
  <1>4. Frame(S)
    <2>1. \A h \in Habit \ S : GoalOf[h] \in Goal \ {g}
      BY IdAssumption DEF HabitsOf
    <2>2. \A h \in Habit \ S : /\ habit'[h] = habit[h] /\ pauses'[h] = pauses[h]
                               /\ goal'[GoalOf[h]].status = goal[GoalOf[h]].status
      BY <1>1, <1>2, <1>3, <2>1
    <2> HIDE DEF S
    <2>3. QED
      BY <1>1, <2>2, HabitsFrame
  <1>5. \A k \in ActiveKeys : k[1] \in S \/ k \in ActiveKeys'
    <2>1. CASE archive(g)
      <3>1. system_cancel(UNION {Future(h, 0) : h \in S})
        BY <2>1 DEF archive
      <3>2. \A a \in UNION {Future(h, 0) : h \in S} : a.source \in S
        BY DEF Future
      <3>3. QED
        BY <3>1, <3>2, CancelledKeys
    <2>2. CASE delete_goal(g)
      BY <2>2, SameKeys DEF delete_goal
    <2>3. QED
      BY <2>1, <2>2
  <1>6. Defined'
    BY <1>0, <1>1, <1>2, <1>3, RoutinesDefined
  <1> HIDE DEF S
  <1>7. QED
    BY <1>0, <1>1, <1>4, <1>5, <1>6, EditCovers DEF DueInv

LEMMA SameEntry ==
  ASSUME NEW e, NEW d, entry'[e] = entry[e],
         LiveEntry(e) => template'[entry[e].template] = template[entry[e].template]
  PROVE  (EntryOn(e, d)' <=> EntryOn(e, d)) /\ ViewOf(e)' = ViewOf(e)
  BY DEF EntryOn, ViewOf, LiveEntry, LiveTemplate

(* Edits of routines leave goals, habits and pauses alone.                    *)
LEMMA RoutinesFrame ==
  ASSUME NEW S, UNCHANGED <<goal, habit, pauses>>,
         \A e \in Entry :
            \/ e \in S /\ entry[e].habit \in S \cup {NoHabit}
            \/ /\ entry'[e] = entry[e]
               /\ LiveEntry(e) => template'[entry[e].template] = template[entry[e].template]
  PROVE  Frame(S)
  <1>1. ASSUME NEW d \in Day, NEW h \in Habit \ S PROVE HabitOn(h, d)' <=> HabitOn(h, d)
    BY SameHabit
  <1>2. ASSUME NEW d \in Day, NEW e \in Entry
        PROVE  \/ e \in S /\ entry[e].habit \in S \cup {NoHabit}
               \/ (EntryOn(e, d)' <=> EntryOn(e, d)) /\ ViewOf(e)' = ViewOf(e)
    BY SameEntry
  <1>3. QED
    BY <1>1, <1>2 DEF Frame

(* Touched() names the entries and the habits they represent.                 *)
LEMMA TouchedTells ==
  ASSUME TypeOK, NEW E, NEW e \in E, E \subseteq Entry
  PROVE  e \in Touched(E) /\ entry[e].habit \in Touched(E) \cup {NoHabit}
  BY DEF Touched, TypeOK

(* Steps that no generation has to be told of.                                *)
LEMMA PlainCovers ==
  ASSUME IInv, Known, Covered, Frame({}), UNCHANGED <<removed, gen>>, ActiveKeys \subseteq ActiveKeys'
  PROVE  Known' /\ Covered'
  <1>1. Rows /\ GenSound /\ Kept
    BY SameKeeps DEF IInv
  <1>2. Known'
    BY <1>1, KnownKept
  <1>3. ASSUME NEW d \in Day, NEW s \in Source, Due(s, d)' PROVE Due(s, d)
    <2>1. \A x \in Entry \cup {s} : Removed(x, d)' <=> Removed(x, d)
      BY DEF Removed
    <2>2. QED
      BY <1>3, <2>1, DueKept
  <1>4. Covered'
    BY <1>1, <1>3, CoveredKept
  <1>5. QED
    BY <1>2, <1>4

(* A change of days of a template, which has been created then.               *)
LEMMA TemplatesDefined ==
  ASSUME TypeOK, Defined, UNCHANGED <<goal, habit, entry>>, NEW t \in Template,
         NEW days \in RoutineDays, template' = [template EXCEPT ![t].days = days]
  PROVE  Defined' /\ \A o \in Template \ {t} : template'[o] = template[o]
  <1>1. days # {} /\ template \in [Template -> TemplateRow]
    <2>1. days # {}
      BY CalendarAssumption
    <2>2. QED
      BY <2>1 DEF TypeOK, TemplateRow
  <1>2. template'[t].days = days /\ \A o \in Template \ {t} : template'[o] = template[o]
    BY <1>1 DEF TemplateRow
  <1>3. \A e \in Entry : entry[e].template \in Template \cup {NoTemplate}
    BY DEF TypeOK
  <1>4. ASSUME NEW e \in Entry, entry[e].template # NoTemplate
        PROVE  template'[entry[e].template].days # {}
    <2>1. CASE entry[e].template = t
      BY <1>1, <1>2, <2>1
    <2>2. CASE entry[e].template # t
      BY <1>2, <1>3, <1>4, <2>2 DEF Defined
    <2>3. QED
      BY <2>1, <2>2
  <1>5. QED
    BY <1>2, <1>4 DEF Defined

LEMMA TemplateCovers ==
  ASSUME IInv, DueInv, NEW t \in Template,
         \/ delete_template(t)
         \/ \E days \in RoutineDays : create_template(t, days) \/ update_template(t, days)
  PROVE  DueInv'
  <1> DEFINE S == Touched(EntriesOf(t))
  <1>0. /\ TypeOK /\ Defined /\ Known /\ Covered
        /\ template \in [Template -> TemplateRow] /\ entry \in [Entry -> EntryRow]
    BY DEF IInv, DueInv, TypeOK, TemplateRow, EntryRow
  <1>1. UNCHANGED <<goal, habit, pauses, removed, actions>>
    BY DEF delete_template, create_template, update_template
  <1>2. EntriesOf(t) \subseteq Entry /\ S \in SUBSET Source
    BY TouchedSources DEF EntriesOf
  <1>3. ASSUME NEW e \in Entry, e \in EntriesOf(t) PROVE e \in S /\ entry[e].habit \in S \cup {NoHabit}
    BY <1>0, <1>2, <1>3, TouchedTells
  <1>4. \A e \in Entry \ EntriesOf(t) : LiveEntry(e) => entry[e].template \in Template \ {t}
    BY <1>0 DEF EntriesOf, LiveEntry, EntryRow
  <1>5. ActiveKeys' = ActiveKeys
    BY <1>1, SameKeys
  <1> HIDE DEF S
  <1>6. CASE \E days \in RoutineDays : create_template(t, days)
    <2>1. PICK days \in RoutineDays : create_template(t, days)
      BY <1>6
    <2>2. /\ template' = [template EXCEPT ![t].days = days] /\ template[t].days = {}
          /\ UNCHANGED <<entry, gen>>
      BY <2>1 DEF create_template
    <2>3. Defined' /\ \A o \in Template \ {t} : template'[o] = template[o]
      BY <1>0, <1>1, <2>2, TemplatesDefined
    <2>4. \A e \in Entry : LiveEntry(e) => entry[e].template \in Template \ {t}
      BY <1>0, <2>2 DEF Defined, LiveEntry, EntryRow
    <2>5. Frame({})
      BY <1>1, <2>2, <2>3, <2>4, RoutinesFrame
    <2>6. QED
      BY <1>0, <1>1, <1>5, <2>2, <2>3, <2>5, PlainCovers DEF DueInv
  <1>7. CASE \E days \in RoutineDays : update_template(t, days)
    <2>1. PICK days \in RoutineDays : update_template(t, days)
      BY <1>7
    <2>2. /\ template' = [template EXCEPT ![t].days = days] /\ Edit(S)
          /\ UNCHANGED <<entry>>
      BY <2>1 DEF update_template, S
    <2>3. Defined' /\ \A o \in Template \ {t} : template'[o] = template[o]
      BY <1>0, <1>1, <2>2, TemplatesDefined
    <2>4. Frame(S)
      BY <1>1, <1>3, <1>4, <2>2, <2>3, RoutinesFrame
    <2>5. QED
      BY <1>0, <1>1, <1>2, <1>5, <2>2, <2>3, <2>4, EditCovers DEF DueInv
  <1>8. CASE delete_template(t)
    <2> DEFINE R(e) == [entry[e] EXCEPT !.deleted = @ \/ e \in EntriesOf(t)]
    <2>1. /\ template' = [template EXCEPT ![t].deleted = TRUE] /\ Edit(S)
          /\ entry' = [e \in Entry |-> R(e)]
      BY <1>8 DEF delete_template, S
    <2>2. ASSUME NEW e \in Entry
          PROVE  R(e).template = entry[e].template /\ (e \notin EntriesOf(t) => R(e) = entry[e])
      <3> DEFINE v == entry[e].deleted \/ e \in EntriesOf(t)
      <3>1. entry[e] \in EntryRow /\ entry[e].deleted \in BOOLEAN
        BY <1>0 DEF EntryRow
      <3>2. e \notin EntriesOf(t) => v = entry[e].deleted
        BY <3>1
      <3>3. R(e) = [entry[e] EXCEPT !.deleted = v]
        OBVIOUS
      <3> HIDE DEF v, R
      <3>4. QED
        BY <3>1, <3>2, <3>3 DEF EntryRow
    <2> HIDE DEF R
    <2>3. \A e \in Entry : /\ entry'[e].template = entry[e].template
                           /\ e \notin EntriesOf(t) => entry'[e] = entry[e]
      BY <2>1, <2>2
    <2>4. /\ \A o \in Template : template'[o].days = template[o].days
          /\ \A o \in Template \ {t} : template'[o] = template[o]
      BY <1>0, <2>1 DEF TemplateRow
    <2>5. Defined'
      <3>1. \A e \in Entry : entry[e].template \in Template \cup {NoTemplate}
        BY <1>0 DEF TypeOK
      <3>2. QED
        BY <1>0, <1>1, <2>3, <2>4, <3>1 DEF Defined
    <2>6. Frame(S)
      BY <1>1, <1>3, <1>4, <2>3, <2>4, RoutinesFrame
    <2>7. QED
      BY <1>0, <1>1, <1>2, <1>5, <2>1, <2>5, <2>6, EditCovers DEF DueInv
  <1>9. QED
    BY <1>6, <1>7, <1>8

(* One entry changes, and keeps a template that was created.                  *)
LEMMA OneEntryCovers ==
  ASSUME IInv, DueInv, NEW e \in Entry, NEW S \in SUBSET Source, Edit(S), e \in S,
         entry[e].habit \in S \cup {NoHabit}, NEW r \in EntryRow, entry' = [entry EXCEPT ![e] = r],
         r.template # NoTemplate => template[r.template].days # {},
         UNCHANGED <<goal, habit, pauses, template, removed, actions>>
  PROVE  DueInv'
  <1>0. Defined /\ Known /\ Covered /\ entry \in [Entry -> EntryRow]
    BY DEF IInv, DueInv, TypeOK, EntryRow
  <1>1. entry'[e] = r /\ \A o \in Entry \ {e} : entry'[o] = entry[o]
    BY <1>0
  <1>2. Frame(S)
    BY <1>1, RoutinesFrame
  <1>3. Defined'
    BY <1>0, <1>1 DEF Defined
  <1>4. ActiveKeys' = ActiveKeys
    BY SameKeys
  <1>5. QED
    BY <1>0, <1>2, <1>3, <1>4, EditCovers DEF DueInv

LEMMA EntryCovers ==
  ASSUME IInv, DueInv, NEW e \in Entry,
         \/ \E t \in Template, h \in Habit \cup {NoHabit} : create_entry(e, t, h)
         \/ \E h \in Habit \cup {NoHabit} : update_entry(e, h)
         \/ delete_entry(e)
  PROVE  DueInv'
  <1>0. TypeOK /\ Defined /\ entry \in [Entry -> EntryRow] /\ entry[e] \in EntryRow
    BY DEF IInv, DueInv, TypeOK, EntryRow
  <1>1. /\ UNCHANGED <<goal, habit, pauses, template, removed, actions>> /\ e \in Source
        /\ entry[e].habit \in Source \cup {NoHabit}
    BY <1>0 DEF create_entry, update_entry, delete_entry, Source, EntryRow
  <1>2. entry[e].template # NoTemplate => template[entry[e].template].days # {}
    BY <1>0 DEF Defined
  <1>3. ASSUME NEW t \in Template, NEW h \in Habit \cup {NoHabit}, create_entry(e, t, h)
        PROVE  DueInv'
    <2> DEFINE r == [[entry[e] EXCEPT !.template = t] EXCEPT !.habit = h]
    <2>1. entry' = [entry EXCEPT ![e] = r] /\ Edit({e, h} \cap Source) /\ LiveTemplate(t)
          /\ entry[e].habit = NoHabit
      <3>1. /\ entry' = [entry EXCEPT ![e].template = t, ![e].habit = h] /\ entry[e] = NoEntry
            /\ Edit({e, h} \cap Source) /\ LiveTemplate(t)
        BY <1>3 DEF create_entry
      <3>2. entry' = [entry EXCEPT ![e] = r]
        BY <1>0, <3>1
      <3>3. entry[e].habit = NoHabit
        BY <3>1 DEF NoEntry
      <3>4. QED
        BY <3>1, <3>2, <3>3
    <2>2. r \in EntryRow /\ r.template = t
      BY <1>0 DEF EntryRow
    <2>3. {e, h} \cap Source \in SUBSET Source /\ e \in {e, h} \cap Source
      BY <1>1
    <2>4. template[t].days # {}
      BY <2>1 DEF LiveTemplate
    <2> HIDE DEF r
    <2>5. QED
      BY <1>1, <2>1, <2>2, <2>3, <2>4, OneEntryCovers
  <1>4. ASSUME NEW h \in Habit \cup {NoHabit}, update_entry(e, h) PROVE DueInv'
    <2> DEFINE r == [entry[e] EXCEPT !.habit = h]
               S == {e, h, entry[e].habit} \cap Source
    <2>1. entry' = [entry EXCEPT ![e] = r] /\ Edit(S)
      BY <1>0, <1>4 DEF update_entry
    <2>2. r \in EntryRow /\ r.template = entry[e].template
      BY <1>0 DEF EntryRow
    <2>3. S \in SUBSET Source /\ e \in S /\ entry[e].habit \in S \cup {NoHabit}
      BY <1>1
    <2> HIDE DEF r, S
    <2>4. QED
      BY <1>1, <1>2, <2>1, <2>2, <2>3, OneEntryCovers
  <1>5. CASE delete_entry(e)
    <2> DEFINE r == [entry[e] EXCEPT !.deleted = TRUE]
               S == Touched({e})
    <2>1. entry' = [entry EXCEPT ![e] = r] /\ Edit(S)
      BY <1>0, <1>5 DEF delete_entry
    <2>2. r \in EntryRow /\ r.template = entry[e].template
      BY <1>0 DEF EntryRow
    <2>3. S \in SUBSET Source /\ e \in S /\ entry[e].habit \in S \cup {NoHabit}
      BY <1>0, TouchedTells, TouchedSources
    <2> HIDE DEF r, S
    <2>4. QED
      BY <1>1, <1>2, <2>1, <2>2, <2>3, OneEntryCovers
  <1>6. QED
    BY <1>3, <1>4, <1>5

LEMMA SameDefinitions ==
  ASSUME UNCHANGED <<goal, habit, pauses, template, entry>>
  PROVE  Frame({}) /\ (Defined => Defined')
  <1>1. Frame({})
    BY HabitsFrame
  <1>2. QED
    BY <1>1 DEF Defined

LEMMA TickCovers ==
  ASSUME IInv, DueInv, Tick \/ UNCHANGED vars PROVE DueInv'
  <1>1. UNCHANGED <<goal, habit, pauses, template, entry, removed, actions, gen>>
    BY DEF Tick, definitions, vars
  <1>2. QED
    BY <1>1, SameDefinitions, SameKeys, PlainCovers DEF DueInv

(* An active action that is replaced by another one of its occurrence.        *)
LEMMA PutKeys ==
  ASSUME NEW a \in Active, NEW b, Put(a, b), b.live, Key(b) = Key(a)
  PROVE  ActiveKeys \subseteq ActiveKeys' /\ Key(a) \in ActiveKeys
  <1>1. Active' = (Active \ {a}) \cup {b}
    BY DEF Active, Put
  <1>2. QED
    BY <1>1 DEF ActiveKeys

LEMMA TransitionCovers ==
  ASSUME IInv, DueInv, NEW a \in Active, NEW new \in {"Started", "Completed", "Skipped"},
         transition(a, new)
  PROVE  DueInv'
  <1> DEFINE b == [a EXCEPT !.status = new]
  <1>1. /\ UNCHANGED <<goal, habit, pauses, template, entry, removed, gen>> /\ Put(a, b)
    BY DEF transition, definitions
  <1>2. a \in ActRow /\ a.live
    BY DEF IInv, Rows, Active
  <1>3. b.live /\ Key(b) = Key(a)
    BY <1>2 DEF ActRow, Key
  <1> HIDE DEF b
  <1>4. ActiveKeys \subseteq ActiveKeys'
    BY <1>1, <1>3, PutKeys
  <1>5. QED
    BY <1>1, <1>4, SameDefinitions, PlainCovers DEF DueInv

(* A move lifts the cancellation of a habit's occurrence that is active.      *)
LEMMA RescheduleCovers ==
  ASSUME IInv, DueInv, NEW a \in Active, NEW d0 \in Day, NEW slot \in 0..(Slots - 1),
         reschedule(a, d0, slot)
  PROVE  DueInv'
  <1> DEFINE start == d0 * Slots + slot
             b == [a EXCEPT !.date = d0, !.start = start]
  <1>0. Rows /\ GenSound /\ Defined /\ Known /\ Covered /\ a \in ActRow /\ a.live
    BY DEF IInv, DueInv, Rows, Active
  <1>1. /\ removed' = (IF a.source \in Habit THEN removed \ {Key(a)} ELSE removed) /\ Put(a, b)
        /\ UNCHANGED <<goal, habit, pauses, template, entry, gen>>
    BY DEF reschedule, definitions
  <1> HIDE DEF start
  <1>2. b.live /\ Key(b) = Key(a) /\ Key(a) = <<a.source, a.occ>>
    BY <1>0 DEF ActRow, Key
  <1> HIDE DEF b
  <1>3. ActiveKeys \subseteq ActiveKeys' /\ Key(a) \in ActiveKeys
    BY <1>1, <1>2, PutKeys
  <1>4. Frame({}) /\ Defined' /\ Kept
    BY <1>0, <1>1, SameDefinitions, SameKeeps
  <1>5. Known'
    BY <1>0, <1>4, KnownKept
  <1>6. ASSUME NEW d \in Day, NEW s \in Source, Due(s, d)'
        PROVE  <<s, d>> \in ActiveKeys' \/ Due(s, d)
    <2>1. CASE <<s, d>> = Key(a)
      BY <1>3, <2>1
    <2>2. CASE <<s, d>> # Key(a)
      <3>1. ASSUME NEW x \in Entry \cup {s} PROVE Removed(x, d)' <=> Removed(x, d)
        <4>1. a.source \in Habit => <<x, d>> # Key(a)
          BY <1>2, <2>2, IdAssumption
        <4>2. QED
          BY <1>1, <4>1 DEF Removed
      <3>2. QED
        BY <1>4, <1>6, <3>1, DueKept
    <2>3. QED
      BY <2>1, <2>2
  <1>7. Covered'
    BY <1>0, <1>3, <1>4, <1>6, CoveredKept
  <1>8. QED
    BY <1>4, <1>5, <1>7 DEF DueInv

(* A cancellation may make the habit due that the cancelled entry stood for:  *)
(* generations that have read the day's overrides are told of both.           *)
LEMMA CancelCovers ==
  ASSUME IInv, DueInv, NEW a \in Active, cancel(a) PROVE DueInv'
  <1> DEFINE b == [a EXCEPT !.live = FALSE]
             T == Touched({a.source} \cap Entry)
  <1>0. Rows /\ GenSound /\ Defined /\ Known /\ Covered /\ a \in ActRow
    BY DEF IInv, DueInv, Rows, Active
  <1>1. /\ removed' = removed \cup {Key(a)} /\ Put(a, b)
        /\ UNCHANGED <<goal, habit, pauses, template, entry>>
    BY DEF cancel, definitions
  <1>2. Kept /\ \A g \in Generator : gen[g] \in GenRow /\ ~ Unread(g, a.occ) =>
                  a.source \in gen'[g].missed /\ T \subseteq gen'[g].missed
    BY <1>0, CancelTells
  <1>3. Key(a) = <<a.source, a.occ>>
    BY DEF Key
  <1>4. \A k \in ActiveKeys : k = Key(a) \/ k \in ActiveKeys'
    <2>1. Active \ {a} \subseteq Active'
      BY <1>1 DEF Put, Active
    <2>2. QED
      BY <2>1 DEF ActiveKeys
  <1>5. Frame({}) /\ Defined'
    BY <1>0, <1>1, SameDefinitions
  <1>6. Known'
    BY <1>0, <1>2, <1>5, KnownKept
  <1>7. ASSUME NEW d \in Day, NEW s \in Source, <<s, d>> # Key(a), Due(s, d)',
               d = a.occ => s \notin T
        PROVE  Due(s, d)
    <2>1. \A x : <<x, d>> # Key(a) => (Removed(x, d)' <=> Removed(x, d))
      BY <1>1 DEF Removed
    <2>2. \A e : (EntryOn(e, d)' <=> EntryOn(e, d)) /\ entry'[e] = entry[e]
      BY <1>1 DEF EntryOn, LiveEntry, LiveTemplate
    <2>3. CASE s \in Entry /\ DueEntry(s, d)'
      BY <1>7, <2>1, <2>2, <2>3 DEF Due, DueEntry
    <2>4. CASE s \in Habit /\ DueHabit(s, d)'
      <3>1. HabitOn(s, d) /\ ~ Removed(s, d)
        BY <1>1, <1>7, <2>1, <2>4, SameHabit DEF DueHabit
      <3>2. ASSUME NEW e \in Entry, DueEntry(e, d), entry[e].habit = s PROVE FALSE
        <4>1. <<e, d>> # Key(a)
          BY <1>3, <1>7, <2>4, <3>2 DEF Touched
        <4>2. DueEntry(e, d)' /\ entry'[e].habit = s
          BY <2>1, <2>2, <3>2, <4>1 DEF DueEntry
        <4>3. QED
          BY <2>4, <4>2 DEF DueHabit, Represented
      <3>3. QED
        BY <2>4, <3>1, <3>2 DEF Due, DueHabit, Represented
    <2>5. QED
      BY <1>7, <2>3, <2>4 DEF Due
  <1>8. ASSUME NEW d \in Day, NEW s \in Source, Due(s, d)' PROVE <<s, d>> # Key(a)
    <2>1. ~ Removed(s, d)'
      BY <1>8 DEF Due, DueEntry, DueHabit
    <2>2. QED
      BY <1>1, <2>1 DEF Removed
  <1> HIDE DEF T, b
  <1>9. \A g \in Generator, d \in Day, s \in Source :
           gen[g] \in GenRow /\ s \notin gen'[g].missed /\ Due(s, d)' =>
             Unread(g, d) \/ (Due(s, d) /\ (<<s, d>> \in ActiveKeys => <<s, d>> \in ActiveKeys'))
    BY <1>2, <1>4, <1>7, <1>8
  <1>10. Covered'
    BY <1>0, <1>2, <1>9, CoveredKept
  <1>11. QED
    BY <1>5, <1>6, <1>10 DEF DueInv

(* A step of one generation: the definitions and overrides stay as they are.  *)
LEMMA GenCovers ==
  ASSUME IInv, DueInv, NEW g \in Generator, \A o \in Generator \ {g} : gen'[o] = gen[o],
         UNCHANGED <<goal, habit, pauses, template, entry, removed>>,
         ActiveKeys \subseteq ActiveKeys',
         InFlight(g)' =>
           /\ KnownTo(gen'[g])
           /\ \A d \in DOMAIN gen'[g].src : \A s \in Source \ gen'[g].missed :
                Due(s, d) => Handled(g, s, d)'
  PROVE  DueInv'
  <1>0. Defined' /\ Known /\ Covered
    BY SameDefinitions DEF DueInv
  <1>1. \A e, d : (EntryOn(e, d)' <=> EntryOn(e, d)) /\ ViewOf(e)' = ViewOf(e)
    BY DEF EntryOn, ViewOf, LiveEntry, LiveTemplate
  <1>2. \A h, d : HabitOn(h, d)' <=> HabitOn(h, d)
    BY DEF HabitOn, LiveHabit, habit_scheduled_on, GoalArchived, in_pause
  <1>3. \A s, d : Due(s, d)' <=> Due(s, d)
    BY <1>1, <1>2 DEF Due, DueEntry, DueHabit, Represented, Removed
  <1>4. \A o \in Generator : KnownTo(gen[o])' <=> KnownTo(gen'[o])
    BY <1>1, <1>2 DEF KnownTo
  <1>5. \A o \in Generator \ {g} :
          /\ InFlight(o)' <=> InFlight(o)
          /\ Written(o)' = Written(o)
          /\ \A d : Unread(o, d)' <=> Unread(o, d)
    BY DEF InFlight, Written, Unread
  <1>6. Known'
    BY <1>0, <1>4, <1>5 DEF Known
  <1>7. ASSUME NEW o \in Generator, InFlight(o)', NEW d \in DOMAIN gen'[o].src,
               NEW s \in Source \ gen'[o].missed, Due(s, d)'
        PROVE  Handled(o, s, d)'
    <2>1. CASE o = g
      BY <1>3, <1>7, <2>1
    <2>2. CASE o # g
      <3>1. Handled(o, s, d)
        BY <1>0, <1>3, <1>5, <1>7, <2>2 DEF Covered
      <3>2. gen'[o] = gen[o] /\ Written(o)' = Written(o) /\ (Unread(o, d)' <=> Unread(o, d))
        BY <1>5, <2>2
      <3>3. QED
        BY <3>1, <3>2 DEF Handled
    <2>3. QED
      BY <2>1, <2>2
  <1>8. QED
    BY <1>0, <1>6, <1>7 DEF DueInv, Covered

(* A generation ends: its rows become active, or are lost.                    *)
LEMMA EndCovers ==
  ASSUME IInv, DueInv, NEW g \in Generator, Commit(g) \/ Rollback(g) PROVE DueInv'
  <1>1. /\ gen' = [gen EXCEPT ![g] = Done] /\ actions \subseteq actions'
        /\ UNCHANGED <<goal, habit, pauses, template, entry, removed>>
    BY DEF Commit, Rollback, definitions
  <1>2. gen'[g] = Done /\ \A o \in Generator \ {g} : gen'[o] = gen[o]
    BY <1>1 DEF IInv, Rows
  <1>3. ~ InFlight(g)'
    BY <1>2 DEF InFlight
  <1>4. ActiveKeys \subseteq ActiveKeys'
    BY <1>1 DEF ActiveKeys, Active
  <1>5. QED
    BY <1>1, <1>2, <1>3, <1>4, GenCovers

(* A generation has read nothing of the overrides yet.                        *)
LEMMA LoadCovers ==
  ASSUME IInv, DueInv, NEW g \in Generator, Load(g) PROVE DueInv'
  <1> DEFINE ds == local_dates(g)
             v == [d \in Range(ds) |-> Sources(d)]
             r == [pc |-> "loaded", days |-> ds, src |-> v, plan |-> {}, rows |-> {},
                   made |-> {}, missed |-> {}]
  <1>1. /\ gen' = [gen EXCEPT ![g] = r] /\ UNCHANGED actions
        /\ UNCHANGED <<goal, habit, pauses, template, entry, removed>>
    BY DEF Load, definitions
  <1>2. gen'[g] = r /\ \A o \in Generator \ {g} : gen'[o] = gen[o]
    BY <1>1 DEF IInv, Rows
  <1>3. r.pc = "loaded" /\ r.days = ds /\ r.src = v
    OBVIOUS
  <1>4. DOMAIN v = Range(ds) /\ \A d \in Range(ds) : v[d] = Sources(d)
    OBVIOUS
  <1>5. ds \in [1..Len(Dates[g]) -> Range(ds)] /\ Len(ds) = Len(Dates[g])
    <2>1. Dates[g] \in Seq({0, 1})
      BY IdAssumption
    <2>2. Len(Dates[g]) \in Nat
      BY <2>1
    <2>3. QED
      BY <2>2 DEF local_dates, Range
  <1> HIDE DEF r, v, ds
  <1>6. ASSUME NEW d \in DOMAIN gen'[g].src PROVE Unread(g, d)'
    <2>1. d \in Range(ds) /\ DOMAIN ds = 1..Len(ds)
      BY <1>2, <1>3, <1>4, <1>5
    <2>2. PICK i \in 1..Len(ds) : ds[i] = d
      BY <2>1 DEF Range
    <2>3. QED
      BY <1>2, <1>3, <2>2 DEF Unread
  <1>7. KnownTo(gen'[g])
    <2>1. ASSUME NEW d \in Range(ds), NEW x \in Sources(d).entries
          PROVE  EntryOn(x.id, d) /\ ViewOf(x.id) = x
      <3>1. PICK e \in Entry : EntryOn(e, d) /\ x = ViewOf(e)
        BY SourcesAre
      <3>2. QED
        BY <3>1, ViewParts
    <2>2. QED
      BY <1>2, <1>3, <1>4, <2>1, SourcesAre DEF KnownTo
  <1>8. ActiveKeys \subseteq ActiveKeys'
    BY <1>1, SameKeys
  <1>9. QED
    BY <1>1, <1>2, <1>6, <1>7, <1>8, GenCovers DEF Handled

(* The plan of a day holds what is due on it, as far as the generation knows. *)
LEMMA LoadOverridesCovers ==
  ASSUME IInv, DueInv, NEW g \in Generator, _load_overrides(g) PROVE DueInv'
  <1> DEFINE q == gen[g]
             d0 == Head(q.days)
             P == plan_occurrences(q.src[d0], d0)
             r == [[q EXCEPT !.pc = "planned"] EXCEPT !.plan = P]
  <1>0. Rows /\ GenSound /\ Known /\ Covered
    BY DEF IInv, DueInv
  <1>1. /\ q.pc = "loaded" /\ gen' = [gen EXCEPT ![g].pc = "planned", ![g].plan = P]
        /\ UNCHANGED <<goal, habit, pauses, template, entry, removed, actions>>
    BY DEF _load_overrides, definitions
  <1>2. q \in GenRow /\ InFlight(g)
    BY <1>0, <1>1, GenParts
  <1>3. q.days \in Seq(Day) /\ q.days # <<>> /\ q.src \in DayViews
    BY <1>0, <1>1, <1>2, GenFields DEF GenSound, DaysSound
  <1>4. d0 = q.days[1] /\ d0 \in DOMAIN q.src
    BY <1>0, <1>2, <1>3 DEF GenSound, DaysSound
  <1>5. gen'[g] = r /\ \A o \in Generator \ {g} : gen'[o] = gen[o]
    BY <1>0, <1>1 DEF Rows
  <1> HIDE DEF d0, P
  <1>6. /\ r.pc = "planned" /\ r.days = q.days /\ r.src = q.src /\ r.plan = P
        /\ r.rows = q.rows /\ r.missed = q.missed
    BY <1>2 DEF GenRow
  <1> HIDE DEF r
  <1>7. KnownTo(q) /\ KnownTo(gen'[g])
    BY <1>0, <1>2, <1>5, <1>6 DEF Known, KnownTo
  <1>8. ActiveKeys' = ActiveKeys
    BY <1>1, SameKeys
  <1>9. Written(g) \subseteq Written(g)'
    <2>1. InFlight(g)'
      BY <1>5, <1>6 DEF InFlight, Idle, Done
    <2>2. QED
      BY <1>2, <1>5, <1>6, <2>1 DEF Written
  <1>10. ASSUME NEW d \in DOMAIN gen'[g].src, NEW s \in Source \ gen'[g].missed, Due(s, d)
         PROVE  Handled(g, s, d)'
    <2>1. CASE d = d0
      <3>1. q.src[d].entries \subseteq EntryView
        BY <1>3, <1>4, <2>1, ViewFields
      <3>2. \E p \in plan_occurrences(q.src[d], d) : p.source = s
        BY <1>4, <1>5, <1>6, <1>7, <1>10, <2>1, <3>1, DueIsPlanned
      <3>3. QED
        BY <1>4, <1>5, <1>6, <2>1, <3>2 DEF Handled, P
    <2>2. CASE d # d0
      <3>1. Handled(g, s, d)
        BY <1>0, <1>2, <1>5, <1>6, <1>10 DEF Covered
      <3>2. Unread(g, d) => Unread(g, d)'
        BY <1>1, <1>4, <1>5, <1>6, <2>2 DEF Unread
      <3>3. QED
        BY <1>1, <1>8, <1>9, <3>1, <3>2 DEF Handled
    <2>3. QED
      BY <2>1, <2>2
  <1>11. QED
    BY <1>1, <1>5, <1>7, <1>8, <1>10, GenCovers

(* What is planned is there already, or written now.                          *)
LEMMA PersistCovers ==
  ASSUME IInv, DueInv, NEW g \in Generator, _persist(g) PROVE DueInv'
  <1> DEFINE q == gen[g]
             d0 == Head(q.days)
             new == {p \in q.plan : ~ Taken(p.source, d0)}
             R(p) == [source |-> p.source, occ |-> d0, date |-> d0, start |-> p.start,
                      status |-> "Planned", live |-> TRUE]
             N == {R(p) : p \in new}
             M == UNION {p.template \X {d0} : p \in q.plan}
             pc == IF Len(q.days) = 1 THEN "written" ELSE "loaded"
             r == [q EXCEPT !.pc = pc, !.days = Tail(@), !.plan = {}, !.made = @ \cup M,
                            !.rows = @ \cup N]
  <1>0. Rows /\ GenSound /\ Known /\ Covered
    BY DEF IInv, DueInv
  <1>1. /\ q.pc = "planned"
        /\ gen' = [gen EXCEPT ![g].pc = pc, ![g].days = Tail(@), ![g].plan = {},
                              ![g].made = @ \cup M, ![g].rows = @ \cup N]
        /\ UNCHANGED <<goal, habit, pauses, template, entry, removed, actions>>
    BY DEF _persist, definitions
  <1>2. q \in GenRow /\ InFlight(g)
    BY <1>0, <1>1, GenParts
  <1>3. q.days \in Seq(Day) /\ q.days # <<>> /\ q.src \in DayViews
    BY <1>0, <1>1, <1>2, GenFields DEF GenSound, DaysSound
  <1>4. d0 = q.days[1]
    BY <1>3
  <1>5. gen'[g] = r /\ \A o \in Generator \ {g} : gen'[o] = gen[o]
    BY <1>0, <1>1 DEF Rows
  <1>6. \A p \in new : R(p) \in N /\ Key(R(p)) = <<p.source, d0>>
    BY DEF Key
  <1> HIDE DEF d0, N, M, pc, R
  <1>7. /\ r.pc = pc /\ r.days = Tail(q.days) /\ r.src = q.src
        /\ r.rows = q.rows \cup N /\ r.missed = q.missed
    BY <1>2 DEF GenRow
  <1> HIDE DEF r
  <1>8. KnownTo(gen'[g])
    BY <1>0, <1>2, <1>5, <1>7 DEF Known, KnownTo
  <1>9. ActiveKeys' = ActiveKeys
    BY <1>1, SameKeys
  <1>10. Written(g) \subseteq Written(g)' /\ \A p \in new : <<p.source, d0>> \in Written(g)'
    <2>1. InFlight(g)'
      BY <1>5, <1>7 DEF InFlight, Idle, Done, pc
    <2>2. Written(g) = {Key(a) : a \in q.rows} /\ Written(g)' = {Key(a) : a \in q.rows \cup N}
      BY <1>2, <1>5, <1>7, <2>1 DEF Written
    <2> HIDE DEF new, q
    <2>3. QED
      BY <1>6, <2>2
  <1>11. ASSUME NEW d \in DOMAIN gen'[g].src, NEW s \in Source \ gen'[g].missed, Due(s, d)
         PROVE  Handled(g, s, d)'
    <2>1. Handled(g, s, d)
      BY <1>0, <1>2, <1>5, <1>7, <1>11 DEF Covered
    <2>2. CASE Unread(g, d)
      <3>1. PICK i \in 1..Len(q.days) : q.days[i] = d /\ i # 1
        BY <1>1, <2>2 DEF Unread
      <3>2. /\ i - 1 \in 1..Len(Tail(q.days)) /\ Tail(q.days)[i - 1] = d /\ Len(q.days) # 1
        BY <1>3, <3>1
      <3>3. gen'[g].days[i - 1] = d /\ i - 1 \in 1..Len(gen'[g].days) /\ gen'[g].pc = "loaded"
        BY <1>5, <1>7, <3>2 DEF pc
      <3>4. Unread(g, d)'
        BY <3>3 DEF Unread
      <3>5. QED
        BY <3>4 DEF Handled
    <2>3. CASE d = q.days[1] /\ \E p \in q.plan : p.source = s
      <3>1. PICK p \in q.plan : p.source = s /\ d = d0
        BY <1>4, <2>3
      <3>2. CASE p \in new
        BY <1>10, <3>1, <3>2 DEF Handled
      <3>3. CASE p \notin new
        BY <1>9, <3>1, <3>3 DEF Handled, Taken
      <3>4. QED
        BY <3>2, <3>3
    <2>4. CASE <<s, d>> \in Written(g) \/ <<s, d>> \in ActiveKeys
      BY <1>9, <1>10, <2>4 DEF Handled
    <2>5. QED
      BY <2>1, <2>2, <2>3, <2>4 DEF Handled
  <1>12. QED
    BY <1>1, <1>5, <1>8, <1>9, <1>11, GenCovers

LEMMA InitDue == Init => DueInv
  <1> SUFFICES ASSUME Init PROVE DueInv
    OBVIOUS
  <1>1. \A g \in Generator : ~ InFlight(g)
    BY DEF Init, InFlight
  <1>2. goal \in [Goal -> GoalRow]
    BY DEF Init, GoalRow
  <1>3. habit \in [Habit -> HabitRow]
    <2>1. NoDate \in Int /\ 0..(Week - 1) \in SUBSET Int /\ 0 \in Int /\ {} \in SUBSET Int
      BY CalendarAssumption DEF NoDate
    <2>2. NoHabitYet \in HabitRow
      BY <2>1 DEF NoHabitYet, HabitRow
    <2> DEFINE W == 0..(Week - 1)
    <2>3. Everyday = [NoHabitYet EXCEPT !.created = 0, !.days = W]
      BY DEF Everyday
    <2> HIDE DEF W
    <2>4. W \in SUBSET Int
      BY <2>1 DEF W
    <2>5. Everyday \in HabitRow
      BY <2>1, <2>2, <2>3, <2>4 DEF HabitRow
    <2>6. QED
      BY <2>2, <2>5 DEF Init
  <1>4. \A e \in Entry : entry[e].template = NoTemplate
    BY DEF Init, NoEntry
  <1>5. QED
    BY <1>1, <1>2, <1>3, <1>4 DEF DueInv, Defined, Known, Covered

LEMMA NextDue == IInv /\ DueInv /\ [Next]_vars => DueInv'
  <1> SUFFICES ASSUME IInv, DueInv, [Next]_vars PROVE DueInv'
    OBVIOUS
  <1>1. ASSUME NEW g \in Generator,
               Load(g) \/ _load_overrides(g) \/ _persist(g) \/ Commit(g) \/ Rollback(g)
        PROVE  DueInv'
    BY <1>1, LoadCovers, LoadOverridesCovers, PersistCovers, EndCovers
  <1>2. ASSUME NEW a \in Active,
               \/ cancel(a)
               \/ \E d \in Day, slot \in 0..(Slots - 1) : reschedule(a, d, slot)
               \/ \E new \in {"Started", "Completed", "Skipped"} : transition(a, new)
        PROVE  DueInv'
    BY <1>2, CancelCovers, RescheduleCovers, TransitionCovers
  <1>3. QED
    BY <1>1, <1>2, TickCovers, HabitEditCovers, GoalCovers, TemplateCovers, EntryCovers DEF Next

(* A commit makes the rows of the generation active.                          *)
LEMMA CommitKeys ==
  ASSUME Rows, NEW g \in Generator, Commit(g)
  PROVE  ActiveKeys \subseteq ActiveKeys' /\ Written(g) \subseteq ActiveKeys'
  <1> DEFINE q == gen[g]
             C(a) == Cardinality({b \in actions : Key(b) = Key(a)})
             Numbered(a) ==
               [source |-> a.source, occ |-> a.occ, date |-> a.date, start |-> a.start,
                status |-> a.status, live |-> a.live, nr |-> C(a),
                missed |-> a.source \in q.missed]
             N == {Numbered(a) : a \in q.rows}
  <1>1. q.pc = "written" /\ actions' = actions \cup N
    BY DEF Commit
  <1>2. q \in GenRow /\ InFlight(g)
    BY <1>1, GenParts
  <1>3. \A a \in q.rows : a.live
    BY <1>2 DEF GenRow, NewRow
  <1>4. \A a \in q.rows : /\ Numbered(a) \in N /\ Key(Numbered(a)) = Key(a)
                          /\ Numbered(a).live = a.live
    BY DEF Key
  <1> HIDE DEF Numbered, N
  <1>5. ActiveKeys \subseteq ActiveKeys'
    BY <1>1 DEF ActiveKeys, Active
  <1>6. ASSUME NEW k \in Written(g) PROVE k \in ActiveKeys'
    <2>1. PICK a \in q.rows : k = Key(a)
      BY <1>2 DEF Written
    <2>2. Numbered(a) \in Active'
      BY <1>1, <1>3, <1>4 DEF Active
    <2>3. QED
      BY <1>4, <2>1, <2>2 DEF ActiveKeys
  <1>7. QED
    BY <1>5, <1>6

(* A generation leaves no gap: once it commits, whatever is due on its days   *)
(* by the definitions and overrides of that moment has an active action, for  *)
(* every source the User did not edit while it ran.                           *)
THEOREM NothingDueIsMissed == Spec => DueIsGenerated
  <1>1. IInv /\ DueInv =>
          \A g \in Generator : Commit(g) =>
            \A d \in DOMAIN gen[g].src : \A p \in plan_occurrences(Sources(d), d) :
              p.source \notin gen[g].missed => <<p.source, d>> \in ActiveKeys'
    <2> SUFFICES ASSUME IInv, DueInv, NEW g \in Generator, Commit(g), NEW d \in DOMAIN gen[g].src,
                        NEW p \in plan_occurrences(Sources(d), d), p.source \notin gen[g].missed
                 PROVE  <<p.source, d>> \in ActiveKeys'
      OBVIOUS
    <2>1. Rows /\ Covered /\ gen[g].pc = "written"
      BY DEF IInv, DueInv, Commit
    <2>2. InFlight(g)
      BY <2>1, GenParts
    <2>3. p.source \in Source /\ Due(p.source, d)
      BY PlannedIsDue
    <2>4. Handled(g, p.source, d)
      BY <2>1, <2>2, <2>3 DEF Covered
    <2>5. <<p.source, d>> \in Written(g) \cup ActiveKeys
      BY <2>1, <2>4 DEF Handled, Unread
    <2>6. QED
      BY <2>1, <2>5, CommitKeys
  <1>2. QED
    BY <1>1, InitInv, NextInv, InitDue, NextDue, PTL DEF Spec, DueIsGenerated
=============================================================================
