--------------------------- MODULE SessionsProofs ---------------------------
(* Machine-checked theorems about the specification of module Sessions, for   *)
(* any number of sessions, validators and refreshers and any lifetimes.       *)
EXTENDS Sessions, TLAPS

SessRow == [current : 0..MaxTokens, version : 1..2,
            ended : Time \cup {Never}, expires : 0..(MaxTime + RefreshTtl)]
CacheRow == [version : 0..2, active : BOOLEAN, until : 0..(MaxTime + CacheTtl)]
MissRow == [pc : {"miss"}, session : Session]
LoadedRow == [pc : {"loaded"}, session : Session, at : Time, version : 1..2, active : BOOLEAN]

(* What TypeOK leaves open: the shape of the requests in flight.              *)
InFlight ==
    /\ ending \in [rows : SUBSET Session, told : SUBSET Session]
    /\ check \in [Validator -> {Idle} \cup MissRow \cup LoadedRow]

(* A session has ended when its version is 2, and the rows of an invalidation *)
(* in flight belong to sessions that are valid until it commits.              *)
Versions ==
    /\ \A s \in Session : sess[s].ended # Never => Live(s)
    /\ \A s \in Session : sess[s].ended = Never => sess[s].version = 1
    /\ \A s \in ending.rows : Valid(s)

(* The row locks of refresh(): the token a refresher found is the current one *)
(* of a session that no other refresher has found and no invalidation is      *)
(* updating.                                                                  *)
FoundAlone ==
    \A r \in Refresher : found[r] # NoToken =>
        /\ Live(found[r][1]) /\ sess[found[r][1]].current = found[r][2]
        /\ found[r][1] \notin ending.rows
        /\ \A q \in Refresher \ {r} : found[q] # NoToken => found[q][1] # found[r][1]

(* The history of a session: the tokens before the current one are retired,   *)
(* each rotated once.                                                         *)
History ==
    \A s \in Session : \A n \in 1..MaxTokens :
        /\ <<s, n>> \in retired <=> n < sess[s].current
        /\ rotated[<<s, n>>] = IF <<s, n>> \in retired THEN 1 ELSE 0

(* How old what admits a request can be: a validator loaded at most MaxDelay  *)
(* ago, a cache entry lives CacheTtl, and both are counted from an instant at *)
(* which the session had not ended.                                           *)
Aged ==
    /\ \A v \in Validator : check[v].pc = "loaded" =>
          /\ check[v].at <= now /\ now <= check[v].at + MaxDelay
          /\ check[v].active /\ sess[check[v].session].ended # Never =>
                check[v].at <= sess[check[v].session].ended
    /\ \A s \in Session :
          /\ cache[s].until <= now + CacheTtl /\ admitted[s] <= now
          /\ cache[s].active /\ sess[s].ended # Never =>
                cache[s].until <= sess[s].ended + MaxDelay + CacheTtl

(* The inductive invariant.                                                   *)
IInv == TypeOK /\ InFlight /\ Versions /\ FoundAlone /\ History /\ Aged /\ RevocationTakesEffect

-----------------------------------------------------------------------------
(* Lemmas on types and rows *)

(* The constants are numbers.                                                 *)
LEMMA Numbers ==
  /\ CacheTtl \in Nat /\ AccessTtl \in Nat /\ RefreshTtl \in Nat
  /\ MaxTokens \in Nat /\ MaxTokens > 0 /\ MaxDelay \in Nat /\ MaxTime \in Nat
  BY TtlAssumption

(* No refresh token is the absent one.                                        *)
LEMMA NoTokenIsNone == NoToken \notin Token
  BY DEF NoToken, Token

(* A refresh token is a session and a number.                                 *)
LEMMA TokenParts ==
  ASSUME NEW t \in Token
  PROVE  t[1] \in Session /\ t[2] \in 1..MaxTokens /\ t = <<t[1], t[2]>>
  BY DEF Token

(* The type invariant, row by row.                                            *)
LEMMA Rows ==
  TypeOK => /\ now \in Time /\ now \in Nat /\ now <= MaxTime
            /\ sess \in [Session -> SessRow] /\ cache \in [Session -> CacheRow]
            /\ \A s \in Session : /\ sess[s].current \in 0..MaxTokens
                                   /\ sess[s].ended \in Int /\ sess[s].version \in 1..2
                                   /\ cache[s].until \in Int /\ cache[s].active \in BOOLEAN
                                   /\ admitted[s] \in Int
  BY Numbers DEF TypeOK, SessRow, CacheRow, Time, Never

(* What a put writes.                                                         *)
LEMMA PutOK ==
  ASSUME TypeOK, NEW version \in 0..2, NEW active \in BOOLEAN
  PROVE  /\ put(version, active) \in CacheRow /\ put(version, active).active = active
         /\ put(version, active).until = now + CacheTtl
  <1>1. now \in Nat /\ now <= MaxTime /\ now + CacheTtl \in 0..(MaxTime + CacheTtl)
    BY Rows, Numbers
  <1>2. QED
    BY <1>1 DEF put, CacheRow

(* The row _create_session() inserts.                                         *)
LEMMA CreateRow ==
  ASSUME TypeOK, NEW s \in Session, CreateSession(s)
  PROVE  /\ sess' \in [Session -> SessRow]
         /\ sess'[s].current = 1 /\ sess'[s].version = 1 /\ sess'[s].ended = Never
         /\ \A x \in Session \ {s} : sess'[x] = sess[x]
  <1> DEFINE row == [current |-> 1, version |-> 1, ended |-> Never, expires |-> now + RefreshTtl]
  <1>1. sess' = [sess EXCEPT ![s] = row] /\ sess \in [Session -> SessRow]
    BY Rows DEF CreateSession
  <1>2. now + RefreshTtl \in 0..(MaxTime + RefreshTtl) /\ 1 \in 0..MaxTokens
    BY Rows, Numbers
  <1>3. row \in SessRow
    BY <1>2 DEF SessRow
  <1>4. QED
    BY <1>1, <1>3

(* The row _rotate() leaves: the next token is the current one.               *)
LEMMA RotateRow ==
  ASSUME TypeOK, NEW r \in Refresher, _rotate(r)
  PROVE  LET s == found[r][1]
         IN  /\ found[r] \in Token /\ sess' \in [Session -> SessRow]
             /\ sess[s].ended = Never /\ sess[s].current < MaxTokens
             /\ sess'[s].current = sess[s].current + 1
             /\ sess'[s].version = sess[s].version /\ sess'[s].ended = sess[s].ended
             /\ \A x \in Session \ {s} : sess'[x] = sess[x]
  <1> DEFINE s == found[r][1]
             row == [sess[s] EXCEPT !.current = sess[s].current + 1, !.expires = now + RefreshTtl]
  <1>1. found[r] \in Token /\ s \in Session
    BY TokenParts DEF _rotate, TypeOK
  <1>2. sess[s].ended = Never /\ sess[s].current < MaxTokens
    BY DEF _rotate, Rotatable
  <1>3. sess \in [Session -> SessRow] /\ sess[s] \in SessRow
    BY <1>1, Rows
  <1>4. sess' = [sess EXCEPT ![s] = row]
    BY <1>1, <1>3 DEF _rotate
  <1>5. now + RefreshTtl \in 0..(MaxTime + RefreshTtl) /\ sess[s].current + 1 \in 0..MaxTokens
    BY <1>1, <1>2, Rows, Numbers
  <1>6. /\ row \in SessRow /\ row.current = sess[s].current + 1
        /\ row.version = sess[s].version /\ row.ended = sess[s].ended
    BY <1>3, <1>5 DEF SessRow
  <1> HIDE DEF row
  <1>7. QED
    BY <1>1, <1>2, <1>3, <1>4, <1>6

(* The rows a committed invalidation leaves.                                  *)
LEMMA CommitRow ==
  ASSUME TypeOK, Versions, CommitInvalidation
  PROVE  /\ sess' \in [Session -> SessRow]
         /\ \A s \in Session : IF s \in ending.rows
                               THEN /\ sess[s].ended = Never /\ sess'[s].ended = now
                                    /\ sess'[s].current = sess[s].current
                               ELSE sess'[s] = sess[s]
  <1> DEFINE row(s) == [sess[s] EXCEPT !.version = @ + 1, !.ended = now]
  <1>1. sess' = [s \in Session |-> IF s \in ending.rows THEN row(s) ELSE sess[s]]
    BY DEF CommitInvalidation
  <1>2. ASSUME NEW s \in Session, s \in ending.rows
        PROVE  /\ row(s) \in SessRow /\ sess[s].ended = Never
               /\ row(s).ended = now /\ row(s).current = sess[s].current
    <2>1. sess[s] \in SessRow /\ now \in Time /\ sess[s].ended = Never /\ sess[s].version = 1
      BY <1>2, Rows DEF Versions, Valid
    <2>2. sess[s].version + 1 \in 1..2 /\ now \in Time \cup {Never}
      BY <2>1
    <2>3. row(s) = [sess[s] EXCEPT !.version = sess[s].version + 1, !.ended = now]
      OBVIOUS
    <2>4. QED
      BY <2>1, <2>2, <2>3 DEF SessRow
  <1>3. \A s \in Session : sess[s] \in SessRow
    BY Rows
  <1>4. \A s \in Session : sess'[s] = IF s \in ending.rows THEN row(s) ELSE sess[s]
    BY <1>1
  <1> HIDE DEF row
  <1>5. QED
    BY <1>1, <1>2, <1>3, <1>4

(* A validator in each stage has what that stage needs.                       *)
LEMMA CheckShape ==
  ASSUME InFlight, NEW v \in Validator
  PROVE  /\ check[v].pc = "miss" => check[v].session \in Session
         /\ check[v].pc = "loaded" =>
               /\ check[v].session \in Session /\ check[v].at \in Time
               /\ check[v].version \in 1..2 /\ check[v].active \in BOOLEAN
  <1>1. check[v] \in {Idle} \cup MissRow \cup LoadedRow
    BY DEF InFlight
  <1>2. Idle.pc = "idle"
    BY DEF Idle
  <1>3. CASE check[v] = Idle
    BY <1>2, <1>3
  <1>4. CASE check[v] \in MissRow
    BY <1>4 DEF MissRow
  <1>5. CASE check[v] \in LoadedRow
    BY <1>5 DEF LoadedRow
  <1>6. QED
    BY <1>1, <1>3, <1>4, <1>5

(* The records the stages write have their shape.                             *)
LEMMA CheckRecords ==
  ASSUME TypeOK, NEW s \in Session
  PROVE  /\ [pc |-> "miss", session |-> s] \in MissRow
         /\ [pc |-> "loaded", session |-> s, at |-> now, version |-> sess[s].version,
             active |-> Valid(s)] \in LoadedRow
         /\ Idle.pc = "idle"
  <1>1. now \in Time /\ sess[s].version \in 1..2 /\ Valid(s) \in BOOLEAN
    BY Rows DEF Valid, Live
  <1>2. QED
    BY <1>1 DEF MissRow, LoadedRow, Idle

(* A decision admits at most one request, now, and only if it is positive.    *)
LEMMA AdmitOK ==
  ASSUME TypeOK, NEW s \in Session, NEW version, NEW active, Admit(s, version, active)
  PROVE  /\ admitted' \in [Session -> Time \cup {Never}]
         /\ \A x \in Session : /\ admitted'[x] = admitted[x] \/ admitted'[x] = now
                               /\ admitted'[x] # admitted[x] => x = s /\ active
  <1>1. admitted \in [Session -> Time \cup {Never}] /\ now \in Time
    BY DEF TypeOK
  <1>2. CASE active /\ version = jwt[s].version
    <2>1. admitted' = [admitted EXCEPT ![s] = now]
      BY <1>2 DEF Admit
    <2>2. QED
      BY <1>1, <1>2, <2>1
  <1>3. CASE ~ (active /\ version = jwt[s].version)
    BY <1>1, <1>3 DEF Admit
  <1>4. QED
    BY <1>2, <1>3

(* The rows an invalidation takes are valid ones that no refresh has locked.  *)
LEMMA InvalidateOK ==
  ASSUME TypeOK, NEW ids \in SUBSET Session, Invalidate(ids)
  PROVE  /\ ending' \in [rows : SUBSET Session, told : SUBSET Session]
         /\ ending'.rows \subseteq Session /\ ending'.told = {}
         /\ \A s \in ending'.rows : Valid(s) /\ ~ Held(s)
         /\ UNCHANGED <<now, sess, retired, cache, found, check, rotated, admitted>>
  <1>1. ending' = [rows |-> {s \in ids : Valid(s)}, told |-> {}]
    BY DEF Invalidate
  <1>2. QED
    BY <1>1 DEF Invalidate

(* The three ways to invalidate sessions.                                     *)
LEMMA Invalidations ==
  ASSUME TypeOK
  PROVE  /\ \A s \in Session : logout(s) => \E ids \in SUBSET Session : Invalidate(ids)
         /\ \A t \in Token : Replay(t) => \E ids \in SUBSET Session : Invalidate(ids)
         /\ invalidate_all_sessions => \E ids \in SUBSET Session : Invalidate(ids)
  <1>1. \A s \in Session : {s} \in SUBSET Session
    OBVIOUS
  <1>2. \A t \in Token : {t[1]} \in SUBSET Session
    BY TokenParts
  <1>3. {s \in Session : Valid(s)} \in SUBSET Session
    OBVIOUS
  <1>4. QED
    BY <1>1, <1>2, <1>3 DEF logout, Replay, invalidate_all_sessions

-----------------------------------------------------------------------------
(* Type correctness *)

(* Every step keeps the rows, the cache and the requests in flight well       *)
(* formed.                                                                    *)
LEMMA TypeStep ==
  ASSUME TypeOK, InFlight, Versions, [Next]_vars
  PROVE  TypeOK' /\ InFlight'
  <1> USE DEF InFlight
  <1>t. \A v \in Validator : check[v].pc \in {"idle", "miss", "loaded"}
    BY DEF TypeOK
  <1>1. CASE Tick
    <2>1. now + 1 \in Time
      BY <1>1, Rows, Numbers DEF Tick, Time
    <2>2. QED
      BY <1>1, <2>1 DEF Tick, TypeOK
  <1>2. ASSUME NEW s \in Session, CreateSession(s) PROVE TypeOK' /\ InFlight'
    <2>1. cache' \in [Session -> CacheRow]
      <3> DEFINE yes == TRUE
      <3>1. 1 \in 0..2 /\ yes \in BOOLEAN
        OBVIOUS
      <3> HIDE DEF yes
      <3>2. put(1, yes) \in CacheRow
        BY <3>1, PutOK
      <3> USE DEF yes
      <3>3. QED
        BY <1>2, <3>2, Rows DEF CreateSession
    <2>2. sess' \in [Session -> SessRow]
      BY <1>2, CreateRow
    <2>3. UNCHANGED <<now, retired, found, ending, check, rotated, admitted>>
      BY <1>2 DEF CreateSession
    <2>4. QED
      BY <2>1, <2>2, <2>3 DEF TypeOK, SessRow, CacheRow
  <1>3. ASSUME NEW ids \in SUBSET Session, Invalidate(ids) PROVE TypeOK' /\ InFlight'
    BY <1>3, InvalidateOK DEF TypeOK
  <1>4. ASSUME NEW s \in Session, revoke(s) PROVE TypeOK' /\ InFlight'
    <2>1. sess[s].version + 1 \in 0..2 /\ s \in ending.rows
      <3>1. s \in ending.rows /\ sess[s].version = 1
        BY <1>4 DEF revoke, Versions, Valid
      <3>2. QED
        BY <3>1
    <2>2. cache' \in [Session -> CacheRow]
      BY <1>4, <2>1, PutOK, Rows DEF revoke
    <2>3. /\ ending' \in [rows : SUBSET Session, told : SUBSET Session]
          /\ ending'.rows \subseteq Session /\ ending'.told \subseteq ending'.rows
      <3>1. ending' = [ending EXCEPT !.told = ending.told \cup {s}]
        BY <1>4 DEF revoke
      <3>2. ending.rows \subseteq Session /\ ending.told \cup {s} \subseteq ending.rows
        BY <2>1 DEF TypeOK
      <3>3. QED
        BY <3>1, <3>2
    <2>4. UNCHANGED <<now, sess, retired, found, check, rotated, admitted>>
      BY <1>4 DEF revoke
    <2>5. QED
      BY <2>2, <2>3, <2>4 DEF TypeOK, CacheRow
  <1>5. ASSUME NEW s \in Session, Evict(s) PROVE TypeOK' /\ InFlight'
    <2>1. NoEntry \in CacheRow
      BY Numbers DEF NoEntry, CacheRow
    <2>2. cache' \in [Session -> CacheRow]
      BY <1>5, <2>1, Rows DEF Evict
    <2>3. UNCHANGED <<now, sess, retired, found, ending, check, rotated, admitted>>
      BY <1>5 DEF Evict
    <2>4. QED
      BY <2>2, <2>3 DEF TypeOK, CacheRow
  <1>6. ASSUME NEW v \in Validator, NEW s \in Session, DecideFromCache(v, s)
        PROVE  TypeOK' /\ InFlight'
    <2>1. admitted' \in [Session -> Time \cup {Never}]
      BY <1>6, AdmitOK DEF DecideFromCache
    <2>2. UNCHANGED <<now, sess, retired, cache, found, ending, check, rotated>>
      BY <1>6 DEF DecideFromCache
    <2>3. QED
      BY <2>1, <2>2 DEF TypeOK
  <1>7. ASSUME NEW v \in Validator, NEW s \in Session, Miss(v, s) PROVE TypeOK' /\ InFlight'
    <2>1. check' = [check EXCEPT ![v] = [pc |-> "miss", session |-> s]]
      BY <1>7 DEF Miss
    <2>2. check' \in [Validator -> {Idle} \cup MissRow \cup LoadedRow]
      BY <2>1, CheckRecords
    <2>3. \A x \in Validator : check'[x].pc \in {"idle", "miss", "loaded"}
      BY <1>t, <2>1
    <2>4. UNCHANGED <<now, sess, retired, cache, found, ending, rotated, admitted>>
      BY <1>7 DEF Miss
    <2>5. QED
      BY <2>2, <2>3, <2>4 DEF TypeOK
  <1>8. ASSUME NEW t \in Token, NEW r \in Refresher, FindSession(r, t) PROVE TypeOK' /\ InFlight'
    BY <1>8 DEF FindSession, TypeOK
  <1>9. ASSUME NEW r \in Refresher, _rotate(r) PROVE TypeOK' /\ InFlight'
    <2>1. found[r] \in Token /\ sess' \in [Session -> SessRow]
      BY <1>9, RotateRow
    <2>2. retired' \subseteq Token /\ rotated' \in [Token -> Nat]
      BY <1>9, <2>1 DEF _rotate, Retire, TypeOK
    <2>3. UNCHANGED <<now, cache, ending, check, admitted>>
          /\ found' = [found EXCEPT ![r] = NoToken]
      BY <1>9 DEF _rotate
    <2>4. QED
      BY <2>1, <2>2, <2>3 DEF TypeOK, SessRow
  <1>10. ASSUME NEW r \in Refresher, RefreshFails(r) PROVE TypeOK' /\ InFlight'
    BY <1>10 DEF RefreshFails, TypeOK
  <1>11. ASSUME NEW v \in Validator, _load(v) PROVE TypeOK' /\ InFlight'
    <2> DEFINE s == check[v].session
               c == [pc |-> "loaded", session |-> s, at |-> now,
                     version |-> sess[s].version, active |-> Valid(s)]
    <2>1. check' = [check EXCEPT ![v] = c] /\ s \in Session
      BY <1>11, CheckShape DEF _load
    <2>2. c \in LoadedRow /\ c.pc = "loaded"
      BY <2>1, CheckRecords
    <2> HIDE DEF c
    <2>3. check' \in [Validator -> {Idle} \cup MissRow \cup LoadedRow]
      BY <2>1, <2>2
    <2>4. \A x \in Validator : check'[x].pc \in {"idle", "miss", "loaded"}
      BY <1>t, <2>1, <2>2
    <2>5. UNCHANGED <<now, sess, retired, cache, found, ending, rotated, admitted>>
      BY <1>11 DEF _load
    <2>6. QED
      BY <2>3, <2>4, <2>5 DEF TypeOK
  <1>12. ASSUME NEW v \in Validator, FillAndDecide(v) PROVE TypeOK' /\ InFlight'
    <2> DEFINE c == check[v]
    <2>1. c.session \in Session /\ c.version \in 0..2 /\ c.active \in BOOLEAN
      BY <1>12, CheckShape DEF FillAndDecide
    <2>2. cache' \in [Session -> CacheRow]
      BY <1>12, <2>1, PutOK, Rows DEF FillAndDecide
    <2>3. admitted' \in [Session -> Time \cup {Never}]
      BY <1>12, <2>1, AdmitOK DEF FillAndDecide
    <2>4. check' = [check EXCEPT ![v] = Idle]
      BY <1>12 DEF FillAndDecide
    <2>5. check' \in [Validator -> {Idle} \cup MissRow \cup LoadedRow]
      BY <2>4
    <2>6. \A x \in Validator : check'[x].pc \in {"idle", "miss", "loaded"}
      BY <1>t, <2>4 DEF Idle
    <2>7. UNCHANGED <<now, sess, retired, found, ending, rotated>>
      BY <1>12 DEF FillAndDecide
    <2>8. QED
      BY <2>2, <2>3, <2>5, <2>6, <2>7 DEF TypeOK, CacheRow
  <1>13. CASE CommitInvalidation
    <2>1. sess' \in [Session -> SessRow]
      BY <1>13, CommitRow
    <2>2. UNCHANGED <<now, retired, cache, found, check, rotated, admitted>> /\ ending' = NoEnding
      BY <1>13 DEF CommitInvalidation
    <2>3. QED
      BY <2>1, <2>2 DEF TypeOK, SessRow, NoEnding
  <1>14. CASE LoseInvalidation
    BY <1>14 DEF LoseInvalidation, TypeOK, NoEnding
  <1>15. CASE UNCHANGED vars
    BY <1>15 DEF vars, TypeOK
  <1>16. QED
    BY <1>1, <1>2, <1>3, <1>4, <1>5, <1>6, <1>7, <1>8, <1>9, <1>10, <1>11, <1>12, <1>13, <1>14,
       <1>15, Invalidations DEF Next

-----------------------------------------------------------------------------
(* The row locks *)

(* The steps that change the rows of sessions, or what is locked; every other *)
(* step leaves all three variables alone.                                     *)
LEMMA RowSteps ==
  ASSUME TypeOK, [Next]_vars
  PROVE  \/ UNCHANGED <<sess, found, ending, retired, rotated>>
         \/ \E s \in Session : CreateSession(s)
         \/ \E s \in Session : revoke(s)
         \/ \E ids \in SUBSET Session : Invalidate(ids)
         \/ \E t \in Token, r \in Refresher : FindSession(r, t)
         \/ \E r \in Refresher : _rotate(r)
         \/ \E r \in Refresher : RefreshFails(r)
         \/ CommitInvalidation
         \/ LoseInvalidation
  <1>1. CASE Tick
    BY <1>1 DEF Tick
  <1>2. ASSUME NEW s \in Session, Evict(s) PROVE UNCHANGED <<sess, found, ending, retired, rotated>>
    BY <1>2 DEF Evict
  <1>3. ASSUME NEW v \in Validator, NEW s \in Session, DecideFromCache(v, s) \/ Miss(v, s)
        PROVE  UNCHANGED <<sess, found, ending, retired, rotated>>
    BY <1>3 DEF DecideFromCache, Miss
  <1>4. ASSUME NEW v \in Validator, _load(v) \/ FillAndDecide(v)
        PROVE  UNCHANGED <<sess, found, ending, retired, rotated>>
    BY <1>4 DEF _load, FillAndDecide
  <1>5. CASE UNCHANGED vars
    BY <1>5 DEF vars
  <1>6. QED
    BY <1>1, <1>2, <1>3, <1>4, <1>5, Invalidations DEF Next

(* Versions is preserved: a row is ended once, by the invalidation that found *)
(* it valid.                                                                  *)
LEMMA VersionsStep ==
  ASSUME TypeOK, InFlight, Versions, FoundAlone, [Next]_vars
  PROVE  Versions'
  <1> USE DEF Versions, Valid, Live
  <1>0. ending.rows \subseteq Session
    BY DEF TypeOK
  <1>1. CASE UNCHANGED <<sess, found, ending, retired, rotated>>
    BY <1>1
  <1>2. ASSUME NEW s \in Session, CreateSession(s) PROVE Versions'
    <2>1. ending' = ending /\ ~ Live(s)
      BY <1>2 DEF CreateSession
    <2>2. s \notin ending.rows
      BY <2>1
    <2>3. QED
      BY <1>0, <1>2, <2>1, <2>2, CreateRow
  <1>3. ASSUME NEW s \in Session, revoke(s) PROVE Versions'
    BY <1>3 DEF revoke, InFlight
  <1>4. ASSUME NEW ids \in SUBSET Session, Invalidate(ids) PROVE Versions'
    BY <1>4, InvalidateOK
  <1>5. ASSUME NEW t \in Token, NEW r \in Refresher, FindSession(r, t) PROVE Versions'
    BY <1>5 DEF FindSession
  <1>6. ASSUME NEW r \in Refresher, _rotate(r) PROVE Versions'
    <2>1. ending' = ending /\ found[r] # NoToken
      BY <1>6 DEF _rotate
    <2>2. found[r][1] \notin ending.rows
      BY <2>1 DEF FoundAlone
    <2>3. \A x \in Session : sess'[x].ended = sess[x].ended /\ sess'[x].version = sess[x].version
      BY <1>6, RotateRow
    <2>4. \A x \in Session : sess[x].current > 0 => sess'[x].current > 0
      BY <1>6, RotateRow, Rows
    <2>5. QED
      BY <1>0, <2>1, <2>3, <2>4
  <1>7. ASSUME NEW r \in Refresher, RefreshFails(r) PROVE Versions'
    BY <1>7 DEF RefreshFails
  <1>8. CASE CommitInvalidation
    <2>1. ending'.rows = {}
      BY <1>8 DEF CommitInvalidation, NoEnding
    <2>2. now # Never
      BY Rows DEF Never
    <2>3. QED
      BY <1>0, <1>8, <2>1, <2>2, CommitRow
  <1>9. CASE LoseInvalidation
    BY <1>9 DEF LoseInvalidation, NoEnding
  <1>10. QED
    BY <1>1, <1>2, <1>3, <1>4, <1>5, <1>6, <1>7, <1>8, <1>9, RowSteps

(* FoundAlone is preserved: the locking read of refresh() and the UPDATE of   *)
(* _invalidate_sessions() exclude each other.                                 *)
LEMMA FoundStep ==
  ASSUME TypeOK, InFlight, Versions, FoundAlone, [Next]_vars
  PROVE  FoundAlone'
  <1> USE DEF FoundAlone, Live
  <1>0. found \in [Refresher -> Token \cup {NoToken}]
        /\ \A r \in Refresher : found[r] # NoToken => found[r] \in Token /\ found[r][1] \in Session
    BY TokenParts DEF TypeOK
  <1>1. CASE UNCHANGED <<sess, found, ending, retired, rotated>>
    BY <1>1
  <1>2. ASSUME NEW s \in Session, CreateSession(s) PROVE FoundAlone'
    <2>1. UNCHANGED <<found, ending>> /\ ~ Live(s)
      BY <1>2 DEF CreateSession
    <2>2. \A r \in Refresher : found[r] # NoToken => found[r][1] # s
      BY <2>1
    <2>3. QED
      BY <1>0, <1>2, <2>1, <2>2, CreateRow
  <1>3. ASSUME NEW s \in Session, revoke(s) PROVE FoundAlone'
    BY <1>3 DEF revoke, InFlight
  <1>4. ASSUME NEW ids \in SUBSET Session, Invalidate(ids) PROVE FoundAlone'
    BY <1>4, InvalidateOK DEF Held
  <1>5. ASSUME NEW t \in Token, NEW r \in Refresher, FindSession(r, t) PROVE FoundAlone'
    <2>1. /\ found' = [found EXCEPT ![r] = t] /\ UNCHANGED <<sess, ending>>
          /\ Live(t[1]) /\ sess[t[1]].current = t[2]
          /\ ~ Held(t[1]) /\ t[1] \notin ending.rows
      BY <1>5 DEF FindSession
    <2>2. \A q \in Refresher : found'[q] = IF q = r THEN t ELSE found[q]
      BY <1>0, <2>1
    <2>3. \A q \in Refresher : found[q] # NoToken => found[q][1] # t[1]
      BY <2>1 DEF Held
    <2>4. QED
      BY <2>1, <2>2, <2>3
  <1>6. ASSUME NEW r \in Refresher, _rotate(r) PROVE FoundAlone'
    <2>1. found' = [found EXCEPT ![r] = NoToken] /\ ending' = ending /\ found[r] # NoToken
      BY <1>6 DEF _rotate
    <2>2. \A q \in Refresher : found'[q] = IF q = r THEN NoToken ELSE found[q]
      BY <1>0, <2>1
    <2>3. \A q \in Refresher \ {r} : found[q] # NoToken =>
             found[q][1] # found[r][1] /\ sess'[found[q][1]] = sess[found[q][1]]
      BY <1>0, <1>6, <2>1, RotateRow
    <2>4. QED
      BY <2>1, <2>2, <2>3
  <1>7. ASSUME NEW r \in Refresher, RefreshFails(r) PROVE FoundAlone'
    <2>1. found' = [found EXCEPT ![r] = NoToken] /\ UNCHANGED <<sess, ending>>
      BY <1>7 DEF RefreshFails
    <2>2. \A q \in Refresher : found'[q] = IF q = r THEN NoToken ELSE found[q]
      BY <1>0, <2>1
    <2>3. QED
      BY <2>1, <2>2
  <1>8. CASE CommitInvalidation
    <2>1. ending'.rows = {} /\ found' = found
      BY <1>8 DEF CommitInvalidation, NoEnding
    <2>2. \A r \in Refresher : found[r] # NoToken => sess'[found[r][1]] = sess[found[r][1]]
      BY <1>0, <1>8, CommitRow
    <2>3. QED
      BY <2>1, <2>2
  <1>9. CASE LoseInvalidation
    BY <1>9 DEF LoseInvalidation, NoEnding
  <1>10. QED
    BY <1>1, <1>2, <1>3, <1>4, <1>5, <1>6, <1>7, <1>8, <1>9, RowSteps

(* History is preserved: a rotation retires the current token, which was not  *)
(* retired before.                                                            *)
LEMMA HistoryStep ==
  ASSUME TypeOK, InFlight, Versions, FoundAlone, History, [Next]_vars
  PROVE  History'
  <1> USE DEF History
  <1>1. CASE UNCHANGED <<sess, retired, rotated>>
    BY <1>1
  <1>2. ASSUME NEW s \in Session, CreateSession(s) PROVE History'
    <2>1. UNCHANGED <<retired, rotated>> /\ ~ Live(s)
      BY <1>2 DEF CreateSession
    <2>2. sess[s].current = 0
      BY <2>1, Rows DEF Live
    <2>3. \A n \in 1..MaxTokens : <<s, n>> \notin retired
      BY <2>2
    <2>4. \A x \in Session : \A n \in 1..MaxTokens : <<x, n>> \in retired <=> n < sess'[x].current
      <3>1. ~ \E n \in 1..MaxTokens : n < sess'[s].current
        BY <1>2, CreateRow
      <3>2. \A x \in Session \ {s} : sess'[x].current = sess[x].current
        BY <1>2, CreateRow
      <3>3. QED
        BY <2>3, <3>1, <3>2
    <2>5. QED
      BY <2>1, <2>4
  <1>3. ASSUME NEW r \in Refresher, _rotate(r) PROVE History'
    <2> DEFINE s == found[r][1]
               k == found[r][2]
    <2>1. /\ found[r] = <<s, k>> /\ s \in Session /\ k \in 1..MaxTokens /\ k = sess[s].current
          /\ retired' = retired \cup {<<s, k>>} /\ rotated' = [rotated EXCEPT ![<<s, k>>] = @ + 1]
          /\ <<s, k>> \in Token
      <3>1. found[r] # NoToken /\ found[r] \in Token
        BY <1>3, RotateRow DEF _rotate
      <3>2. found[r] = <<s, k>> /\ s \in Session /\ k \in 1..MaxTokens /\ k = sess[s].current
        BY <3>1, TokenParts DEF FoundAlone
      <3>3. retired' = retired \cup {found[r]} /\ rotated' = [rotated EXCEPT ![found[r]] = @ + 1]
        BY <1>3 DEF _rotate, Retire
      <3>4. QED
        BY <3>1, <3>2, <3>3
    <2>2. sess'[s].current = k + 1 /\ \A x \in Session \ {s} : sess'[x] = sess[x]
      BY <1>3, <2>1, RotateRow
    <2> HIDE DEF s, k
    <2>3. <<s, k>> \notin retired /\ rotated[<<s, k>>] = 0
      BY <2>1
    <2>4. ASSUME NEW x \in Session, NEW n \in 1..MaxTokens
          PROVE  /\ <<x, n>> \in retired' <=> n < sess'[x].current
                 /\ rotated'[<<x, n>>] = IF <<x, n>> \in retired' THEN 1 ELSE 0
      <3>1. <<x, n>> \in Token /\ rotated \in [Token -> Nat]
        BY DEF Token, TypeOK
      <3>2. CASE x = s /\ n = k
        BY <2>1, <2>2, <2>3, <3>1, <3>2
      <3>3. CASE ~ (x = s /\ n = k)
        <4>1. <<x, n>> # <<s, k>>
          BY <3>3
        <4>2. rotated'[<<x, n>>] = rotated[<<x, n>>] /\ (<<x, n>> \in retired' <=> <<x, n>> \in retired)
          BY <2>1, <3>1, <4>1
        <4>3. n < sess'[x].current <=> n < sess[x].current
          BY <2>1, <2>2, <3>3
        <4>4. QED
          BY <4>2, <4>3
      <3>4. QED
        BY <3>2, <3>3
    <2>5. QED
      BY <2>4
  <1>4. CASE CommitInvalidation
    <2>1. UNCHANGED <<retired, rotated>>
      BY <1>4 DEF CommitInvalidation
    <2>2. \A x \in Session : sess'[x].current = sess[x].current
      BY <1>4, CommitRow
    <2>3. QED
      BY <2>1, <2>2
  <1>5. QED
    BY <1>1, <1>2, <1>3, <1>4, RowSteps
       DEF revoke, Invalidate, FindSession, RefreshFails, LoseInvalidation

-----------------------------------------------------------------------------
(* The age of what admits a request *)

(* A put of a value that may be stale: the entry is no older than allowed.    *)
LEMMA AgedPut ==
  ASSUME TypeOK, InFlight, Aged, NEW s \in Session, NEW version \in 0..2, NEW active \in BOOLEAN,
         cache' = [cache EXCEPT ![s] = put(version, active)],
         active /\ sess[s].ended # Never => now <= sess[s].ended + MaxDelay
  PROVE  \A x \in Session :
           /\ cache'[x].until <= now + CacheTtl
           /\ cache'[x].active /\ sess[x].ended # Never =>
                 cache'[x].until <= sess[x].ended + MaxDelay + CacheTtl
  <1>1. /\ put(version, active).active = active
        /\ put(version, active).until = now + CacheTtl
        /\ \A x \in Session : cache'[x] = IF x = s THEN put(version, active) ELSE cache[x]
    BY PutOK, Rows
  <1>2. /\ now \in Nat /\ CacheTtl \in Nat /\ MaxDelay \in Nat
        /\ \A x \in Session : sess[x].ended \in Int
    BY Rows, Numbers
  <1>3. ASSUME NEW x \in Session, x # s
        PROVE  /\ cache'[x].until <= now + CacheTtl
               /\ cache'[x].active /\ sess[x].ended # Never =>
                     cache'[x].until <= sess[x].ended + MaxDelay + CacheTtl
    BY <1>1, <1>3 DEF Aged
  <1>4. /\ cache'[s].until <= now + CacheTtl
        /\ cache'[s].active /\ sess[s].ended # Never =>
              cache'[s].until <= sess[s].ended + MaxDelay + CacheTtl
    BY <1>1, <1>2
  <1>5. QED
    BY <1>3, <1>4

(* The age of what the validators have loaded stays as it is while the clock, *)
(* the validators and the ends of the sessions do.                            *)
LEMMA AgedKept ==
  ASSUME TypeOK, InFlight, Aged, RevocationTakesEffect,
         now' = now, check' = check,
         \A x \in Session : sess'[x].ended = sess[x].ended,
         \A x \in Session : /\ cache'[x].until <= now + CacheTtl
                            /\ cache'[x].active /\ sess[x].ended # Never =>
                                  cache'[x].until <= sess[x].ended + MaxDelay + CacheTtl,
         admitted' = admitted
  PROVE  Aged' /\ RevocationTakesEffect'
  <1>1. \A v \in Validator : check[v].pc = "loaded" => check[v].session \in Session
    BY CheckShape
  <1>2. Aged'
    BY <1>1 DEF Aged
  <1>3. RevocationTakesEffect'
    BY DEF RevocationTakesEffect
  <1>4. QED
    BY <1>2, <1>3

(* The steps that touch the clock, the cache, the validators, the admissions  *)
(* or the end of a session.                                                   *)
LEMMA AgeSteps ==
  ASSUME TypeOK, [Next]_vars
  PROVE  \/ /\ UNCHANGED <<now, cache, check, admitted>>
            /\ \A x \in Session : sess'[x].ended = sess[x].ended
         \/ Tick
         \/ \E s \in Session : CreateSession(s) \/ revoke(s) \/ Evict(s)
         \/ \E v \in Validator, s \in Session : DecideFromCache(v, s) \/ Miss(v, s)
         \/ \E v \in Validator : _load(v) \/ FillAndDecide(v)
         \/ CommitInvalidation
  <1> DEFINE Kept == /\ UNCHANGED <<now, cache, check, admitted>>
                     /\ \A x \in Session : sess'[x].ended = sess[x].ended
  <1>1. ASSUME NEW ids \in SUBSET Session, Invalidate(ids) PROVE Kept
    BY <1>1, InvalidateOK
  <1>2. ASSUME NEW t \in Token, NEW r \in Refresher, FindSession(r, t) PROVE Kept
    BY <1>2 DEF FindSession
  <1>3. ASSUME NEW r \in Refresher, _rotate(r) PROVE Kept
    BY <1>3, RotateRow DEF _rotate
  <1>4. ASSUME NEW r \in Refresher, RefreshFails(r) PROVE Kept
    BY <1>4 DEF RefreshFails
  <1>5. ASSUME LoseInvalidation PROVE Kept
    BY <1>5 DEF LoseInvalidation
  <1>6. ASSUME UNCHANGED vars PROVE Kept
    BY <1>6 DEF vars
  <1> HIDE DEF Kept
  <1>7. \/ Kept \/ Tick
        \/ \E s \in Session : CreateSession(s) \/ revoke(s) \/ Evict(s)
        \/ \E v \in Validator, s \in Session : DecideFromCache(v, s) \/ Miss(v, s)
        \/ \E v \in Validator : _load(v) \/ FillAndDecide(v)
        \/ CommitInvalidation
    BY <1>1, <1>2, <1>3, <1>4, <1>5, <1>6, Invalidations DEF Next
  <1>8. QED
    BY <1>7 DEF Kept

(* Every step keeps the ages, and with them the bound on admissions.          *)
LEMMA AgedStep ==
  ASSUME TypeOK, InFlight, Versions, Aged, RevocationTakesEffect, [Next]_vars
  PROVE  Aged' /\ RevocationTakesEffect'
  <1>n. /\ now \in Nat /\ CacheTtl \in Nat /\ MaxDelay \in Nat
        /\ \A x \in Session : /\ sess[x].ended \in Int /\ cache[x].until \in Int
                               /\ admitted[x] \in Int
        /\ \A v \in Validator : check[v].pc = "loaded" =>
              check[v].session \in Session /\ check[v].at \in Int
    BY Rows, Numbers, CheckShape DEF Time
  <1>c. \A x \in Session : /\ cache[x].until <= now + CacheTtl
                           /\ cache[x].active /\ sess[x].ended # Never =>
                                 cache[x].until <= sess[x].ended + MaxDelay + CacheTtl
    BY DEF Aged
  <1>1. CASE Tick
    <2>1. now' = now + 1 /\ UNCHANGED <<sess, cache, check, admitted>>
      BY <1>1 DEF Tick
    <2>2. \A v \in Validator : check[v].pc = "loaded" => now - check[v].at < MaxDelay
      BY <1>1 DEF Tick
    <2>3. \A v \in Validator : check[v].pc = "loaded" =>
             check[v].at <= now + 1 /\ now + 1 <= check[v].at + MaxDelay
      BY <1>n, <2>2 DEF Aged
    <2>4. \A x \in Session : cache[x].until <= now + 1 + CacheTtl /\ admitted[x] <= now + 1
      BY <1>n DEF Aged
    <2>5. QED
      BY <2>1, <2>3, <2>4 DEF Aged, RevocationTakesEffect
  <1>2. ASSUME NEW s \in Session, CreateSession(s) PROVE Aged' /\ RevocationTakesEffect'
    <2> DEFINE yes == TRUE
    <2>1. /\ cache' = [cache EXCEPT ![s] = put(1, yes)] /\ UNCHANGED <<now, check, admitted>>
          /\ sess[s].ended = Never
      BY <1>2 DEF CreateSession, Versions
    <2>2. 1 \in 0..2 /\ yes \in BOOLEAN
      OBVIOUS
    <2> HIDE DEF yes
    <2>3. \A x \in Session :
             /\ cache'[x].until <= now + CacheTtl
             /\ cache'[x].active /\ sess[x].ended # Never =>
                   cache'[x].until <= sess[x].ended + MaxDelay + CacheTtl
      BY <2>1, <2>2, AgedPut
    <2>4. \A x \in Session : sess'[x].ended = sess[x].ended
      BY <1>2, <2>1, CreateRow
    <2>5. QED
      BY <2>1, <2>3, <2>4, AgedKept
  <1>3. ASSUME NEW s \in Session, revoke(s) PROVE Aged' /\ RevocationTakesEffect'
    <2> DEFINE no == FALSE
    <2>1. /\ cache' = [cache EXCEPT ![s] = put(sess[s].version + 1, no)]
          /\ UNCHANGED <<now, sess, check, admitted>>
          /\ sess[s].ended = Never /\ sess[s].version = 1
      BY <1>3 DEF revoke, Versions, Valid
    <2>2. sess[s].version + 1 \in 0..2 /\ no \in BOOLEAN
      BY <2>1
    <2> HIDE DEF no
    <2>3. \A x \in Session :
             /\ cache'[x].until <= now + CacheTtl
             /\ cache'[x].active /\ sess[x].ended # Never =>
                   cache'[x].until <= sess[x].ended + MaxDelay + CacheTtl
      BY <2>1, <2>2, AgedPut
    <2>4. QED
      BY <2>1, <2>3, AgedKept
  <1>4. ASSUME NEW s \in Session, Evict(s) PROVE Aged' /\ RevocationTakesEffect'
    <2>1. cache' = [cache EXCEPT ![s] = NoEntry] /\ UNCHANGED <<now, sess, check, admitted>>
      BY <1>4 DEF Evict
    <2>2. ~ NoEntry.active /\ NoEntry.until = 0
      BY DEF NoEntry
    <2>3. \A x \in Session : cache'[x] = IF x = s THEN NoEntry ELSE cache[x]
      BY <2>1, Rows
    <2>4. \A x \in Session :
             /\ cache'[x].until <= now + CacheTtl
             /\ cache'[x].active /\ sess[x].ended # Never =>
                   cache'[x].until <= sess[x].ended + MaxDelay + CacheTtl
      BY <1>c, <1>n, <2>2, <2>3
    <2>5. QED
      BY <2>1, <2>4, AgedKept
  <1>5. ASSUME NEW v \in Validator, NEW s \in Session, DecideFromCache(v, s)
        PROVE  Aged' /\ RevocationTakesEffect'
    <2>1. UNCHANGED <<now, sess, cache, check>> /\ cache[s].until > now
      BY <1>5 DEF DecideFromCache, get
    <2>2. \A x \in Session : /\ admitted'[x] = admitted[x] \/ admitted'[x] = now
                             /\ admitted'[x] # admitted[x] => x = s /\ cache[s].active
      BY <1>5, AdmitOK DEF DecideFromCache
    <2>3. Aged'
      BY <1>n, <2>1, <2>2 DEF Aged
    <2>4. cache[s].active /\ sess[s].ended # Never => now <= sess[s].ended + MaxDelay + CacheTtl
      BY <1>c, <1>n, <2>1
    <2>5. RevocationTakesEffect'
      BY <1>n, <2>1, <2>2, <2>4 DEF RevocationTakesEffect
    <2>6. QED
      BY <2>3, <2>5
  <1>6. ASSUME NEW v \in Validator, NEW s \in Session, Miss(v, s)
        PROVE  Aged' /\ RevocationTakesEffect'
    <2>1. check' = [check EXCEPT ![v] = [pc |-> "miss", session |-> s]]
          /\ UNCHANGED <<now, sess, cache, admitted>>
      BY <1>6 DEF Miss
    <2>2. \A x \in Validator : check'[x].pc = "loaded" => check'[x] = check[x]
      BY <2>1 DEF InFlight
    <2>3. QED
      BY <2>1, <2>2 DEF Aged, RevocationTakesEffect
  <1>7. ASSUME NEW v \in Validator, _load(v) PROVE Aged' /\ RevocationTakesEffect'
    <2> DEFINE s == check[v].session
               c == [pc |-> "loaded", session |-> s, at |-> now,
                     version |-> sess[s].version, active |-> Valid(s)]
    <2>1. check' = [check EXCEPT ![v] = c] /\ UNCHANGED <<now, sess, cache, admitted>>
      BY <1>7 DEF _load
    <2>2. c.at = now /\ c.session = s /\ (c.active => sess[s].ended = Never)
      BY DEF Valid
    <2> HIDE DEF c
    <2>3. \A x \in Validator : check'[x] = IF x = v THEN c ELSE check[x]
      BY <2>1 DEF InFlight
    <2>4. \A x \in Validator : check'[x].pc = "loaded" =>
             /\ check'[x].at <= now /\ now <= check'[x].at + MaxDelay
             /\ check'[x].active /\ sess[check'[x].session].ended # Never =>
                   check'[x].at <= sess[check'[x].session].ended
      BY <1>n, <2>2, <2>3 DEF Aged
    <2>5. QED
      BY <2>1, <2>4 DEF Aged, RevocationTakesEffect
  <1>8. ASSUME NEW v \in Validator, FillAndDecide(v) PROVE Aged' /\ RevocationTakesEffect'
    <2> DEFINE c == check[v]
    <2>1. /\ c.session \in Session /\ c.at \in Int /\ c.version \in 0..2 /\ c.active \in BOOLEAN
          /\ c.pc = "loaded"
      BY <1>8, CheckShape DEF FillAndDecide, Time
    <2>2. /\ cache' = [cache EXCEPT ![c.session] = put(c.version, c.active)]
          /\ check' = [check EXCEPT ![v] = Idle] /\ UNCHANGED <<now, sess>>
          /\ Admit(c.session, c.version, c.active)
      BY <1>8 DEF FillAndDecide
    <2>3. c.active /\ sess[c.session].ended # Never => now <= sess[c.session].ended + MaxDelay
      BY <1>n, <2>1 DEF Aged
    <2>4. \A x \in Session :
             /\ cache'[x].until <= now + CacheTtl
             /\ cache'[x].active /\ sess[x].ended # Never =>
                   cache'[x].until <= sess[x].ended + MaxDelay + CacheTtl
      BY <2>1, <2>2, <2>3, AgedPut
    <2>5. \A x \in Session : /\ admitted'[x] = admitted[x] \/ admitted'[x] = now
                             /\ admitted'[x] # admitted[x] => x = c.session /\ c.active
      BY <2>1, <2>2, AdmitOK
    <2>6. \A x \in Validator : check'[x].pc = "loaded" => check'[x] = check[x]
      BY <2>2 DEF InFlight, Idle
    <2>7. Aged'
      BY <1>n, <2>2, <2>4, <2>5, <2>6 DEF Aged
    <2>8. RevocationTakesEffect'
      BY <1>n, <2>2, <2>3, <2>5 DEF RevocationTakesEffect
    <2>9. QED
      BY <2>7, <2>8
  <1>9. CASE CommitInvalidation
    <2>1. UNCHANGED <<now, cache, check, admitted>>
      BY <1>9 DEF CommitInvalidation
    <2>2. \A x \in Session : sess'[x].ended = now \/ sess'[x].ended = sess[x].ended
      BY <1>9, CommitRow
    <2>3. \A v \in Validator :
             check[v].pc = "loaded" /\ check[v].active /\ sess'[check[v].session].ended # Never =>
                   check[v].at <= sess'[check[v].session].ended
      BY <1>n, <2>2 DEF Aged
    <2>4. \A x \in Session : cache[x].active /\ sess'[x].ended # Never =>
             cache[x].until <= sess'[x].ended + MaxDelay + CacheTtl
      BY <1>c, <1>n, <2>2
    <2>5. \A x \in Session : sess'[x].ended # Never =>
             admitted[x] <= sess'[x].ended + MaxDelay + CacheTtl
      BY <1>n, <2>2 DEF Aged, RevocationTakesEffect
    <2>6. QED
      BY <2>1, <2>3, <2>4, <2>5 DEF Aged, RevocationTakesEffect
  <1>10. CASE UNCHANGED <<now, cache, check, admitted>>
              /\ \A x \in Session : sess'[x].ended = sess[x].ended
    BY <1>c, <1>10, AgedKept
  <1>11. QED
    BY <1>1, <1>2, <1>3, <1>4, <1>5, <1>6, <1>7, <1>8, <1>9, <1>10, AgeSteps

-----------------------------------------------------------------------------
(* The theorems *)

(* The inductive invariant holds of every behaviour.                          *)
LEMMA InvariantHolds == Spec => []IInv
  <1>1. Init => IInv
    <2> SUFFICES ASSUME Init PROVE IInv
      OBVIOUS
    <2> USE Numbers DEF Init
    <2>1. NoSession \in SessRow /\ NoEntry \in CacheRow
      BY DEF NoSession, NoEntry, SessRow, CacheRow
    <2>2. TypeOK
      BY <2>1 DEF TypeOK, SessRow, CacheRow, Time, NoEnding, Idle
    <2>3. InFlight
      BY DEF InFlight, NoEnding
    <2>4. Versions /\ FoundAlone
      BY DEF Versions, FoundAlone, NoSession, NoEnding
    <2>5. History
      BY DEF History, NoSession, Token
    <2>6. Aged /\ RevocationTakesEffect
      BY DEF Aged, RevocationTakesEffect, NoSession, NoEntry, Idle, Never
    <2>7. QED
      BY <2>2, <2>3, <2>4, <2>5, <2>6 DEF IInv
  <1>2. IInv /\ [Next]_vars => IInv'
    BY TypeStep, VersionsStep, FoundStep, HistoryStep, AgedStep DEF IInv
  <1>3. QED
    BY <1>1, <1>2, PTL DEF Spec

(* The rows, the cache and the requests in flight keep their types; a version *)
(* is never raised beyond 2.                                                  *)
THEOREM TypeCorrect == Spec => []TypeOK
  <1>1. IInv => TypeOK
    BY DEF IInv
  <1>2. QED
    BY <1>1, InvariantHolds, PTL

(* A refresh token is exchanged at most once, and every token issued before   *)
(* the current one is in auth_refresh_token_history.                          *)
THEOREM RotatesOnce == Spec => []RotatedOnce
  <1>1. IInv => RotatedOnce
    <2> SUFFICES ASSUME IInv PROVE RotatedOnce
      OBVIOUS
    <2>1. ASSUME NEW t \in Token PROVE rotated[t] <= 1
      <3>1. t[1] \in Session /\ t[2] \in 1..MaxTokens /\ t = <<t[1], t[2]>>
        BY TokenParts
      <3>2. rotated[<<t[1], t[2]>>] = IF <<t[1], t[2]>> \in retired THEN 1 ELSE 0
        BY <3>1 DEF IInv, History
      <3>3. QED
        BY <3>1, <3>2
    <2>2. ASSUME NEW s \in Session, NEW n \in 1..sess[s].current
          PROVE  (<<s, n>> \in retired) <=> n # sess[s].current
      <3>1. n \in 1..MaxTokens /\ sess[s].current \in Nat
        BY Rows, Numbers DEF IInv
      <3>2. QED
        BY <3>1 DEF IInv, History
    <2>3. QED
      BY <2>1, <2>2 DEF RotatedOnce
  <1>2. QED
    BY <1>1, InvariantHolds, PTL

(* No request is admitted later than MaxDelay + CacheTtl after the revocation *)
(* of its session committed, although a validator may write what it loaded    *)
(* before over the revocation in the cache.                                   *)
THEOREM RevocationHolds == Spec => []RevocationTakesEffect
  <1>1. IInv => RevocationTakesEffect
    BY DEF IInv
  <1>2. QED
    BY <1>1, InvariantHolds, PTL

(* The row of an invalidated session never changes again.                     *)
THEOREM EndIsFinal == Spec => EndedIsFinal
  <1> DEFINE Final == \A s \in Session : sess[s].ended # Never => sess'[s] = sess[s]
  <1>1. IInv /\ [Next]_vars => [Final]_vars
    <2> SUFFICES ASSUME IInv, [Next]_vars PROVE Final
      OBVIOUS
    <2>0. TypeOK /\ Versions
      BY DEF IInv
    <2>1. ASSUME NEW s \in Session, CreateSession(s) PROVE Final
      <3>1. sess[s].ended = Never
        BY <2>0, <2>1 DEF CreateSession, Versions
      <3>2. QED
        BY <2>0, <2>1, <3>1, CreateRow
    <2>2. ASSUME NEW r \in Refresher, _rotate(r) PROVE Final
      BY <2>0, <2>2, RotateRow
    <2>3. ASSUME CommitInvalidation PROVE Final
      BY <2>0, <2>3, CommitRow
    <2>4. CASE sess' = sess
      BY <2>4
    <2>5. QED
      BY <2>0, <2>1, <2>2, <2>3, <2>4, RowSteps
         DEF revoke, Invalidate, FindSession, RefreshFails, LoseInvalidation
  <1>2. QED
    BY <1>1, InvariantHolds, PTL DEF Spec, EndedIsFinal
=============================================================================
