------------------------------ MODULE Sessions ------------------------------
(* The signed-in sessions of one User: creation, refresh rotation and         *)
(* invalidation (domain/auth/service.py), and the validation of requests      *)
(* through the cache (domain/auth/sessions.py).  PostgreSQL holds the rows;   *)
(* the cache is written outside the transactions, before they commit.  A      *)
(* refresh token is the pair <<session, n>>: the n-th of its session.         *)
EXTENDS Integers, FiniteSets

CONSTANTS
    Session,     \* session ids
    Validator,   \* requests being authenticated
    Refresher,   \* requests presenting a refresh token
    CacheTtl,    \* lifetime of a cache entry
    AccessTtl,   \* lifetime of an access token
    RefreshTtl,  \* lifetime of a refresh token
    MaxDelay,    \* bound: ticks a validator takes from its load to its put
    MaxTokens,   \* bound: refresh tokens issued per session
    MaxTime      \* bound: the clock

ASSUME TtlAssumption ==
    /\ {CacheTtl, AccessTtl, RefreshTtl, MaxTokens} \subseteq Nat \ {0}
    /\ {MaxDelay, MaxTime} \subseteq Nat

Time == 0..MaxTime
Never == -1
NoToken == <<>>

VARIABLES
    now,
    sess,      \* auth_sessions rows
    retired,   \* auth_refresh_token_history: refresh tokens rotated away
    jwt,       \* the latest access token of each session
    cache,     \* Redis: version and activity of each session, with expiry
    found,     \* the token each refresher found its session by; the row is locked
    ending,    \* the invalidation in flight: its rows, and those told to Redis
    check,     \* the progress of each validator
    rotated,   \* how often each refresh token was exchanged for a new pair
    admitted   \* when each session last had a request admitted

vars == <<now, sess, retired, jwt, cache, found, ending, check, rotated, admitted>>

Token == Session \X (1..MaxTokens)
NoSession == [current |-> 0, version |-> 1, ended |-> Never, expires |-> 0]
NoEntry == [version |-> 0, active |-> FALSE, until |-> 0]
NoEnding == [rows |-> {}, told |-> {}]
Idle == [pc |-> "idle"]

Init ==
    /\ now = 0
    /\ sess = [s \in Session |-> NoSession]
    /\ retired = {}
    /\ jwt = [s \in Session |-> [version |-> 0, until |-> 0]]
    /\ cache = [s \in Session |-> NoEntry]
    /\ found = [r \in Refresher |-> NoToken]
    /\ ending = NoEnding
    /\ check = [v \in Validator |-> Idle]
    /\ rotated = [t \in Token |-> 0]
    /\ admitted = [s \in Session |-> Never]

Live(s) == sess[s].current > 0
Valid(s) == Live(s) /\ sess[s].ended = Never

Tick ==
    /\ now < MaxTime
    /\ \A v \in Validator : check[v].pc = "loaded" => now - check[v].at < MaxDelay
    /\ now' = now + 1
    /\ UNCHANGED <<sess, retired, jwt, cache, found, ending, check, rotated, admitted>>

-----------------------------------------------------------------------------
(* SessionCache: an entry is gone once its time is over.                      *)

get(s) == cache[s].until > now

(* Fault: entries are stored without a lifetime.                              *)
PutForGood(version, active) == [version |-> version, active |-> active, until |-> MaxTime + 1]

put(version, active) == [version |-> version, active |-> active, until |-> now + CacheTtl]

issue(s, version) == [jwt EXCEPT ![s] = [version |-> version, until |-> now + AccessTtl]]

(* _create_session(): the entry is in the cache before the row commits, but   *)
(* the access token leaves with the response, after the commit.               *)
CreateSession(s) ==
    /\ ~ Live(s)
    /\ sess' = [sess EXCEPT ![s] = [current |-> 1, version |-> 1, ended |-> Never,
                                    expires |-> now + RefreshTtl]]
    /\ cache' = [cache EXCEPT ![s] = put(1, TRUE)]
    /\ jwt' = issue(s, 1)
    /\ UNCHANGED <<now, retired, found, ending, check, rotated, admitted>>

-----------------------------------------------------------------------------
(* refresh() *)

(* Fault: the row is read without FOR UPDATE.                                 *)
NeverHeld(s) == FALSE

Held(s) == \E r \in Refresher : found[r] # NoToken /\ found[r][1] = s

(* The row is found by the hash of its current token, once it is not locked.  *)
FindSession(r, t) ==
    /\ found[r] = NoToken
    /\ Live(t[1]) /\ sess[t[1]].current = t[2]
    /\ ~ Held(t[1]) /\ t[1] \notin ending.rows
    /\ found' = [found EXCEPT ![r] = t]
    /\ UNCHANGED <<now, sess, retired, jwt, cache, ending, check, rotated, admitted>>

(* Fault: an invalidated session still rotates its token.                     *)
RotatableAny(s) == sess[s].expires > now

Rotatable(s) == sess[s].ended = Never /\ sess[s].expires > now

Retire(t) == retired \cup {t}

(* _rotate(): the old token is kept in the history and a new pair is issued.  *)
_rotate(r) ==
    LET t == found[r]
        s == t[1]
    IN  /\ t # NoToken /\ Rotatable(s) /\ sess[s].current < MaxTokens
        /\ retired' = Retire(t)
        /\ rotated' = [rotated EXCEPT ![t] = @ + 1]
        /\ sess' = [sess EXCEPT ![s].current = @ + 1, ![s].expires = now + RefreshTtl]
        /\ jwt' = issue(s, sess[s].version)
        /\ found' = [found EXCEPT ![r] = NoToken]
        /\ UNCHANGED <<now, cache, ending, check, admitted>>

(* An ended or expired session, or a request that dies: nothing is written.   *)
RefreshFails(r) ==
    /\ found[r] # NoToken
    /\ found' = [found EXCEPT ![r] = NoToken]
    /\ UNCHANGED <<now, sess, retired, jwt, cache, ending, check, rotated, admitted>>

-----------------------------------------------------------------------------
(* _invalidate_sessions(): the rows that are not ended yet are updated, Redis *)
(* is told about each, and the transaction commits, or is lost.               *)

Invalidate(ids) ==
    /\ ending = NoEnding
    /\ \A s \in ids : ~ Held(s)
    /\ ending' = [rows |-> {s \in ids : Valid(s)}, told |-> {}]
    /\ UNCHANGED <<now, sess, retired, jwt, cache, found, check, rotated, admitted>>

(* logout(), a replayed refresh token, and confirm_password_reset() through   *)
(* invalidate_all_sessions().                                                 *)
logout(s) == Live(s) /\ Invalidate({s})
Replay(t) == t \in retired /\ Invalidate({t[1]})
invalidate_all_sessions == Invalidate({s \in Session : Valid(s)})

revoke(s) ==
    /\ s \in ending.rows \ ending.told
    /\ cache' = [cache EXCEPT ![s] = put(sess[s].version + 1, FALSE)]
    /\ ending' = [ending EXCEPT !.told = @ \cup {s}]
    /\ UNCHANGED <<now, sess, retired, jwt, found, check, rotated, admitted>>

CommitInvalidation ==
    /\ ending.rows # {} /\ ending.told = ending.rows
    /\ sess' = [s \in Session |->
                  IF s \in ending.rows
                  THEN [sess[s] EXCEPT !.version = @ + 1, !.ended = now] ELSE sess[s]]
    /\ ending' = NoEnding
    /\ UNCHANGED <<now, retired, jwt, cache, found, check, rotated, admitted>>

(* The request dies: the rows keep their state, Redis what it was told.       *)
LoseInvalidation ==
    /\ ending # NoEnding
    /\ ending' = NoEnding
    /\ UNCHANGED <<now, sess, retired, jwt, cache, found, check, rotated, admitted>>

-----------------------------------------------------------------------------
(* SessionValidator.authenticate() *)

Admit(s, version, active) ==
    admitted' = IF active /\ version = jwt[s].version THEN [admitted EXCEPT ![s] = now]
                ELSE admitted

(* A valid access token whose session is in the cache is decided by it.       *)
DecideFromCache(v, s) ==
    /\ check[v] = Idle /\ jwt[s].until > now /\ get(s)
    /\ Admit(s, cache[s].version, cache[s].active)
    /\ UNCHANGED <<now, sess, retired, jwt, cache, found, ending, check, rotated>>

Miss(v, s) ==
    /\ check[v] = Idle /\ jwt[s].until > now /\ ~ get(s)
    /\ check' = [check EXCEPT ![v] = [pc |-> "miss", session |-> s]]
    /\ UNCHANGED <<now, sess, retired, jwt, cache, found, ending, rotated, admitted>>

_load(v) ==
    LET s == check[v].session
    IN  /\ check[v].pc = "miss"
        /\ check' = [check EXCEPT ![v] = [pc |-> "loaded", session |-> s, at |-> now,
                                          version |-> sess[s].version, active |-> Valid(s)]]
        /\ UNCHANGED <<now, sess, retired, jwt, cache, found, ending, rotated, admitted>>

(* The loaded value is cached, whatever happened since, and decides.          *)
FillAndDecide(v) ==
    LET c == check[v]
    IN  /\ c.pc = "loaded"
        /\ cache' = [cache EXCEPT ![c.session] = put(c.version, c.active)]
        /\ check' = [check EXCEPT ![v] = Idle]
        /\ Admit(c.session, c.version, c.active)
        /\ UNCHANGED <<now, sess, retired, jwt, found, ending, rotated>>

(* Redis is flushed, or evicts the entry.                                     *)
Evict(s) ==
    /\ get(s)
    /\ cache' = [cache EXCEPT ![s] = NoEntry]
    /\ UNCHANGED <<now, sess, retired, jwt, found, ending, check, rotated, admitted>>

Next ==
    \/ Tick
    \/ \E s \in Session :
         \/ CreateSession(s) \/ logout(s) \/ revoke(s) \/ Evict(s)
         \/ \E v \in Validator : DecideFromCache(v, s) \/ Miss(v, s)
    \/ \E t \in Token : Replay(t) \/ \E r \in Refresher : FindSession(r, t)
    \/ \E r \in Refresher : _rotate(r) \/ RefreshFails(r)
    \/ \E v \in Validator : _load(v) \/ FillAndDecide(v)
    \/ invalidate_all_sessions
    \/ CommitInvalidation
    \/ LoseInvalidation

Spec == Init /\ [][Next]_vars

-----------------------------------------------------------------------------
(* Every row, cache entry and request in flight is within its range.          *)
TypeOK ==
    /\ now \in Time
    /\ sess \in [Session -> [current : 0..MaxTokens, version : 1..2,
                             ended : Time \cup {Never}, expires : 0..(MaxTime + RefreshTtl)]]
    /\ retired \subseteq Token /\ rotated \in [Token -> Nat]
    /\ cache \in [Session -> [version : 0..2, active : BOOLEAN, until : 0..(MaxTime + CacheTtl)]]
    /\ found \in [Refresher -> Token \cup {NoToken}]
    /\ ending.rows \subseteq Session /\ ending.told \subseteq ending.rows
    /\ \A v \in Validator : check[v].pc \in {"idle", "miss", "loaded"}
    /\ admitted \in [Session -> Time \cup {Never}]

(* A revoked session is out after a bounded time: although a validator may    *)
(* overwrite the revocation in the cache with what it loaded earlier, no      *)
(* request is admitted later than the lifetime of a cache entry plus the      *)
(* validator's delay after the revocation committed.                          *)
RevocationTakesEffect ==
    \A s \in Session : sess[s].ended # Never => admitted[s] <= sess[s].ended + MaxDelay + CacheTtl

(* A refresh token is exchanged at most once, however many requests present   *)
(* it at the same time, and every one ever issued is the current token of its *)
(* session or is known as retired, so that presenting it again ends the       *)
(* session.                                                                   *)
RotatedOnce ==
    /\ \A t \in Token : rotated[t] <= 1
    /\ \A s \in Session : \A n \in 1..sess[s].current :
          (<<s, n>> \in retired) <=> n # sess[s].current

(* An invalidated session never changes again: no refresh in flight brings it *)
(* back or extends it, and its version is not raised twice.                   *)
EndedIsFinal == [][ \A s \in Session : sess[s].ended # Never => sess'[s] = sess[s] ]_vars
=============================================================================
