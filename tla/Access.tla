------------------------------- MODULE Access -------------------------------
(* Who may call the API: the clients' keys in the store and the cache of   *)
(* verified keys in front of it (middleware/session.go), the operators'    *)
(* sessions and the login limiter (session/session.go), and the handlers   *)
(* that register, revoke and rotate keys and that log in and out.          *)
EXTENDS Naturals, FiniteSets, Sequences, SequencesExt

CONSTANTS Tenants, Callers,
          None,
          MaxKeys,        \* bound: keys ever generated
          MaxTime,        \* bound: the clock
          MaxAsks,        \* bound: calls of the key traffic
          MaxLogins,      \* bound: login attempts of the login traffic
          CacheTTL,       \* 60 s in the code
          SessionTTL,
          LoginMax, LoginWindow

ASSUME AccessAssumption ==
    /\ Tenants # {}
    /\ MaxKeys \in Nat /\ MaxTime \in Nat /\ MaxAsks \in Nat /\ MaxLogins \in Nat
    /\ CacheTTL \in Nat /\ SessionTTL \in Nat
    /\ LoginMax \in Nat \ {0} /\ LoginWindow \in Nat \ {0}

VARIABLES now,
          owner,       \* the tenant a key was generated for, in key order
          live,        \* keys the store holds
          cache,       \* expiry of a verified key's cache entry, 0: no entry
          session,     \* expiry of the operator's session, 0: none
          hits,        \* the limiter's list for one client address
          caller,      \* calls in progress
          asks,
          passed,      \* history: times of the attempts the limiter let through
          dropped      \* history: tenants revoked, or cut off by a failed rotation
accessVars == <<now, owner, live, cache, session, hits, caller, asks, passed, dropped>>

Keys == 1 .. MaxKeys
Times == 0 .. MaxTime + CacheTTL + SessionTTL
Idle == [pc |-> "idle", key |-> 0, tenant |-> None, must |-> {}, seen |-> {}, rotates |-> FALSE]

AccessTypeOK ==
    /\ now \in 0 .. MaxTime
    /\ owner \in Seq(Tenants) /\ Len(owner) <= MaxKeys
    /\ live \subseteq DOMAIN owner
    /\ cache \in [Keys -> Times] /\ session \in Times
    /\ hits \in Seq(0 .. MaxTime) /\ Len(hits) <= LoginMax
    /\ passed \in Seq(0 .. MaxTime)
    /\ caller \in [Callers -> [pc: {"idle", "lookup", "verify", "set", "served", "scan", "register"},
                               key: 0 .. MaxKeys, tenant: Tenants \cup {None},
                               must: SUBSET Keys, seen: SUBSET Keys, rotates: BOOLEAN]]
    /\ asks \in 0 .. MaxAsks + MaxLogins
    /\ dropped \subseteq Tenants

(* The store starts with one client or none; a session may be there, of    *)
(* any age.                                                                *)
AccessInit ==
    /\ now = 1
    /\ owner \in {<< >>} \cup {<<t>> : t \in Tenants}
    /\ live = DOMAIN owner
    /\ cache = [k \in Keys |-> 0]
    /\ session \in 0 .. 1 + SessionTTL
    /\ hits = << >> /\ passed = << >>
    /\ caller = [c \in Callers |-> Idle]
    /\ asks = 0
    /\ dropped = {}

Tick ==
    /\ now < MaxTime /\ now' = now + 1
    /\ UNCHANGED <<owner, live, cache, session, hits, caller, asks, passed, dropped>>

(***************************************************************************)
(* Keys                                                                    *)
(***************************************************************************)

Goto(c, pc) == caller' = [caller EXCEPT ![c].pc = pc]
Return(c) == caller' = [caller EXCEPT ![c] = Idle]
Start(c, call) ==
    /\ caller[c].pc = "idle"
    /\ asks < MaxAsks /\ asks' = asks + 1
    /\ caller' = [caller EXCEPT ![c] = call]

(* Bug: an entry is used after it has expired.                             *)
CachedForever(k) == cache[k] > 0

(* apiKeyCache.get: an entry is good up to its expiry.                     *)
Cached(k) == cache[k] > 0 /\ now <= cache[k]

(* A request that carries a client's key.                                  *)
Present(c) ==
    /\ \E k \in DOMAIN owner : Start(c, [Idle EXCEPT !.pc = "lookup", !.key = k])
    /\ UNCHANGED <<now, owner, live, cache, session, hits, passed, dropped>>

Lookup(c) ==
    /\ caller[c].pc = "lookup"
    /\ Goto(c, IF Cached(caller[c].key) THEN "served" ELSE "verify")
    /\ UNCHANGED <<now, owner, live, cache, session, hits, asks, passed, dropped>>

(* The store is asked, and the answer remembered afterwards: the key may   *)
(* be revoked in between. A failed lookup answers 401 and caches nothing.  *)
VerifyClient(c) ==
    /\ caller[c].pc = "verify"
    /\ IF caller[c].key \in live THEN Goto(c, "set") ELSE Return(c)
    /\ UNCHANGED <<now, owner, live, cache, session, hits, asks, passed, dropped>>

CacheSet(c) ==
    /\ caller[c].pc = "set"
    /\ cache' = [cache EXCEPT ![caller[c].key] = now + CacheTTL]
    /\ Goto(c, "served")
    /\ UNCHANGED <<now, owner, live, session, hits, asks, passed, dropped>>

Respond(c) ==
    /\ caller[c].pc = "served"
    /\ Return(c)
    /\ UNCHANGED <<now, owner, live, cache, session, hits, asks, passed, dropped>>

RequireAuth(c) == Lookup(c) \/ VerifyClient(c) \/ CacheSet(c)

(* RequireAuth for a request whose steps nothing comes between.            *)
AuthKey(k, ok) ==
    /\ ok = (Cached(k) \/ k \in live)
    /\ cache' = IF ok /\ ~Cached(k) THEN [cache EXCEPT ![k] = now + CacheTTL] ELSE cache
    /\ UNCHANGED <<now, owner, live, session, hits, caller, asks, passed, dropped>>

(* A key is random: it never comes back.                                   *)
NewKey(t) ==
    /\ Len(owner) < MaxKeys
    /\ owner' = Append(owner, t)
    /\ live' = live \cup {Len(owner) + 1}

(* POST /api/v1/register. (The register limiter is a LoginLimiter.)        *)
NewClient(c) ==
    /\ caller[c].pc = "idle" /\ asks < MaxAsks /\ asks' = asks + 1
    /\ \E t \in Tenants : NewKey(t)
    /\ UNCHANGED <<now, cache, session, hits, caller, passed, dropped>>

(* Bug: rotation registers the new key before it revokes the old ones.     *)
StartRevokeTooLate(c) ==
    /\ \E t \in Tenants, rotates \in BOOLEAN :
          /\ \/ rotates /\ NewKey(t)
             \/ ~rotates /\ UNCHANGED <<owner, live>>
          /\ Start(c, [Idle EXCEPT !.pc = "scan", !.tenant = t, !.must = live', !.rotates = FALSE])
          /\ dropped' = IF rotates THEN dropped ELSE dropped \cup {t}
    /\ UNCHANGED <<now, cache, session, hits, passed>>

(* RevokeClient, alone or as the first half of RotateClientKey. The Redis  *)
(* store walks its keys with SCAN, which is sure to return only the ones   *)
(* that are there from the beginning to the end.                           *)
StartRevoke(c) ==
    /\ \E t \in Tenants, rotates \in BOOLEAN :
          /\ Start(c, [Idle EXCEPT !.pc = "scan", !.tenant = t, !.must = live, !.rotates = rotates])
          /\ dropped' = IF rotates THEN dropped ELSE dropped \cup {t}
    /\ UNCHANGED <<now, owner, live, cache, session, hits, passed>>

Mine(c, k) == owner[k] = caller[c].tenant

(* One key of the walk: GET, and DEL when it is the tenant's. A GET that   *)
(* fails skips the key and a DEL that fails is not noticed.                *)
ScanKey(c) ==
    /\ caller[c].pc = "scan"
    /\ \E k \in (caller[c].must \cup live) \ caller[c].seen :
          /\ caller' = [caller EXCEPT ![c].seen = @ \cup {k}]
          /\ live' \in {live} \cup (IF Mine(c, k) THEN {live \ {k}} ELSE {})
    /\ UNCHANGED <<now, owner, cache, session, hits, asks, passed, dropped>>

(* The SQL store and the map delete them all at once.                      *)
DeleteAll(c) ==
    /\ caller[c].pc = "scan" /\ caller[c].seen = {}
    /\ caller' = [caller EXCEPT ![c].seen = live, ![c].must = live]
    /\ live' = {k \in live : ~Mine(c, k)}
    /\ UNCHANGED <<now, owner, cache, session, hits, asks, passed, dropped>>

(* The walk is over, or ends in an error that the caller gets.             *)
RevokeReturns(c) ==
    /\ caller[c].pc = "scan"
    /\ \/ /\ caller[c].must \subseteq caller[c].seen
          /\ IF caller[c].rotates THEN Goto(c, "register") ELSE Return(c)
          /\ UNCHANGED dropped
       \/ /\ Return(c)
          /\ dropped' = dropped \cup {caller[c].tenant}
    /\ UNCHANGED <<now, owner, live, cache, session, hits, asks, passed>>

(* The second half of RotateClientKey: when it fails the tenant has none.  *)
RotateReturns(c) ==
    /\ caller[c].pc = "register"
    /\ \/ NewKey(caller[c].tenant) /\ UNCHANGED dropped
       \/ /\ dropped' = dropped \cup {caller[c].tenant}
          /\ UNCHANGED <<owner, live>>
    /\ Return(c)
    /\ UNCHANGED <<now, cache, session, hits, asks, passed>>

KeyCall(c) ==
    \/ Present(c) \/ RequireAuth(c) \/ Respond(c)
    \/ NewClient(c) \/ StartRevoke(c) \/ ScanKey(c) \/ DeleteAll(c)
    \/ RevokeReturns(c) \/ RotateReturns(c)

KeyNext == Tick \/ \E c \in Callers : KeyCall(c)

(***************************************************************************)
(* Logins                                                                  *)
(***************************************************************************)

(* Bug: the window starts anew with the second it is asked in.             *)
RecentThisSecond == SelectSeq(hits, LAMBDA t : t = now)

(* LoginLimiter.Allow keeps the attempts of the last window and records    *)
(* the new one when there is room.                                         *)
Recent == SelectSeq(hits, LAMBDA t : t + LoginWindow > now)
Allow(ok) ==
    LET recent == Recent
    IN  /\ ok = (Len(recent) < LoginMax)
        /\ hits' = IF ok THEN Append(recent, now) ELSE recent

(* Store.Get: an expired session is deleted when it is met.                *)
SessionGet == session > 0 /\ now <= session
Create == session' = now + SessionTTL
Delete == session' = 0
Met == session' = IF SessionGet THEN session ELSE 0

(* GET /session, and whoever else asks for the session.                    *)
GetSession == Met /\ UNCHANGED <<now, owner, live, cache, hits, caller, asks, passed, dropped>>

(* POST /login: the limiter, then the body, the credentials, the session.  *)
Login(ok) ==
    /\ asks < MaxLogins /\ asks' = asks + 1
    /\ \/ /\ Allow(TRUE)
          /\ passed' = Append(passed, now)
          /\ IF ok THEN Create ELSE UNCHANGED session
       \/ ~ok /\ Allow(FALSE) /\ UNCHANGED <<passed, session>>
    /\ UNCHANGED <<now, owner, live, cache, caller, dropped>>

(* POST /logout behind RequireAuth and CSRFProtect, which lets a session   *)
(* pass only with its token.                                               *)
Logout(token) ==
    /\ IF SessionGet /\ token THEN Delete ELSE Met
    /\ UNCHANGED <<now, owner, live, cache, hits, caller, asks, passed, dropped>>

LoginNext == Tick \/ \E ok \in BOOLEAN : Login(ok) \/ Logout(ok)

(***************************************************************************)
(* Properties                                                              *)
(***************************************************************************)

Verified(k) == \E c \in Callers : caller[c].pc = "set" /\ caller[c].key = k
Gone(k) == k \in DOMAIN owner /\ k \notin live /\ cache[k] < now /\ ~Verified(k)
Serves(c, k) == caller[c].pc # "served" /\ caller'[c].pc = "served" /\ caller'[c].key = k

(* Once a revoked key's cache entry has run out and the requests that      *)
(* verified it before the revocation are through, RequireAuth never lets   *)
(* it pass again: no late cache.set brings it back.                        *)
RevokedKeyFades ==
    [][\A k \in Keys : Gone(k) => Gone(k)' /\ \A c \in Callers : ~Serves(c, k)]_accessVars

(* RotateClientKey never leaves a tenant without a key, whatever other     *)
(* rotations and registrations run beside it: a tenant that has none was   *)
(* revoked, is between the two halves of a rotation, or had one fail.      *)
TenantKeepsAKey ==
    \A t \in Tenants :
        (\E k \in DOMAIN owner : owner[k] = t) =>
            \/ \E k \in live : owner[k] = t
            \/ t \in dropped
            \/ \E c \in Callers : caller[c].tenant = t /\ caller[c].rotates

(* LoginLimiter: no window of its length holds more than max attempts that *)
(* were let through.                                                       *)
LoginBounded ==
    \A i \in DOMAIN passed : i + LoginMax \in DOMAIN passed =>
        passed[i + LoginMax] >= passed[i] + LoginWindow
=============================================================================
