---------------------------- MODULE ConsoleProofs ---------------------------
(* The clients' keys, for any number of tenants, keys and callers, with or *)
(* without a browser beside them: a rotation leaves a key behind, and a    *)
(* revoked key stays out once its cache entry has run out.                 *)
EXTENDS Console, TLAPS

Calls == [pc: {"idle", "lookup", "verify", "set", "served", "scan", "register"},
          key: Nat, tenant: Tenants \cup {None}, must: SUBSET Nat, seen: SUBSET Nat,
          rotates: BOOLEAN]

Revoking(c) == caller[c].pc \in {"scan", "register"}

(* A revocation that is not half of a rotation has dropped its tenant      *)
(* before it deletes the first key, and only a revocation rotates: these   *)
(* make TenantKeepsAKey inductive.                                         *)
CallsInv ==
    /\ caller \in [Callers -> Calls]
    /\ \A c \in Callers :
          /\ Revoking(c) => caller[c].tenant \in Tenants
          /\ caller[c].pc = "scan" => caller[c].rotates \/ caller[c].tenant \in dropped
          /\ caller[c].rotates => Revoking(c)

KeysInv ==
    /\ now \in Nat /\ cache \in [Keys -> Nat]
    /\ owner \in Seq(Tenants) /\ live \subseteq DOMAIN owner

KeyInv == KeysInv /\ CallsInv /\ TenantKeepsAKey

(* What the browser does to the keys, and everything a step of Console can *)
(* do to them.                                                             *)
Registers(t) == NewKey(t) /\ UNCHANGED <<now, cache, session, hits, caller, asks, passed, dropped>>
Revokes(t) ==
    /\ live' = {k \in live : owner[k] # t} /\ dropped' = dropped \cup {t}
    /\ UNCHANGED <<now, owner, cache, session, hits, caller, asks, passed>>
AccessStep ==
    \/ KeyNext \/ LoginNext \/ GetSession
    \/ \E k, ok : AuthKey(k, ok)
    \/ \E t \in Tenants : Registers(t) \/ Revokes(t)
    \/ UNCHANGED accessVars

LEMMA HomeIsATenant == Home \in Tenants
BY AccessAssumption DEF Home

LEMMA CheckAccessIsAccess == ASSUME NEW ok, CheckAccess(ok) PROVE AccessStep
BY DEF CheckAccess, AccessStep

LEMMA SignInIsAccess == SignIn => AccessStep
<1>1. op_loginLoads => AccessStep  BY DEF op_loginLoads, AccessStep
<1>2. op_login => AccessStep  BY DEF op_login, AccessStep, LoginNext
<1>3. op_loadSession => AccessStep  BY DEF op_loadSession, AccessStep
<1>4. cl_loginLoads => AccessStep  BY DEF cl_loginLoads, AccessStep
<1>5. cl_doLogin => AccessStep  BY DEF cl_doLogin, AccessStep
<1>6. cl_doRegister => AccessStep  BY HomeIsATenant DEF cl_doRegister, AccessStep, Registers
<1>7. cl_open => AccessStep  BY DEF cl_open, AccessStep
<1> QED  BY <1>1, <1>2, <1>3, <1>4, <1>5, <1>6, <1>7 DEF SignIn

LEMMA PageIsAccess == Page => AccessStep
<1>1. PageTick => AccessStep  BY DEF PageTick, AccessStep, KeyNext
<1>2. KeyRevoked => AccessStep  BY DEF KeyRevoked, AccessStep, Revokes
<1>3. Leave => AccessStep
  <2>1. Logout(FALSE) => LoginNext  BY DEF LoginNext
  <2> QED  BY <2>1 DEF Leave, AccessStep
<1>4. ServeRead => AccessStep
  <2>1. ServeRead => (\E ok \in BOOLEAN : CheckAccess(ok)) \/ UNCHANGED accessVars  BY DEF ServeRead
  <2> QED  BY <2>1, CheckAccessIsAccess DEF AccessStep
<1>5. ServePost => AccessStep
  <2>1. ServePost => \E ok \in BOOLEAN : CheckAccess(ok)  BY DEF ServePost
  <2> QED  BY <2>1, CheckAccessIsAccess
<1>6. ShowAnswer \/ Refresh \/ Post \/ LosePost \/ AfterPost => UNCHANGED accessVars
  BY DEF ShowAnswer, Refresh, Post, LosePost, AfterPost
<1> QED  BY <1>1, <1>2, <1>3, <1>4, <1>5, <1>6, SignInIsAccess DEF Page, AccessStep

LEMMA StreamIsAccess == Stream => AccessStep
<1>1. Connect => AccessStep
  <2>1. Connect => CheckAccess(TRUE) \/ CheckAccess(FALSE) \/ UNCHANGED accessVars  BY DEF Connect
  <2> QED  BY <2>1, CheckAccessIsAccess DEF AccessStep
<1>2. CheckSession => AccessStep  BY DEF CheckSession, AccessStep
<1>3. Publish \/ DropStream \/ Deadline \/ DisconnectTimer \/ Deliver => UNCHANGED accessVars
  BY DEF Publish, DropStream, Deadline, DisconnectTimer, Deliver
<1> QED  BY <1>1, <1>2, <1>3 DEF Stream, AccessStep

LEMMA StepIsAccess == [Next]_vars => AccessStep
<1>1. OtherCall => AccessStep  BY DEF OtherCall, AccessStep
<1> QED  BY <1>1, PageIsAccess, StreamIsAccess DEF Next, vars, AccessStep

(***************************************************************************)
(* The invariant                                                           *)
(***************************************************************************)

Owns(t) == \E k \in DOMAIN owner : owner[k] = t
Kept(t) ==
    \/ \E k \in live : owner[k] = t
    \/ t \in dropped
    \/ \E c \in Callers : caller[c].tenant = t /\ caller[c].rotates

LEMMA KeptIsKept == TenantKeepsAKey <=> \A t \in Tenants : Owns(t) => Kept(t)
BY DEF TenantKeepsAKey, Owns, Kept

LEMMA IdleIsACall == Idle \in Calls /\ Idle.pc = "idle" /\ Idle.rotates = FALSE
BY DEF Idle, Calls

LEMMA KeysInit == AccessInit => KeyInv
<1> SUFFICES ASSUME AccessInit PROVE KeyInv  OBVIOUS
<1>1. owner \in Seq(Tenants)
  <2>1. owner = << >> \/ \E t \in Tenants : owner = <<t>>  BY DEF AccessInit
  <2>2. CASE owner = << >>  BY <2>2
  <2>3. ASSUME NEW t \in Tenants, owner = <<t>>  PROVE owner \in Seq(Tenants)  BY <2>3
  <2> QED  BY <2>1, <2>2, <2>3
<1>2. KeysInv  BY <1>1 DEF AccessInit, KeysInv
<1>3. CallsInv  BY IdleIsACall DEF AccessInit, CallsInv, Revoking
<1>4. TenantKeepsAKey  BY DEF AccessInit, TenantKeepsAKey
<1> QED  BY <1>2, <1>3, <1>4 DEF KeyInv

(* Steps that leave the keys and the calls alone.                          *)
LEMMA QuietStep ==
  ASSUME KeyInv, UNCHANGED <<owner, live, caller, dropped>>, now' \in Nat, cache' \in [Keys -> Nat]
  PROVE  KeyInv'
<1>1. KeysInv'  BY DEF KeyInv, KeysInv
<1>2. CallsInv'  BY DEF KeyInv, CallsInv, Revoking
<1>3. TenantKeepsAKey'  BY DEF KeyInv, TenantKeepsAKey
<1> QED  BY <1>1, <1>2, <1>3 DEF KeyInv

(* A caller goes on to another call; no tenant leaves dropped.             *)
LEMMA CallsMove ==
  ASSUME KeyInv, NEW c \in Callers, NEW r \in Calls, caller' = [caller EXCEPT ![c] = r],
         dropped \subseteq dropped',
         r.pc \in {"scan", "register"} => r.tenant \in Tenants,
         r.pc = "scan" => r.rotates \/ r.tenant \in dropped',
         r.rotates => r.pc \in {"scan", "register"}
  PROVE  CallsInv' /\ caller'[c] = r /\ \A d \in Callers \ {c} : caller'[d] = caller[d]
<1>1. caller \in [Callers -> Calls]  BY DEF KeyInv, CallsInv
<1>2. caller' \in [Callers -> Calls] /\ caller'[c] = r /\ \A d \in Callers \ {c} : caller'[d] = caller[d]
  BY <1>1
<1>3. ASSUME NEW d \in Callers
      PROVE  /\ Revoking(d)' => caller'[d].tenant \in Tenants
             /\ caller'[d].pc = "scan" => caller'[d].rotates \/ caller'[d].tenant \in dropped'
             /\ caller'[d].rotates => Revoking(d)'
  <2>1. CASE d = c  BY <1>2, <2>1 DEF Revoking
  <2>2. CASE d # c  BY <1>2, <2>2 DEF KeyInv, CallsInv, Revoking
  <2> QED  BY <2>1, <2>2
<1> QED  BY <1>2, <1>3 DEF CallsInv

(* The steps of a request that carries a key.                              *)
LEMMA RequestStep ==
  ASSUME KeyInv, NEW c \in Callers, ~caller[c].rotates,
         NEW r \in Calls, r.pc \notin {"scan", "register"}, ~r.rotates,
         caller' = [caller EXCEPT ![c] = r],
         UNCHANGED <<now, owner, live, dropped>>, cache' \in [Keys -> Nat]
  PROVE  KeyInv'
<1>1. CallsInv' /\ caller'[c] = r /\ \A d \in Callers \ {c} : caller'[d] = caller[d]  BY CallsMove
<1>2. KeysInv'  BY DEF KeyInv, KeysInv
<1>3. ASSUME NEW t \in Tenants, Owns(t)'  PROVE Kept(t)'
  <2>1. Kept(t)  BY <1>3, KeptIsKept DEF KeyInv, Owns
  <2> QED  BY <1>1, <2>1 DEF Kept
<1>4. TenantKeepsAKey'  BY <1>3 DEF TenantKeepsAKey, Owns, Kept
<1> QED  BY <1>1, <1>2, <1>4 DEF KeyInv

LEMMA NewKeyFacts ==
  ASSUME KeysInv, NEW t \in Tenants, NewKey(t)
  PROVE  /\ owner' \in Seq(Tenants) /\ live' \subseteq DOMAIN owner' /\ live \subseteq live'
         /\ Len(owner) + 1 \in live' /\ owner'[Len(owner) + 1] = t
         /\ \A k \in DOMAIN owner : k \in DOMAIN owner' /\ owner'[k] = owner[k] /\ k # Len(owner) + 1
         /\ \A k \in DOMAIN owner' : k \in DOMAIN owner \/ owner'[k] = t
<1>1. owner \in Seq(Tenants) /\ live \subseteq DOMAIN owner  BY DEF KeysInv
<1>2. owner' = Append(owner, t) /\ live' = live \cup {Len(owner) + 1}  BY DEF NewKey
<1>3. owner' \in Seq(Tenants) /\ Len(owner') = Len(owner) + 1 /\ owner'[Len(owner) + 1] = t
      /\ \A k \in 1 .. Len(owner) : owner'[k] = owner[k]
  BY <1>1, <1>2
<1>4. DOMAIN owner = 1 .. Len(owner) /\ DOMAIN owner' = 1 .. Len(owner) + 1 /\ Len(owner) \in Nat
  BY <1>1, <1>3
<1> QED  BY <1>1, <1>2, <1>3, <1>4

(* A new key of t: whatever t's calls do, t has a key.                     *)
LEMMA NewKeyKeeps ==
  ASSUME KeyInv, NEW u \in Tenants, NewKey(u), dropped \subseteq dropped',
         \A d \in Callers : caller[d].tenant # u => caller'[d] = caller[d]
  PROVE  TenantKeepsAKey'
<1>1. KeysInv /\ live \subseteq DOMAIN owner  BY DEF KeyInv, KeysInv
<1>2. ASSUME NEW t \in Tenants, Owns(t)'  PROVE Kept(t)'
  <2>1. CASE t = u  BY <1>1, <2>1, NewKeyFacts DEF Kept
  <2>2. CASE t # u
    <3>1. Owns(t)  BY <1>1, <1>2, <2>2, NewKeyFacts DEF Owns
    <3>2. Kept(t)  BY <3>1, KeptIsKept DEF KeyInv
    <3>3. ASSUME NEW k \in live, owner[k] = t  PROVE k \in live' /\ owner'[k] = t
      BY <1>1, <3>3, NewKeyFacts
    <3>4. ASSUME NEW d \in Callers, caller[d].tenant = t, caller[d].rotates
          PROVE  caller'[d].tenant = t /\ caller'[d].rotates
      BY <2>2, <3>4
    <3> QED  BY <3>2, <3>3, <3>4 DEF Kept
  <2> QED  BY <2>1, <2>2
<1> QED  BY <1>2 DEF TenantKeepsAKey, Owns, Kept

(***************************************************************************)
(* One step of a call                                                      *)
(***************************************************************************)

LEMMA RequestKeeps ==
  ASSUME KeyInv, NEW c \in Callers, Present(c) \/ RequireAuth(c) \/ Respond(c)
  PROVE  KeyInv'
<1>0. /\ caller \in [Callers -> Calls] /\ caller[c] \in Calls
      /\ owner \in Seq(Tenants) /\ cache \in [Keys -> Nat] /\ now \in Nat /\ CacheTTL \in Nat
      /\ caller[c].rotates => caller[c].pc \in {"scan", "register"}
  BY AccessAssumption DEF KeyInv, KeysInv, CallsInv, Revoking
<1>1. CASE Present(c)
  <2>1. PICK k \in DOMAIN owner : Start(c, [Idle EXCEPT !.pc = "lookup", !.key = k])
    BY <1>1 DEF Present
  <2> DEFINE r == [Idle EXCEPT !.pc = "lookup", !.key = k]
  <2>2. k \in Nat  BY <1>0, <2>1
  <2>3. r \in Calls /\ r.pc = "lookup" /\ ~r.rotates  BY <2>2 DEF Idle, Calls
  <2>4. ~caller[c].rotates /\ caller' = [caller EXCEPT ![c] = r]  BY <1>0, <2>1 DEF Start
  <2> QED  BY <1>0, <1>1, <2>3, <2>4, RequestStep DEF Present
<1>2. ASSUME NEW pc \in {"verify", "served", "set"}, Goto(c, pc), ~caller[c].rotates,
             UNCHANGED <<now, owner, live, dropped>>, cache' \in [Keys -> Nat]
      PROVE  KeyInv'
  <2> DEFINE r == [caller[c] EXCEPT !.pc = pc]
  <2>1. r \in Calls /\ r.pc = pc /\ ~r.rotates  BY <1>0, <1>2 DEF Calls
  <2>2. caller' = [caller EXCEPT ![c] = r]  BY <1>2 DEF Goto
  <2> QED  BY <1>2, <2>1, <2>2, RequestStep
<1>3. ASSUME Return(c), ~caller[c].rotates, UNCHANGED <<now, owner, live, cache, dropped>>
      PROVE  KeyInv'
  BY <1>0, <1>3, IdleIsACall, RequestStep DEF Return
<1>4. CASE Lookup(c)  BY <1>0, <1>2, <1>4 DEF Lookup
<1>5. CASE VerifyClient(c)  BY <1>0, <1>2, <1>3, <1>5 DEF VerifyClient
<1>6. CASE CacheSet(c)
  <2>1. now + CacheTTL \in Nat  BY <1>0
  <2>2. cache' = [cache EXCEPT ![caller[c].key] = now + CacheTTL]  BY <1>6 DEF CacheSet
  <2>3. cache' \in [Keys -> Nat]  BY <1>0, <2>1, <2>2
  <2> QED  BY <1>0, <1>2, <1>6, <2>3 DEF CacheSet
<1>7. CASE Respond(c)  BY <1>0, <1>3, <1>7 DEF Respond
<1> QED  BY <1>1, <1>4, <1>5, <1>6, <1>7 DEF RequireAuth

LEMMA RegisterKeeps ==
  ASSUME KeyInv, NEW t \in Tenants, NewKey(t), UNCHANGED <<now, cache, caller, dropped>>
  PROVE  KeyInv'
<1>1. KeysInv'  BY NewKeyFacts DEF KeyInv, KeysInv
<1>2. CallsInv'  BY DEF KeyInv, CallsInv, Revoking
<1>3. TenantKeepsAKey'  BY NewKeyKeeps
<1> QED  BY <1>1, <1>2, <1>3 DEF KeyInv

(* Keys of one tenant are deleted: the others keep theirs.                 *)
LEMMA DeleteKeeps ==
  ASSUME KeyInv, NEW u \in Tenants, UNCHANGED <<owner, dropped>>, live' \subseteq live,
         \A k \in live \ live' : owner[k] = u,
         u \in dropped \/ \E c \in Callers : caller[c].tenant = u /\ caller[c].rotates,
         \A d \in Callers : caller'[d].tenant = caller[d].tenant /\ caller'[d].rotates = caller[d].rotates
  PROVE  TenantKeepsAKey'
<1>1. ASSUME NEW t \in Tenants, Owns(t)'  PROVE Kept(t)'
  <2>1. Kept(t)  BY <1>1, KeptIsKept DEF KeyInv, Owns
  <2>2. CASE t = u  BY <2>2 DEF Kept
  <2>3. CASE t # u  BY <2>1, <2>3 DEF Kept
  <2> QED  BY <2>2, <2>3
<1> QED  BY <1>1 DEF TenantKeepsAKey, Owns, Kept

LEMMA StartRevokeKeeps ==
  ASSUME KeyInv, NEW c \in Callers, StartRevoke(c)
  PROVE  KeyInv'
<1>0. /\ caller \in [Callers -> Calls] /\ owner \in Seq(Tenants) /\ live \subseteq DOMAIN owner
      /\ caller[c].rotates => caller[c].pc \in {"scan", "register"}
  BY DEF KeyInv, KeysInv, CallsInv, Revoking
<1>1. PICK t \in Tenants, rotates \in BOOLEAN :
          /\ Start(c, [Idle EXCEPT !.pc = "scan", !.tenant = t, !.must = live, !.rotates = rotates])
          /\ dropped' = IF rotates THEN dropped ELSE dropped \cup {t}
  BY DEF StartRevoke
<1> DEFINE r == [Idle EXCEPT !.pc = "scan", !.tenant = t, !.must = live, !.rotates = rotates]
<1>2. live \subseteq Nat  BY <1>0
<1>3. r \in Calls /\ r.pc = "scan" /\ r.tenant = t /\ r.rotates = rotates  BY <1>2 DEF Idle, Calls
<1>4. ~caller[c].rotates /\ caller' = [caller EXCEPT ![c] = r]  BY <1>0, <1>1 DEF Start
<1>5. dropped \subseteq dropped' /\ (r.rotates \/ r.tenant \in dropped')  BY <1>1, <1>3
<1>6. CallsInv' /\ caller'[c] = r /\ \A d \in Callers \ {c} : caller'[d] = caller[d]
  BY <1>3, <1>4, <1>5, CallsMove
<1>7. KeysInv'  BY DEF StartRevoke, KeyInv, KeysInv
<1>8. ASSUME NEW u \in Tenants, Owns(u)'  PROVE Kept(u)'
  <2>1. Kept(u)  BY <1>8, KeptIsKept DEF KeyInv, Owns, StartRevoke
  <2> QED  BY <1>4, <1>5, <1>6, <2>1 DEF Kept, StartRevoke
<1>9. TenantKeepsAKey'  BY <1>8 DEF TenantKeepsAKey, Owns, Kept
<1> QED  BY <1>6, <1>7, <1>9 DEF KeyInv

LEMMA WalkKeeps ==
  ASSUME KeyInv, NEW c \in Callers, ScanKey(c) \/ DeleteAll(c)
  PROVE  KeyInv'
<1>0. /\ caller \in [Callers -> Calls] /\ caller[c] \in Calls
      /\ owner \in Seq(Tenants) /\ live \subseteq DOMAIN owner /\ live \subseteq Nat
  BY DEF KeyInv, KeysInv, CallsInv
<1>1. /\ caller[c].pc = "scan" /\ caller[c].tenant \in Tenants
      /\ caller[c].rotates \/ caller[c].tenant \in dropped
  BY DEF ScanKey, DeleteAll, KeyInv, CallsInv, Revoking
<1>2. UNCHANGED <<now, owner, cache, dropped>>  BY DEF ScanKey, DeleteAll
<1>3. live' \subseteq live /\ \A k \in live \ live' : owner[k] = caller[c].tenant
  BY DEF ScanKey, DeleteAll, Mine
<1>4. \E must, seen \in SUBSET Nat :
         caller' = [caller EXCEPT ![c] = [caller[c] EXCEPT !.must = must, !.seen = seen]]
  <2>1. CASE ScanKey(c)
    <3>1. PICK k \in (caller[c].must \cup live) \ caller[c].seen :
              caller' = [caller EXCEPT ![c].seen = @ \cup {k}]
      BY <2>1 DEF ScanKey
    <3>2. caller[c].must \in SUBSET Nat /\ caller[c].seen \cup {k} \in SUBSET Nat  BY <1>0, <3>1 DEF Calls
    <3>3. [caller[c] EXCEPT !.must = caller[c].must, !.seen = caller[c].seen \cup {k}]
            = [caller[c] EXCEPT !.seen = caller[c].seen \cup {k}]
      BY <1>0 DEF Calls
    <3>4. caller' = [caller EXCEPT ![c] = [caller[c] EXCEPT !.must = caller[c].must, !.seen = caller[c].seen \cup {k}]]
      BY <3>1, <3>3
    <3> QED  BY <3>2, <3>4
  <2>2. CASE DeleteAll(c)
    <3>1. caller' = [caller EXCEPT ![c] = [caller[c] EXCEPT !.seen = live, !.must = live]]
      BY <1>0, <2>2 DEF DeleteAll
    <3>2. [caller[c] EXCEPT !.seen = live, !.must = live] = [caller[c] EXCEPT !.must = live, !.seen = live]
      BY <1>0 DEF Calls
    <3>3. caller' = [caller EXCEPT ![c] = [caller[c] EXCEPT !.must = live, !.seen = live]]  BY <3>1, <3>2
    <3> QED  BY <1>0, <3>3
  <2> QED  BY <2>1, <2>2
<1>5. PICK must, seen \in SUBSET Nat :
          caller' = [caller EXCEPT ![c] = [caller[c] EXCEPT !.must = must, !.seen = seen]]
  BY <1>4
<1> DEFINE r == [caller[c] EXCEPT !.must = must, !.seen = seen]
<1>6. r \in Calls /\ r.pc = "scan" /\ r.tenant = caller[c].tenant /\ r.rotates = caller[c].rotates
  BY <1>0, <1>1 DEF Calls
<1>7. CallsInv' /\ caller'[c] = r /\ \A d \in Callers \ {c} : caller'[d] = caller[d]
  <2>1. caller' = [caller EXCEPT ![c] = r]  BY <1>5
  <2>2. dropped \subseteq dropped' /\ r.tenant \in Tenants /\ (r.rotates \/ r.tenant \in dropped')
    BY <1>1, <1>2, <1>6
  <2> HIDE DEF r
  <2> QED  BY <1>6, <2>1, <2>2, CallsMove
<1>8. \A d \in Callers : caller'[d].tenant = caller[d].tenant /\ caller'[d].rotates = caller[d].rotates
  BY <1>6, <1>7
<1>9. TenantKeepsAKey'  BY <1>1, <1>2, <1>3, <1>8, DeleteKeeps
<1>10. KeysInv'  BY <1>2, <1>3 DEF KeyInv, KeysInv
<1> QED  BY <1>7, <1>9, <1>10 DEF KeyInv

LEMMA RevokeReturnsKeeps ==
  ASSUME KeyInv, NEW c \in Callers, RevokeReturns(c)
  PROVE  KeyInv'
<1>0. caller \in [Callers -> Calls] /\ caller[c] \in Calls  BY DEF KeyInv, CallsInv
<1>1. /\ caller[c].pc = "scan" /\ caller[c].tenant \in Tenants
      /\ caller[c].rotates \/ caller[c].tenant \in dropped
  BY DEF RevokeReturns, KeyInv, CallsInv, Revoking
<1>2. UNCHANGED <<now, owner, live, cache>> /\ dropped \subseteq dropped'  BY DEF RevokeReturns
<1>3. KeysInv'  BY <1>2 DEF KeyInv, KeysInv
<1>4. CASE Goto(c, "register")
  <2> DEFINE r == [caller[c] EXCEPT !.pc = "register"]
  <2>1. r \in Calls /\ r.pc = "register" /\ r.tenant = caller[c].tenant /\ r.rotates = caller[c].rotates
    BY <1>0 DEF Calls
  <2>2. caller' = [caller EXCEPT ![c] = r]  BY <1>4 DEF Goto
  <2>3. CallsInv' /\ caller'[c] = r /\ \A d \in Callers \ {c} : caller'[d] = caller[d]
    BY <1>1, <1>2, <2>1, <2>2, CallsMove
  <2>4. ASSUME NEW t \in Tenants, Owns(t)'  PROVE Kept(t)'
    <3>1. Kept(t)  BY <1>2, <2>4, KeptIsKept DEF KeyInv, Owns
    <3> QED  BY <1>2, <2>1, <2>3, <3>1 DEF Kept
  <2>5. TenantKeepsAKey'  BY <2>4 DEF TenantKeepsAKey, Owns, Kept
  <2> QED  BY <1>3, <2>3, <2>5 DEF KeyInv
<1>5. CASE Return(c) /\ caller[c].tenant \in dropped'
  <2>1. CallsInv' /\ caller'[c] = Idle /\ \A d \in Callers \ {c} : caller'[d] = caller[d]
    BY <1>2, <1>5, IdleIsACall, CallsMove DEF Return
  <2>2. ASSUME NEW t \in Tenants, Owns(t)'  PROVE Kept(t)'
    <3>1. Kept(t)  BY <1>2, <2>2, KeptIsKept DEF KeyInv, Owns
    <3> QED  BY <1>2, <1>5, <2>1, <3>1 DEF Kept
  <2>3. TenantKeepsAKey'  BY <2>2 DEF TenantKeepsAKey, Owns, Kept
  <2> QED  BY <1>3, <2>1, <2>3 DEF KeyInv
<1>6. Goto(c, "register") \/ (Return(c) /\ caller[c].tenant \in dropped')
  BY <1>1 DEF RevokeReturns
<1> QED  BY <1>4, <1>5, <1>6

LEMMA RotateReturnsKeeps ==
  ASSUME KeyInv, NEW c \in Callers, RotateReturns(c)
  PROVE  KeyInv'
<1> DEFINE u == caller[c].tenant
<1>1. u \in Tenants  BY DEF RotateReturns, KeyInv, CallsInv, Revoking
<1>2. UNCHANGED <<now, cache>> /\ dropped \subseteq dropped' /\ Return(c)  BY DEF RotateReturns
<1>3. CallsInv' /\ caller'[c] = Idle /\ \A d \in Callers \ {c} : caller'[d] = caller[d]
  BY <1>2, IdleIsACall, CallsMove DEF Return
<1>4. CASE NewKey(u)
  <2>1. KeysInv'  BY <1>1, <1>2, <1>4, NewKeyFacts DEF KeyInv, KeysInv
  <2>2. \A d \in Callers : caller[d].tenant # u => caller'[d] = caller[d]  BY <1>3
  <2>3. TenantKeepsAKey'  BY <1>1, <1>2, <1>4, <2>2, NewKeyKeeps
  <2> QED  BY <1>3, <2>1, <2>3 DEF KeyInv
<1>5. CASE dropped' = dropped \cup {u} /\ UNCHANGED <<owner, live>>
  <2>1. KeysInv'  BY <1>2, <1>5 DEF KeyInv, KeysInv
  <2>2. ASSUME NEW t \in Tenants, Owns(t)'  PROVE Kept(t)'
    <3>1. Kept(t)  BY <1>5, <2>2, KeptIsKept DEF KeyInv, Owns
    <3> QED  BY <1>3, <1>5, <3>1 DEF Kept
  <2>3. TenantKeepsAKey'  BY <2>2 DEF TenantKeepsAKey, Owns, Kept
  <2> QED  BY <1>3, <2>1, <2>3 DEF KeyInv
<1> QED  BY <1>4, <1>5 DEF RotateReturns

(* RevokeClient as the browser meets it: all of a tenant's keys at once.   *)
LEMMA RevokesKeeps ==
  ASSUME KeyInv, NEW u \in Tenants, Revokes(u)
  PROVE  KeyInv'
<1>1. KeysInv'  BY DEF Revokes, KeyInv, KeysInv
<1>2. CallsInv'  BY DEF Revokes, KeyInv, CallsInv, Revoking
<1>3. ASSUME NEW t \in Tenants, Owns(t)'  PROVE Kept(t)'
  <2>1. Kept(t)  BY <1>3, KeptIsKept DEF KeyInv, Owns, Revokes
  <2>2. CASE t = u  BY <2>2 DEF Kept, Revokes
  <2>3. CASE t # u  BY <2>1, <2>3 DEF Kept, Revokes
  <2> QED  BY <2>2, <2>3
<1>4. TenantKeepsAKey'  BY <1>3 DEF TenantKeepsAKey, Owns, Kept
<1> QED  BY <1>1, <1>2, <1>4 DEF KeyInv

LEMMA AuthKeyKeeps ==
  ASSUME KeyInv, NEW k, NEW ok, AuthKey(k, ok)
  PROVE  KeyInv'
<1>1. now + CacheTTL \in Nat /\ cache \in [Keys -> Nat] /\ now \in Nat
  BY AccessAssumption DEF KeyInv, KeysInv
<1>2. cache' = cache \/ cache' = [cache EXCEPT ![k] = now + CacheTTL]  BY DEF AuthKey
<1>3. cache' \in [Keys -> Nat]  BY <1>1, <1>2
<1> QED  BY <1>1, <1>3, QuietStep DEF AuthKey

LEMMA KeyCallKeeps ==
  ASSUME KeyInv, NEW c \in Callers, KeyCall(c)
  PROVE  KeyInv'
<1>1. CASE NewClient(c)  BY <1>1, RegisterKeeps DEF NewClient
<1> QED
  BY <1>1, RequestKeeps, StartRevokeKeeps, WalkKeeps, RevokeReturnsKeeps, RotateReturnsKeeps
  DEF KeyCall

LEMMA KeysStep == KeyInv /\ [Next]_vars => KeyInv'
<1> SUFFICES ASSUME KeyInv, AccessStep PROVE KeyInv'  BY StepIsAccess
<1>0. now \in Nat /\ cache \in [Keys -> Nat]  BY DEF KeyInv, KeysInv
<1>1. CASE Tick  BY <1>0, <1>1, QuietStep DEF Tick
<1>2. CASE LoginNext
  <2>1. ASSUME NEW ok \in BOOLEAN, Login(ok) \/ Logout(ok)  PROVE KeyInv'
    BY <1>0, <2>1, QuietStep DEF Login, Logout
  <2> QED  BY <1>1, <1>2, <2>1 DEF LoginNext
<1>3. CASE GetSession  BY <1>0, <1>3, QuietStep DEF GetSession
<1>4. CASE KeyNext  BY <1>1, <1>4, KeyCallKeeps DEF KeyNext
<1>5. ASSUME NEW t \in Tenants, Registers(t)  PROVE KeyInv'
  BY <1>5, RegisterKeeps DEF Registers
<1>6. CASE UNCHANGED accessVars  BY <1>0, <1>6, QuietStep DEF accessVars
<1> QED  BY <1>2, <1>3, <1>4, <1>5, <1>6, AuthKeyKeeps, RevokesKeeps DEF AccessStep

(* RotateClientKey, RevokeClient and registrations running beside each     *)
(* other in any number, for any number of tenants: a tenant without a key  *)
(* was revoked, is between the halves of a rotation, or had one fail.      *)
THEOREM TenantKeepsAKeyInvariant == Spec => []TenantKeepsAKey
<1>1. Init => KeyInv  BY KeysInit DEF Init
<1>2. KeyInv => TenantKeepsAKey  BY DEF KeyInv
<1> QED  BY <1>1, <1>2, KeysStep, PTL DEF Spec

(***************************************************************************)
(* Revoked keys                                                            *)
(***************************************************************************)

(* Steps that move no call: the clock and the cache decide.                *)
LEMMA FadesWithoutCalls ==
  ASSUME KeyInv, NEW k \in Keys, Gone(k), UNCHANGED caller,
         k \in DOMAIN owner', k \notin live', cache'[k] < now'
  PROVE  Gone(k)' /\ \A c \in Callers : ~Serves(c, k)
BY DEF Gone, Verified, Serves

(* Steps of one call: it comes to hold the key verified only from a live   *)
(* key, and is served only with what the cache or the store vouch for.     *)
LEMMA FadesWithACall ==
  ASSUME KeyInv, NEW k \in Keys, Gone(k), NEW c \in Callers,
         NEW r \in Calls, caller' = [caller EXCEPT ![c] = r],
         r.pc \in {"set", "served"} => r.key # k,
         k \in DOMAIN owner', k \notin live', cache'[k] < now'
  PROVE  Gone(k)' /\ \A d \in Callers : ~Serves(d, k)
<1>1. caller \in [Callers -> Calls]  BY DEF KeyInv, CallsInv
<1>2. caller'[c] = r /\ \A d \in Callers \ {c} : caller'[d] = caller[d]  BY <1>1
<1> QED  BY <1>2 DEF Gone, Verified, Serves

LEMMA RequestFades ==
  ASSUME KeyInv, NEW k \in Keys, Gone(k), NEW c \in Callers,
         Present(c) \/ RequireAuth(c) \/ Respond(c)
  PROVE  Gone(k)' /\ \A d \in Callers : ~Serves(d, k)
<1>0. /\ caller \in [Callers -> Calls] /\ caller[c] \in Calls
      /\ owner \in Seq(Tenants) /\ cache \in [Keys -> Nat] /\ now \in Nat
  BY DEF KeyInv, KeysInv, CallsInv
<1>1. k \in DOMAIN owner /\ k \notin live /\ cache[k] < now /\ ~Verified(k)  BY DEF Gone
<1>2. ~Cached(k)
  <2>1. cache[k] \in Nat  BY <1>0
  <2> QED  BY <1>0, <1>1, <2>1 DEF Cached
<1>3. ASSUME NEW pc \in {"verify", "served", "set"}, Goto(c, pc),
             pc \in {"set", "served"} => caller[c].key # k,
             UNCHANGED <<now, owner, live>>, cache'[k] = cache[k]
      PROVE  Gone(k)' /\ \A d \in Callers : ~Serves(d, k)
  <2> DEFINE r == [caller[c] EXCEPT !.pc = pc]
  <2>1. r \in Calls /\ r.pc = pc /\ r.key = caller[c].key  BY <1>0 DEF Calls
  <2>2. caller' = [caller EXCEPT ![c] = r]  BY <1>3 DEF Goto
  <2> HIDE DEF r
  <2> QED  BY <1>1, <1>3, <2>1, <2>2, FadesWithACall
<1>4. ASSUME Return(c), UNCHANGED <<now, owner, live, cache>>
      PROVE  Gone(k)' /\ \A d \in Callers : ~Serves(d, k)
  BY <1>1, <1>4, IdleIsACall, FadesWithACall DEF Return
<1>5. CASE Present(c)
  <2>1. PICK j \in DOMAIN owner : Start(c, [Idle EXCEPT !.pc = "lookup", !.key = j])
    BY <1>5 DEF Present
  <2> DEFINE r == [Idle EXCEPT !.pc = "lookup", !.key = j]
  <2>2. j \in Nat  BY <1>0, <2>1
  <2>3. r \in Calls /\ r.pc = "lookup"  BY <2>2 DEF Idle, Calls
  <2>4. caller' = [caller EXCEPT ![c] = r]  BY <2>1 DEF Start
  <2> HIDE DEF r
  <2> QED  BY <1>1, <1>5, <2>3, <2>4, FadesWithACall DEF Present
<1>6. CASE Lookup(c)
  <2>1. CASE Cached(caller[c].key)  BY <1>2, <1>3, <1>6, <2>1 DEF Lookup
  <2>2. CASE ~Cached(caller[c].key)  BY <1>3, <1>6, <2>2 DEF Lookup
  <2> QED  BY <2>1, <2>2
<1>7. CASE VerifyClient(c)
  <2>1. CASE caller[c].key \in live  BY <1>1, <1>3, <1>7, <2>1 DEF VerifyClient
  <2>2. CASE caller[c].key \notin live  BY <1>4, <1>7, <2>2 DEF VerifyClient
  <2> QED  BY <2>1, <2>2
<1>8. CASE CacheSet(c)
  <2>1. caller[c].key # k  BY <1>1, <1>8 DEF CacheSet, Verified
  <2>2. cache'[k] = cache[k]  BY <1>0, <1>8, <2>1 DEF CacheSet
  <2> QED  BY <1>3, <1>8, <2>1, <2>2 DEF CacheSet
<1>9. CASE Respond(c)  BY <1>4, <1>9 DEF Respond
<1> QED  BY <1>5, <1>6, <1>7, <1>8, <1>9 DEF RequireAuth

LEMMA NewKeyFades ==
  ASSUME KeyInv, NEW k \in DOMAIN owner, k \notin live, NEW t \in Tenants, NewKey(t)
  PROVE  k \in DOMAIN owner' /\ k \notin live'
<1>1. k # Len(owner) + 1 /\ k \in DOMAIN owner'  BY NewKeyFacts DEF KeyInv
<1> QED  BY <1>1 DEF NewKey

(* Revocations and rotations are calls without a key, and add new keys     *)
(* only.                                                                   *)
LEMMA RevocationFades ==
  ASSUME KeyInv, NEW k \in Keys, Gone(k), NEW c \in Callers,
         StartRevoke(c) \/ ScanKey(c) \/ DeleteAll(c) \/ RevokeReturns(c) \/ RotateReturns(c)
  PROVE  Gone(k)' /\ \A d \in Callers : ~Serves(d, k)
<1>0. caller \in [Callers -> Calls] /\ caller' \in [Callers -> Calls]
  <2>1. KeyInv'
    BY StartRevokeKeeps, WalkKeeps, RevokeReturnsKeeps, RotateReturnsKeeps
  <2> QED  BY <2>1 DEF KeyInv, CallsInv
<1>1. k \in DOMAIN owner /\ k \notin live /\ cache[k] < now  BY DEF Gone
<1>2. UNCHANGED <<now, cache>>
  BY DEF StartRevoke, ScanKey, DeleteAll, RevokeReturns, RotateReturns
<1>3. k \in DOMAIN owner' /\ k \notin live'
  <2>1. CASE RotateReturns(c)
    <3>1. caller[c].tenant \in Tenants  BY <2>1 DEF RotateReturns, KeyInv, CallsInv, Revoking
    <3> QED  BY <1>1, <2>1, <3>1, NewKeyFades DEF RotateReturns
  <2>2. CASE StartRevoke(c) \/ ScanKey(c) \/ DeleteAll(c) \/ RevokeReturns(c)
    BY <1>1, <2>2 DEF StartRevoke, ScanKey, DeleteAll, RevokeReturns
  <2> QED  BY <2>1, <2>2
<1>4. caller'[c].pc \in {"scan", "register", "idle"} /\ \A d \in Callers \ {c} : caller'[d] = caller[d]
  <2>1. CASE StartRevoke(c)  BY <1>0, <2>1 DEF StartRevoke, Start, Idle
  <2>2. CASE ScanKey(c)  BY <1>0, <2>2 DEF ScanKey, Calls
  <2>3. CASE DeleteAll(c)  BY <1>0, <2>3 DEF DeleteAll, Calls
  <2>4. CASE RevokeReturns(c)  BY <1>0, <2>4 DEF RevokeReturns, Goto, Return, Idle, Calls
  <2>5. CASE RotateReturns(c)  BY <1>0, <2>5 DEF RotateReturns, Return, Idle
  <2> QED  BY <2>1, <2>2, <2>3, <2>4, <2>5
<1> DEFINE r == caller'[c]
<1>5. r \in Calls /\ caller' = [caller EXCEPT ![c] = r]  BY <1>0, <1>4
<1>6. r.pc \notin {"set", "served"}  BY <1>4
<1> HIDE DEF r
<1> QED  BY <1>1, <1>2, <1>3, <1>5, <1>6, FadesWithACall

LEMMA StepFades ==
  ASSUME KeyInv, AccessStep, NEW k \in Keys, Gone(k)
  PROVE  Gone(k)' /\ \A d \in Callers : ~Serves(d, k)
<1>0. /\ k \in DOMAIN owner /\ k \notin live /\ cache[k] < now
      /\ cache \in [Keys -> Nat] /\ now \in Nat /\ cache[k] \in Nat
  BY DEF Gone, KeyInv, KeysInv
<1>1. CASE Tick
  <2>1. cache[k] < now + 1  BY <1>0
  <2> QED  BY <1>0, <1>1, <2>1, FadesWithoutCalls DEF Tick
<1>2. ASSUME NEW ok \in BOOLEAN, Login(ok) \/ Logout(ok)
      PROVE  Gone(k)' /\ \A d \in Callers : ~Serves(d, k)
  BY <1>0, <1>2, FadesWithoutCalls DEF Login, Logout
<1>3. CASE GetSession  BY <1>0, <1>3, FadesWithoutCalls DEF GetSession
<1>4. ASSUME NEW j, NEW ok, AuthKey(j, ok)
      PROVE  Gone(k)' /\ \A d \in Callers : ~Serves(d, k)
  <2>1. cache'[k] = cache[k]
    <3>1. CASE j = k
      <4>1. ~Cached(k)  BY <1>0 DEF Cached
      <4> QED  BY <1>0, <1>4, <3>1, <4>1 DEF AuthKey
    <3>2. CASE j # k  BY <1>0, <1>4, <3>2 DEF AuthKey
    <3> QED  BY <3>1, <3>2
  <2> QED  BY <1>0, <1>4, <2>1, FadesWithoutCalls DEF AuthKey
<1>5. ASSUME NEW t \in Tenants, Registers(t) \/ Revokes(t)
      PROVE  Gone(k)' /\ \A d \in Callers : ~Serves(d, k)
  <2>1. CASE Registers(t)  BY <1>0, <2>1, NewKeyFades, FadesWithoutCalls DEF Registers
  <2>2. CASE Revokes(t)  BY <1>0, <2>2, FadesWithoutCalls DEF Revokes
  <2> QED  BY <1>5, <2>1, <2>2
<1>6. ASSUME NEW c \in Callers, KeyCall(c)
      PROVE  Gone(k)' /\ \A d \in Callers : ~Serves(d, k)
  <2>1. CASE NewClient(c)  BY <1>0, <2>1, NewKeyFades, FadesWithoutCalls DEF NewClient
  <2> QED  BY <1>6, <2>1, RequestFades, RevocationFades DEF KeyCall
<1>7. CASE UNCHANGED accessVars  BY <1>0, <1>7, FadesWithoutCalls DEF accessVars
<1> QED  BY <1>1, <1>2, <1>3, <1>4, <1>5, <1>6, <1>7 DEF AccessStep, KeyNext, LoginNext

(* RequireAuth and its key cache, for any number of callers, keys and      *)
(* tenants and any lifetime of an entry: a revoked key whose entry has run *)
(* out, and which no request has verified before the revocation and not    *)
(* yet stored, is never let through again.                                 *)
THEOREM RevokedKeyFadesAlways == Spec => RevokedKeyFades
<1>1. Init => KeyInv  BY KeysInit DEF Init
<1>2. KeyInv /\ [Next]_vars
        => [\A k \in Keys : Gone(k) => Gone(k)' /\ \A c \in Callers : ~Serves(c, k)]_accessVars
  BY StepIsAccess, StepFades
<1> QED  BY <1>1, <1>2, KeysStep, PTL DEF Spec, RevokedKeyFades
=============================================================================
