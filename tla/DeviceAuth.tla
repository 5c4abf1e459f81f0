------------------------------ MODULE DeviceAuth ------------------------------
(***************************************************************************)
(* Device credentials: activation requests, API keys, sessions with their  *)
(* rotating refresh tokens, and the Redis map from refresh tokens to       *)
(* sessions (auth.service.ts).                                             *)
(*                                                                         *)
(* Several requests run at once; each step runs to the next await and no   *)
(* handler opens a transaction.  A request's arrival and its first read    *)
(* are one step.                                                           *)
(*                                                                         *)
(* One device of one active tenant: no handler touches two devices, and an *)
(* inactive tenant's requests end without a write.  Secrets are model      *)
(* values that are never generated twice, so a hash is its secret and an   *)
(* activation code is its request.  approveDeviceActivation never gives a  *)
(* key an expiry date, so keys do not expire.                              *)
(***************************************************************************)
EXTENDS FiniteSets

CONSTANTS
    Activation,  \* primary keys of device_activation_requests (bound)
    Key,         \* primary keys of device_api_keys (bound)
    Session,     \* primary keys of device_sessions (bound)
    Token,       \* refresh tokens that may ever be generated (bound)
    Task,        \* slots for handlers in flight (bound)
    None,        \* no key, session or token
    Faults       \* subset of {"crash", "db", "redis"}: failures that may happen

ASSUME NoneIsNothing == None \notin Activation \cup Key \cup Session \cup Token

VARIABLES
    activation,  \* activation[a]: the status column, or "absent"
    overdue,     \* activations whose expiresAt has passed
    key,         \* key[k]: the status column, or "absent"
    superseded,  \* keys whose revokedReason is the one that an approval writes
    approvedFor, \* approvedFor[k]: the activation whose approval made key k
                 \*   (not stored: the properties need it)
    session,     \* session[n]: "absent", "live" or "revoked" (revokedAt is set)
    lapsed,      \* sessions whose expiresAt has passed
    keyOf,       \* keyOf[n]: the apiKeyId column
    tokenOf,     \* tokenOf[n]: the refreshTokenHash column
    issued,      \* tokens generated so far
    cached,      \* cached[x]: auth:device:refresh:<x>, or None
    task,        \* task[t]: the handler in slot t and where it waits
    crossed,     \* two approvals were at work at once, and none has superseded the
                 \*   keys alone since
    missed       \* sessions made after their key stopped being active, or left
                 \*   behind by a revocation that broke off
                 \* (crossed and missed are kept for the properties alone)

keys == <<activation, overdue, key, superseded, approvedFor>>
sessions == <<session, lapsed, keyOf, tokenOf, issued>>
vars == <<activation, overdue, key, superseded, approvedFor, session, lapsed, keyOf,
          tokenOf, issued, cached, task, crossed, missed>>
noted == <<crossed, missed>>

-----------------------------------------------------------------------------
Op == {"none", "request", "approve", "exchange", "refresh", "logout", "revoke"}

Stage == {"idle", "create", "supersede", "insert", "mark", "cache", "find",
          "rotate", "expire", "uncache", "list", "end"}

Idle == [op |-> "none", at |-> "idle", activation |-> None, key |-> None,
         session |-> None, token |-> None, fresh |-> None, listed |-> {}]

TaskState == [op : Op, at : Stage, activation : Activation \cup {None},
              key : Key \cup {None}, session : Session \cup {None},
              token : Token \cup {None}, fresh : Token \cup {None},
              listed : SUBSET Token]

Waiting(t, op, at) == task[t].op = op /\ task[t].at = at
Become(t, s) == task' = [task EXCEPT ![t] = s]
Goto(t, at) == Become(t, [task[t] EXCEPT !.at = at])
Done(t) == Become(t, Idle)

\* Another handler of this operation is at work.
Beside(t, op) == \E u \in Task \ {t} : task[u].op = op

\* A Redis write takes effect, unless Redis cannot be reached.
Redis(effect) == effect \/ ("redis" \in Faults /\ UNCHANGED cached)

Init ==
    /\ activation = [a \in Activation |-> "absent"]
    /\ overdue = {}
    /\ key = [k \in Key |-> "absent"]
    /\ superseded = {}
    /\ approvedFor = [k \in Key |-> None]
    /\ session = [n \in Session |-> "absent"]
    /\ lapsed = {}
    /\ keyOf = [n \in Session |-> None]
    /\ tokenOf = [n \in Session |-> None]
    /\ issued = {}
    /\ cached = [x \in Token |-> None]
    /\ task = [t \in Task |-> Idle]
    /\ crossed = FALSE
    /\ missed = {}

-----------------------------------------------------------------------------
(* requestDeviceActivation: pending requests expire, then a new one.       *)

\* The status an activation has after updateMany pending -> expired.
Expired(a) == IF activation[a] = "pending" THEN "expired" ELSE activation[a]

RequestActivation(t) ==
    /\ task[t].at = "idle"
    /\ activation' = [a \in Activation |-> Expired(a)]
    /\ Become(t, [Idle EXCEPT !.op = "request", !.at = "create"])
    /\ UNCHANGED <<overdue, key, superseded, approvedFor, sessions, cached, noted>>

CreateActivation(t, a) ==
    /\ Waiting(t, "request", "create")
    /\ activation[a] = "absent"
    /\ activation' = [activation EXCEPT ![a] = "pending"]
    /\ Done(t)
    /\ UNCHANGED <<overdue, key, superseded, approvedFor, sessions, cached, noted>>

-----------------------------------------------------------------------------
(* approveDeviceActivation.                                                *)

Approve(t, a) ==
    /\ task[t].at = "idle"
    /\ activation[a] = "pending"
    /\ a \notin overdue
    /\ Become(t, [Idle EXCEPT !.op = "approve", !.at = "supersede", !.activation = a])
    /\ crossed' = (crossed \/ Beside(t, "approve"))
    /\ UNCHANGED <<keys, sessions, cached, missed>>

\* Variant: an earlier key stays active.
KeepKey(k) == key[k]

\* The status of key k after updateMany active -> revoked.
Superseded(k) == IF key[k] = "active" THEN "revoked" ELSE key[k]

\* The same status as revokeDeviceApiKey writes, with another reason.  The
\* sessions of the keys are left alone.
SupersedeKeys(t) ==
    /\ Waiting(t, "approve", "supersede")
    /\ key' = [k \in Key |-> Superseded(k)]
    /\ superseded' = superseded \cup {k \in Key : key[k] = "active"}
    /\ Goto(t, "insert")
    /\ crossed' = (crossed /\ Beside(t, "approve"))
    /\ UNCHANGED <<activation, overdue, approvedFor, sessions, cached, missed>>

InsertKey(t, k) ==
    /\ Waiting(t, "approve", "insert")
    /\ key[k] = "absent"
    /\ key' = [key EXCEPT ![k] = "active"]
    /\ approvedFor' = [approvedFor EXCEPT ![k] = task[t].activation]
    /\ Goto(t, "mark")
    /\ UNCHANGED <<activation, overdue, superseded, sessions, cached, noted>>

MarkApproved(t) ==
    /\ Waiting(t, "approve", "mark")
    /\ activation' = [activation EXCEPT ![task[t].activation] = "approved"]
    /\ Done(t)
    /\ UNCHANGED <<overdue, key, superseded, approvedFor, sessions, cached, noted>>

-----------------------------------------------------------------------------
(* exchangeDeviceToken and issueDeviceSession.                             *)

Exchange(t, k) ==
    /\ task[t].at = "idle"
    /\ key[k] = "active"
    /\ Become(t, [Idle EXCEPT !.op = "exchange", !.at = "insert", !.key = k])
    /\ UNCHANGED <<keys, sessions, cached, noted>>

\* The key is not looked at again.
InsertSession(t, n, x) ==
    /\ Waiting(t, "exchange", "insert")
    /\ session[n] = "absent"
    /\ x \notin issued
    /\ session' = [session EXCEPT ![n] = "live"]
    /\ keyOf' = [keyOf EXCEPT ![n] = task[t].key]
    /\ tokenOf' = [tokenOf EXCEPT ![n] = x]
    /\ issued' = issued \cup {x}
    /\ Become(t, [task[t] EXCEPT !.at = "cache", !.session = n, !.fresh = x])
    /\ missed' = IF key[task[t].key] = "active" THEN missed ELSE missed \cup {n}
    /\ UNCHANGED <<keys, lapsed, cached, crossed>>

\* setRefreshSession, the last write of exchange and refresh that matters.
CacheToken(t) ==
    /\ task[t].at = "cache"
    /\ Redis(cached' = [cached EXCEPT ![task[t].fresh] = task[t].session])
    /\ Done(t)
    /\ UNCHANGED <<keys, sessions, noted>>

-----------------------------------------------------------------------------
(* refreshDeviceToken.                                                     *)

\* The cached session id of the token, if any.
Refresh(t, x) ==
    /\ task[t].at = "idle"
    /\ x \in issued
    /\ \E n \in {cached[x]} \cup (IF "redis" \in Faults THEN {None} ELSE {}) :
          Become(t, [Idle EXCEPT !.op = "refresh", !.at = "find", !.token = x,
                         !.session = n])
    /\ UNCHANGED <<keys, sessions, cached, noted>>

\* The session that is looked up: by the cached id, else by the token.
Candidates(t) ==
    IF task[t].session # None THEN {task[t].session}
    ELSE {n \in Session : tokenOf[n] = task[t].token}

\* Variant: the update goes to the cached id, found or not.
CachedId(t, n) == task[t].session

\* The id that the handler goes on with once it found session n.
FoundId(t, n) == n

\* Variant: a session found through the cache is not compared with the token.
AcceptsLive(n, x) == session[n] = "live"

Accepts(n, x) == session[n] = "live" /\ tokenOf[n] = x

FindSession(t) ==
    /\ Waiting(t, "refresh", "find")
    /\ \/ \E n \in Candidates(t) :
             /\ Accepts(n, task[t].token)
             /\ Become(t, [task[t] EXCEPT !.session = FoundId(t, n),
                              !.at = IF n \in lapsed THEN "expire" ELSE "rotate"])
       \/ /\ \A n \in Candidates(t) : ~Accepts(n, task[t].token)
          /\ Done(t)
    /\ UNCHANGED <<keys, sessions, cached, noted>>

ExpireSession(t) ==
    /\ Waiting(t, "refresh", "expire")
    /\ session' = [session EXCEPT ![task[t].session] = "revoked"]
    /\ Done(t)
    /\ UNCHANGED <<keys, lapsed, keyOf, tokenOf, issued, cached, noted>>

\* Variant: the refresh renews the session.
Renewed(n) == [session EXCEPT ![n] = "live"]

\* The update does not touch revokedAt.
AfterRotation(n) == session

\* The update does not repeat the check made on the session that was read.
RotateToken(t, x) ==
    LET n == task[t].session IN
    /\ Waiting(t, "refresh", "rotate")
    /\ x \notin issued
    /\ tokenOf' = [tokenOf EXCEPT ![n] = x]
    /\ session' = AfterRotation(n)
    /\ lapsed' = lapsed \ {n}
    /\ issued' = issued \cup {x}
    /\ Become(t, [task[t] EXCEPT !.at = "uncache", !.fresh = x])
    /\ UNCHANGED <<keys, keyOf, cached, noted>>

\* deleteRefreshSession of the token that was presented.
UncacheToken(t) ==
    /\ task[t].op \in {"refresh", "logout"}
    /\ task[t].at = "uncache"
    /\ Redis(cached' = [cached EXCEPT ![task[t].token] = None])
    /\ IF task[t].op = "refresh" THEN Goto(t, "cache") ELSE Done(t)
    /\ UNCHANGED <<keys, sessions, noted>>

-----------------------------------------------------------------------------
(* logoutDevice and revokeDeviceApiKey.                                    *)

Logout(t, x) ==
    /\ task[t].at = "idle"
    /\ \E n \in Session :
          /\ tokenOf[n] = x
          /\ session[n] = "live"
          /\ Become(t, [Idle EXCEPT !.op = "logout", !.at = "expire", !.token = x,
                           !.session = n])
    /\ UNCHANGED <<keys, sessions, cached, noted>>

LogoutSession(t) ==
    /\ Waiting(t, "logout", "expire")
    /\ session' = [session EXCEPT ![task[t].session] = "revoked"]
    /\ Goto(t, "uncache")
    /\ UNCHANGED <<keys, lapsed, keyOf, tokenOf, issued, cached, noted>>

\* A key that is already revoked is answered without another look at its
\* sessions.
Revoke(t, k) ==
    /\ task[t].at = "idle"
    /\ key[k] = "active"
    /\ Become(t, [Idle EXCEPT !.op = "revoke", !.at = "mark", !.key = k])
    /\ UNCHANGED <<keys, sessions, cached, noted>>

RevokeKey(t) ==
    /\ Waiting(t, "revoke", "mark")
    /\ key' = [key EXCEPT ![task[t].key] = "revoked"]
    /\ superseded' = superseded \ {task[t].key}
    /\ Goto(t, "list")
    /\ UNCHANGED <<activation, overdue, approvedFor, sessions, cached, noted>>

LiveSessions(k) == {n \in Session : session[n] = "live" /\ keyOf[n] = k}

ListSessions(t) ==
    /\ Waiting(t, "revoke", "list")
    /\ Become(t, [task[t] EXCEPT !.at = "expire",
                     !.listed = {tokenOf[n] : n \in LiveSessions(task[t].key)}])
    /\ UNCHANGED <<keys, sessions, cached, noted>>

\* Variant: only sessions that have not lapsed are revoked.
RevokedCurrent(k) == LiveSessions(k) \ lapsed

\* The sessions that updateMany sets revokedAt of.
RevokedWith(k) == LiveSessions(k)

RevokeSessions(t) ==
    /\ Waiting(t, "revoke", "expire")
    /\ session' = [n \in Session |-> IF n \in RevokedWith(task[t].key)
                                     THEN "revoked" ELSE session[n]]
    /\ Goto(t, "uncache")
    /\ UNCHANGED <<keys, lapsed, keyOf, tokenOf, issued, cached, noted>>

UncacheListed(t) ==
    /\ Waiting(t, "revoke", "uncache")
    /\ Redis(cached' = [x \in Token |-> IF x \in task[t].listed THEN None ELSE cached[x]])
    /\ Done(t)
    /\ UNCHANGED <<keys, sessions, noted>>

-----------------------------------------------------------------------------
(* Time and failures.                                                      *)

ActivationOverdue(a) ==
    /\ activation[a] = "pending"
    /\ a \notin overdue
    /\ overdue' = overdue \cup {a}
    /\ UNCHANGED <<activation, key, superseded, approvedFor, sessions, cached, task, noted>>

SessionLapses(n) ==
    /\ session[n] = "live"
    /\ n \notin lapsed
    /\ lapsed' = lapsed \cup {n}
    /\ UNCHANGED <<keys, session, keyOf, tokenOf, issued, cached, task, noted>>

\* The refresh token's entry has the time to live of the session.
EntryExpires(x) ==
    /\ cached[x] # None
    /\ cached[x] \in lapsed \/ tokenOf[cached[x]] # x
    /\ cached' = [cached EXCEPT ![x] = None]
    /\ UNCHANGED <<keys, sessions, task, noted>>

\* The handlers that revoke the sessions of k.
Revoking(k) == {t \in Task : /\ task[t].op = "revoke"
                             /\ task[t].key = k
                             /\ task[t].at \in {"list", "expire"}}

\* The live sessions of a key whose revocation the given handlers give up.
LeftBy(tasks) == UNION {LiveSessions(k) : k \in {j \in Key : Revoking(j) \cap tasks # {}}}

\* A database call rejects and the handler ends where it is.
DbError(t) ==
    /\ "db" \in Faults
    /\ task[t].at # "idle"
    /\ Done(t)
    /\ missed' = missed \cup LeftBy({t})
    /\ UNCHANGED <<keys, sessions, cached, crossed>>

\* The process stops; PostgreSQL and Redis stay.
Crash ==
    /\ "crash" \in Faults
    /\ task' = [t \in Task |-> Idle]
    /\ missed' = missed \cup LeftBy(Task)
    /\ UNCHANGED <<keys, sessions, cached, crossed>>

-----------------------------------------------------------------------------
Credentials(t) ==
    \/ RequestActivation(t)
    \/ \E a \in Activation : CreateActivation(t, a) \/ Approve(t, a)
    \/ SupersedeKeys(t)
    \/ \E k \in Key : InsertKey(t, k) \/ Revoke(t, k)
    \/ MarkApproved(t)
    \/ RevokeKey(t)
    \/ ListSessions(t)
    \/ RevokeSessions(t)
    \/ UncacheListed(t)

Sessions(t) ==
    \/ \E k \in Key : Exchange(t, k)
    \/ \E n \in Session, x \in Token : InsertSession(t, n, x)
    \/ CacheToken(t)
    \/ \E x \in Token : Refresh(t, x) \/ RotateToken(t, x) \/ Logout(t, x)
    \/ FindSession(t)
    \/ ExpireSession(t)
    \/ UncacheToken(t)
    \/ LogoutSession(t)

Environment ==
    \/ \E a \in Activation : ActivationOverdue(a)
    \/ \E n \in Session : SessionLapses(n)
    \/ \E x \in Token : EntryExpires(x)
    \/ \E t \in Task : DbError(t)
    \/ Crash

Next ==
    \/ \E t \in Task : Credentials(t) \/ Sessions(t)
    \/ Environment

Spec == Init /\ [][Next]_vars

-----------------------------------------------------------------------------
(* Properties.                                                             *)

\* Every variable has its type, and a handler past a read has what it read.
TypeOK ==
    /\ activation \in [Activation -> {"absent", "pending", "expired", "approved"}]
    /\ overdue \subseteq Activation
    /\ key \in [Key -> {"absent", "active", "revoked"}]
    /\ superseded \subseteq Key
    /\ approvedFor \in [Key -> Activation \cup {None}]
    /\ session \in [Session -> {"absent", "live", "revoked"}]
    /\ lapsed \subseteq Session
    /\ keyOf \in [Session -> Key \cup {None}]
    /\ tokenOf \in [Session -> Token \cup {None}]
    /\ issued \subseteq Token
    /\ cached \in [Token -> Session \cup {None}]
    /\ crossed \in BOOLEAN
    /\ missed \subseteq Session
    /\ task \in [Task -> TaskState]
    /\ \A t \in Task : /\ task[t].op = "approve" => task[t].activation \in Activation
                       /\ task[t].op \in {"exchange", "revoke"} => task[t].key \in Key
                       /\ task[t].at = "rotate" => task[t].session \in Session
                       /\ task[t].at = "cache" => /\ task[t].session \in Session
                                                 /\ task[t].fresh \in Token

\* However handlers interleave and whatever fails, the credentials keep their
\* contract: nothing that was revoked comes back, a refresh that read the session
\* before it was revoked included, and a token buys the next one only if it was
\* the token of a live session when it was presented.
Contract == INSTANCE CredentialContract WITH
    phase <- key,
    accepted <- {<<task[t].session, task[t].token>> :
                    t \in {u \in Task : task[u].at = "rotate"}}

ContractSpec == Contract!Spec

\* A token that no session holds and that no refresh has had accepted.
Rotated(x) ==
    /\ x \in issued
    /\ \A n \in Session : tokenOf[n] # x
    /\ \A t \in Task : ~(task[t].at \in {"rotate", "expire"} /\ task[t].token = x)

\* A refresh token that has been rotated out buys nothing any more, although
\* Redis may still map it to its session (docs/ficha-tecnica/08-pruebas-checklist.md:10).
RotatedIsDead == [][\A x \in Token : Rotated(x) => Rotated(x)']_vars

\* An approved request has its key, wherever the approval was interrupted.
ApprovedHasKey ==
    \A a \in Activation : activation[a] = "approved" =>
        \E k \in Key : approvedFor[k] = a /\ key[k] # "absent"

\* The device has at most one active key (docs/database/prisma-reference.md:15),
\* wherever an approval is interrupted; two approvals at once may leave two, and
\* the next approval puts that right.
OneActiveKey ==
    crossed \/ \A j, k \in Key : key[j] = "active" /\ key[k] = "active" => j = k

\* revokeDeviceApiKey ends the sessions of its key, lapsed ones too, except the
\* sessions of exchanges that overlap the revocation and those that a failed
\* revocation did not reach.  docs/database/prisma-reference.md:25 asks it of
\* every revoked key ("Revocar sesiones al revocar API key"); the code does not
\* do it for the keys that an approval revokes, whose sessions stay live and go
\* on refreshing: they are the third exception.
RevokedKeyHasNoSession ==
    \A n \in Session : session[n] = "live" /\ key[keyOf[n]] = "revoked" =>
        \/ n \in missed
        \/ Revoking(keyOf[n]) # {}
        \/ keyOf[n] \in superseded
=============================================================================
