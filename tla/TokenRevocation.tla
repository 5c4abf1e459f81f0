---------------------------- MODULE TokenRevocation ---------------------------
(***************************************************************************)
(* Revocation of access tokens by their jti (token-revocation.service.ts): *)
(* a map in the memory of each server process, and an entry in Redis that  *)
(* all processes share.  The HTTP guard and the WebSocket handshake ask    *)
(* both (isRevokedAsync); a message on an open socket asks the map of its  *)
(* own process alone (requireSocketAuth, isRevoked).                       *)
(*                                                                         *)
(* The processes' clocks agree; a token's entries last as long as it does. *)
(***************************************************************************)
CONSTANTS
    Instance,  \* server processes
    Jti,       \* access tokens, by their jti
    Check,     \* slots for isRevokedAsync in flight (bound)
    None,      \* no process, no token
    Faults     \* subset of {"crash", "redis"}: failures that may happen

ASSUME NoneIsNeither == None \notin Instance \cup Jti

VARIABLES
    local,     \* local[i]: the keys of revokedByJti in process i
    answered,  \* answered[i]: the revocations process i has answered since it
               \*   started (not stored: the properties need it)
    storing,   \* the redis.set calls under way: pairs of process and token
    redis,     \* the tokens with an entry auth:revoked:jti:<jti>
    expired,   \* the tokens whose exp has passed
    sockets,   \* sockets[i]: the tokens of the open sockets of process i
    check      \* check[c]: the handshake or the guard in slot c

vars == <<local, answered, storing, redis, expired, sockets, check>>

\* late: the token's entry was in Redis when the check began (not stored).
IdleCheck == [at |-> "idle", instance |-> None, jti |-> None, late |-> FALSE]

Init ==
    /\ local = [i \in Instance |-> {}]
    /\ answered = [i \in Instance |-> {}]
    /\ storing = {}
    /\ redis = {}
    /\ expired = {}
    /\ sockets = [i \in Instance |-> {}]
    /\ check = [c \in Check |-> IdleCheck]

\* Variant: cleanup drops the entries that are still needed.
KeepExpired(i) == local[i] \cap expired

\* cleanup(): the entries that survive it.
Kept(i) == local[i] \ expired

-----------------------------------------------------------------------------
\* POST /auth/logout or print.auth.logout.  The set in Redis is not awaited.
Revoke(i, j) ==
    /\ j \notin expired
    /\ local' = [local EXCEPT ![i] = Kept(i) \cup {j}]
    /\ answered' = [answered EXCEPT ![i] = @ \cup {j}]
    /\ storing' = storing \cup {<<i, j>>}
    /\ UNCHANGED <<redis, expired, sockets, check>>

Store(i, j) ==
    /\ <<i, j>> \in storing
    /\ storing' = storing \ {<<i, j>>}
    /\ redis' = redis \cup ({j} \ expired)
    /\ UNCHANGED <<local, answered, expired, sockets, check>>

\* Redis cannot be reached: set does nothing and nobody waits for it.
StoreLost(i, j) ==
    /\ "redis" \in Faults
    /\ <<i, j>> \in storing
    /\ storing' = storing \ {<<i, j>>}
    /\ UNCHANGED <<local, answered, redis, expired, sockets, check>>

-----------------------------------------------------------------------------
(* isRevokedAsync, of the guard (at "http") or the handshake (at "ws").    *)

\* Variant: the token's jti is left out.
UnnamedCheck(kind, i, j) ==
    [at |-> kind, instance |-> i, jti |-> None, late |-> j \in redis]

PendingCheck(kind, i, j) ==
    [at |-> kind, instance |-> i, jti |-> j, late |-> j \in redis]

\* A revocation that the process knows of needs no look at Redis.
BeginCheck(c, kind, i, j) ==
    /\ check[c].at = "idle"
    /\ local' = [local EXCEPT ![i] = Kept(i)]
    /\ check' = IF j \in local'[i] THEN check
                ELSE [check EXCEPT ![c] = PendingCheck(kind, i, j)]
    /\ UNCHANGED <<answered, storing, redis, expired, sockets>>

\* canActivate of a route that is not public: the bearer token or the cookie
\* must pass verifyAsync, which refuses it once it has expired.
GuardRequest(c, i, j) == j \notin expired /\ BeginCheck(c, "http", i, j)

\* handleConnection: the token of the handshake, likewise.
Handshake(c, i, j) == j \notin expired /\ BeginCheck(c, "ws", i, j)

\* Variant: the answer of Redis is not looked at.
FoundNever(j) == FALSE

FoundInRedis(j) == j \in redis

Refuse(c) ==
    /\ check[c].at # "idle"
    /\ FoundInRedis(check[c].jti)
    /\ local' = [local EXCEPT ![check[c].instance] = @ \cup {check[c].jti}]
    /\ check' = [check EXCEPT ![c] = IdleCheck]
    /\ UNCHANGED <<answered, storing, redis, expired, sockets>>

\* The request passes, or the socket is open and authenticated.
LetIn(c) ==
    LET i == check[c].instance IN
    /\ sockets' = IF check[c].at = "ws"
                  THEN [sockets EXCEPT ![i] = @ \cup {check[c].jti}] ELSE sockets
    /\ check' = [check EXCEPT ![c] = IdleCheck]
    /\ UNCHANGED <<local, answered, storing, redis, expired>>

Admit(c) ==
    /\ check[c].at # "idle"
    /\ ~FoundInRedis(check[c].jti)
    /\ LetIn(c)

\* Redis cannot be reached: get answers null.
AdmitUnasked(c) ==
    /\ "redis" \in Faults
    /\ check[c].at # "idle"
    /\ LetIn(c)

-----------------------------------------------------------------------------
\* The message of a socket is handled when its token is neither expired nor
\* in the map of its process.
Handles(i, j) == j \in sockets[i] /\ j \notin expired /\ j \notin local[i]

\* requireSocketAuth: otherwise the socket is disconnected.  Only a token that
\* has not expired is looked up, and the look-up cleans the map.
Message(i, j) ==
    /\ j \in sockets[i]
    /\ local' = IF j \in expired THEN local ELSE [local EXCEPT ![i] = Kept(i)]
    /\ sockets' = IF Handles(i, j) THEN sockets ELSE [sockets EXCEPT ![i] = @ \ {j}]
    /\ UNCHANGED <<answered, storing, redis, expired, check>>

CloseSocket(i, j) ==
    /\ j \in sockets[i]
    /\ sockets' = [sockets EXCEPT ![i] = @ \ {j}]
    /\ UNCHANGED <<local, answered, storing, redis, expired, check>>

\* exp passes, and with it the time to live of the token's entry.
Expire(j) ==
    /\ j \notin expired
    /\ expired' = expired \cup {j}
    /\ redis' = redis \ {j}
    /\ UNCHANGED <<local, answered, storing, sockets, check>>

\* Process i restarts; Redis stays.
Crash(i) ==
    /\ "crash" \in Faults
    /\ local' = [local EXCEPT ![i] = {}]
    /\ answered' = [answered EXCEPT ![i] = {}]
    /\ sockets' = [sockets EXCEPT ![i] = {}]
    /\ storing' = {p \in storing : p[1] # i}
    /\ check' = [c \in Check |-> IF check[c].instance = i THEN IdleCheck ELSE check[c]]
    /\ UNCHANGED <<redis, expired>>

Next ==
    \/ \E i \in Instance, j \in Jti :
          \/ Revoke(i, j)
          \/ Store(i, j)
          \/ StoreLost(i, j)
          \/ \E c \in Check : GuardRequest(c, i, j) \/ Handshake(c, i, j)
          \/ Message(i, j)
          \/ CloseSocket(i, j)
    \/ \E c \in Check : Refuse(c) \/ Admit(c) \/ AdmitUnasked(c)
    \/ \E j \in Jti : Expire(j)
    \/ \E i \in Instance : Crash(i)

Spec == Init /\ [][Next]_vars

-----------------------------------------------------------------------------
(* Properties.                                                             *)

\* Every variable has its type, and a check in flight knows its token.
TypeOK ==
    /\ local \in [Instance -> SUBSET Jti]
    /\ answered \in [Instance -> SUBSET Jti]
    /\ storing \subseteq Instance \X Jti
    /\ redis \subseteq Jti
    /\ expired \subseteq Jti
    /\ sockets \in [Instance -> SUBSET Jti]
    /\ check \in [Check -> [at : {"idle", "http", "ws"}, instance : Instance \cup {None},
                            jti : Jti \cup {None}, late : BOOLEAN]]
    /\ \A c \in Check : check[c].at # "idle" =>
          check[c].instance \in Instance /\ check[c].jti \in Jti

\* A process that answered a revocation handles no message of that token and
\* lets no new check of it begin, until the token expires or it restarts.
RevokedHere ==
    \A i \in Instance : answered[i] \subseteq local[i] \cup expired

\* A check that begins once Redis has the entry, and that Redis answers, does
\* not admit the token, in any process and whatever restarts
\* (docs/ficha-tecnica/08-pruebas-checklist.md:15).
StoredIsRefused ==
    [][\A c \in Check : Admit(c) => ~check[c].late \/ check[c].jti \in expired]_vars

\* Once Redis has the entry, no process handles the token's messages
\* (docs/ficha-tecnica/08-pruebas-checklist.md:34).
RevokedEverywhere == \A i \in Instance, j \in redis : ~Handles(i, j)
=============================================================================
