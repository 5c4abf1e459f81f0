------------------------- MODULE TokenRevocationProofs -------------------------
(***************************************************************************)
(* Theorems about TokenRevocation, for every set of processes, tokens,     *)
(* checks in flight and faults.                                            *)
(***************************************************************************)
EXTENDS TokenRevocation, TLAPS

CheckState == [at : {"idle", "http", "ws"}, instance : Instance \cup {None},
               jti : Jti \cup {None}, late : BOOLEAN]

-----------------------------------------------------------------------------
(* Types.                                                                  *)

\* A check that has just begun knows its process and its token.
LEMMA PendingType ==
    ASSUME NEW kind \in {"http", "ws"}, NEW i \in Instance, NEW j \in Jti
    PROVE  /\ PendingCheck(kind, i, j) \in CheckState
           /\ PendingCheck(kind, i, j).at = kind
           /\ PendingCheck(kind, i, j).instance = i
           /\ PendingCheck(kind, i, j).jti = j
           /\ (PendingCheck(kind, i, j).late => j \in redis)
<1> DEFINE p == PendingCheck(kind, i, j)
<1>1. p \in CheckState /\ p.at = kind /\ p.instance = i /\ p.jti = j
  BY DEF PendingCheck, CheckState
<1>2. p.late <=> j \in redis
  BY Zenon DEF PendingCheck
<1> QED
  BY <1>1, <1>2

LEMMA IdleCheckType == IdleCheck \in CheckState /\ IdleCheck.at = "idle" /\ ~IdleCheck.late
BY DEF IdleCheck, CheckState

\* The part of TypeOK about the checks in flight.
ChecksOK ==
    /\ check \in [Check -> CheckState]
    /\ \A c \in Check : check[c].at # "idle" =>
          check[c].instance \in Instance /\ check[c].jti \in Jti

LEMMA IdleChecksOK ==
    ASSUME ChecksOK, NEW c \in Check, check' = [check EXCEPT ![c] = IdleCheck]
    PROVE  ChecksOK'
BY IdleCheckType DEF ChecksOK

\* The parts of TypeOK about the rest.
MapsOK ==
    /\ local \in [Instance -> SUBSET Jti]
    /\ answered \in [Instance -> SUBSET Jti]
    /\ sockets \in [Instance -> SUBSET Jti]

SharedOK ==
    /\ storing \subseteq Instance \X Jti
    /\ redis \subseteq Jti
    /\ expired \subseteq Jti

LEMMA TypeParts == TypeOK <=> ChecksOK /\ MapsOK /\ SharedOK
BY DEF TypeOK, ChecksOK, MapsOK, SharedOK, CheckState

LEMMA TypeInit == Init => TypeOK
<1> SUFFICES ASSUME Init PROVE TypeOK
  OBVIOUS
<1>1. ChecksOK
  BY IdleCheckType DEF Init, ChecksOK
<1>2. MapsOK /\ SharedOK
  BY DEF Init, MapsOK, SharedOK
<1> QED
  BY <1>1, <1>2, TypeParts

LEMMA TypeStep == TypeOK /\ [Next]_vars => TypeOK'
<1> SUFFICES ASSUME TypeOK, [Next]_vars PROVE ChecksOK' /\ MapsOK' /\ SharedOK'
  BY TypeParts DEF TypeOK, ChecksOK, MapsOK, SharedOK, CheckState
<1>0. ChecksOK /\ MapsOK /\ SharedOK
  BY TypeParts
<1>1. ASSUME NEW i \in Instance, NEW j \in Jti, Revoke(i, j)
      PROVE  ChecksOK' /\ MapsOK' /\ SharedOK'
  <2>1. ChecksOK'
    BY <1>0, <1>1 DEF Revoke, ChecksOK
  <2>2. MapsOK'
    BY <1>0, <1>1 DEF Revoke, MapsOK, Kept
  <2>3. SharedOK'
    BY <1>0, <1>1 DEF Revoke, SharedOK
  <2> QED
    BY <2>1, <2>2, <2>3
<1>2. ASSUME NEW i \in Instance, NEW j \in Jti, Store(i, j) \/ StoreLost(i, j)
      PROVE  ChecksOK' /\ MapsOK' /\ SharedOK'
  BY <1>0, <1>2 DEF Store, StoreLost, ChecksOK, MapsOK, SharedOK
<1>3. ASSUME NEW c \in Check, NEW kind \in {"http", "ws"}, NEW i \in Instance,
             NEW j \in Jti, BeginCheck(c, kind, i, j)
      PROVE  ChecksOK' /\ MapsOK' /\ SharedOK'
  <2>1. ChecksOK'
    BY <1>0, <1>3, PendingType DEF BeginCheck, ChecksOK
  <2>2. MapsOK' /\ SharedOK'
    BY <1>0, <1>3 DEF BeginCheck, MapsOK, SharedOK, Kept
  <2> QED
    BY <2>1, <2>2
<1>4. ASSUME NEW i \in Instance, NEW j \in Jti, Message(i, j) \/ CloseSocket(i, j)
      PROVE  ChecksOK' /\ MapsOK' /\ SharedOK'
  <2>1. ChecksOK' /\ SharedOK'
    BY <1>0, <1>4 DEF Message, CloseSocket, ChecksOK, SharedOK
  <2>2. MapsOK'
    BY <1>0, <1>4 DEF Message, CloseSocket, MapsOK, Kept
  <2> QED
    BY <2>1, <2>2
<1>5. ASSUME NEW c \in Check, Refuse(c) \/ Admit(c) \/ AdmitUnasked(c)
      PROVE  ChecksOK' /\ MapsOK' /\ SharedOK'
  <2>1. ChecksOK'
    BY <1>0, <1>5, IdleChecksOK DEF Refuse, Admit, AdmitUnasked, LetIn
  <2>2. check[c].instance \in Instance /\ check[c].jti \in Jti
    BY <1>0, <1>5 DEF Refuse, Admit, AdmitUnasked, ChecksOK
  <2>3. MapsOK'
    BY <1>0, <1>5, <2>2 DEF Refuse, Admit, AdmitUnasked, LetIn, MapsOK
  <2>4. SharedOK'
    BY <1>0, <1>5 DEF Refuse, Admit, AdmitUnasked, LetIn, SharedOK
  <2> QED
    BY <2>1, <2>3, <2>4
<1>6. ASSUME NEW j \in Jti, Expire(j)
      PROVE  ChecksOK' /\ MapsOK' /\ SharedOK'
  BY <1>0, <1>6 DEF Expire, ChecksOK, MapsOK, SharedOK
<1>7. ASSUME NEW i \in Instance, Crash(i)
      PROVE  ChecksOK' /\ MapsOK' /\ SharedOK'
  <2>1. ChecksOK'
    BY <1>0, <1>7, IdleCheckType DEF Crash, ChecksOK
  <2>2. MapsOK' /\ SharedOK'
    BY <1>0, <1>7 DEF Crash, MapsOK, SharedOK
  <2> QED
    BY <2>1, <2>2
<1>8. CASE UNCHANGED vars
  BY <1>0, <1>8 DEF vars, ChecksOK, MapsOK, SharedOK
<1> QED
  BY <1>1, <1>2, <1>3, <1>4, <1>5, <1>6, <1>7, <1>8 DEF Next, GuardRequest, Handshake

\* Every reachable state is well typed, under every set of faults: a check in
\* flight knows its process and its token (token-revocation.service.ts).
THEOREM TypeCorrect == Spec => []TypeOK
BY TypeInit, TypeStep, PTL DEF Spec

-----------------------------------------------------------------------------
(* A process knows what it has answered.                                   *)

LEMMA RevokedHereStep == TypeOK /\ RevokedHere /\ [Next]_vars => RevokedHere'
<1> SUFFICES ASSUME TypeOK, RevokedHere, [Next]_vars, NEW p \in Instance
             PROVE  (answered[p] \subseteq local[p] \cup expired)'
  BY DEF RevokedHere
<1>0. answered[p] \subseteq local[p] \cup expired
  BY DEF RevokedHere
<1>1. ASSUME NEW i \in Instance, NEW j \in Jti, Revoke(i, j)
      PROVE  (answered[p] \subseteq local[p] \cup expired)'
  BY <1>0, <1>1 DEF Revoke, Kept, TypeOK
<1>2. ASSUME NEW i \in Instance, NEW j \in Jti, Store(i, j) \/ StoreLost(i, j)
      PROVE  (answered[p] \subseteq local[p] \cup expired)'
  BY <1>0, <1>2 DEF Store, StoreLost
<1>3. ASSUME NEW c \in Check, NEW kind \in {"http", "ws"}, NEW i \in Instance,
             NEW j \in Jti, BeginCheck(c, kind, i, j)
      PROVE  (answered[p] \subseteq local[p] \cup expired)'
  BY <1>0, <1>3 DEF BeginCheck, Kept, TypeOK
<1>4. ASSUME NEW i \in Instance, NEW j \in Jti, Message(i, j) \/ CloseSocket(i, j)
      PROVE  (answered[p] \subseteq local[p] \cup expired)'
  BY <1>0, <1>4 DEF Message, CloseSocket, Kept, TypeOK
<1>5. ASSUME NEW c \in Check, Refuse(c) \/ Admit(c) \/ AdmitUnasked(c)
      PROVE  (answered[p] \subseteq local[p] \cup expired)'
  BY <1>0, <1>5 DEF Refuse, Admit, AdmitUnasked, LetIn, TypeOK
<1>6. ASSUME NEW j \in Jti, Expire(j)
      PROVE  (answered[p] \subseteq local[p] \cup expired)'
  BY <1>0, <1>6 DEF Expire
<1>7. ASSUME NEW i \in Instance, Crash(i)
      PROVE  (answered[p] \subseteq local[p] \cup expired)'
  BY <1>0, <1>7 DEF Crash, TypeOK
<1>8. CASE UNCHANGED vars
  BY <1>0, <1>8 DEF vars
<1> QED
  BY <1>1, <1>2, <1>3, <1>4, <1>5, <1>6, <1>7, <1>8 DEF Next, GuardRequest, Handshake

\* A process that answered a revocation knows of it until the token expires or
\* the process restarts, whatever Redis and the other processes do
\* (TokenRevocationService.revoke, cleanup).
THEOREM RevokedHereHolds == Spec => []RevokedHere
<1>1. Init => RevokedHere
  BY DEF Init, RevokedHere
<1> QED
  BY <1>1, RevokedHereStep, TypeCorrect, PTL DEF Spec

-----------------------------------------------------------------------------
(* What Redis has is refused.                                              *)

\* A check that began with the token's entry in Redis still finds it there,
\* unless the token has expired: no step but its expiry deletes an entry.
LateIsStored ==
    \A c \in Check : check[c].late => check[c].jti \in redis \cup expired

LEMMA LateStep == TypeOK /\ LateIsStored /\ [Next]_vars => LateIsStored'
<1> SUFFICES ASSUME TypeOK, LateIsStored, [Next]_vars, NEW d \in Check, check'[d].late
             PROVE  check'[d].jti \in redis' \cup expired'
  BY DEF LateIsStored
<1>0. check \in [Check -> CheckState] /\ (check[d].late => check[d].jti \in redis \cup expired)
  BY DEF LateIsStored, TypeOK, CheckState
<1>1. CASE UNCHANGED check /\ redis \cup expired \subseteq redis' \cup expired'
  BY <1>0, <1>1
<1>2. ASSUME NEW i \in Instance, NEW j \in Jti, Revoke(i, j) \/ Store(i, j) \/ StoreLost(i, j)
                                                  \/ Message(i, j) \/ CloseSocket(i, j)
      PROVE  check'[d].jti \in redis' \cup expired'
  BY <1>1, <1>2 DEF Revoke, Store, StoreLost, Message, CloseSocket
<1>3. ASSUME NEW c \in Check, NEW kind \in {"http", "ws"}, NEW i \in Instance,
             NEW j \in Jti, BeginCheck(c, kind, i, j)
      PROVE  check'[d].jti \in redis' \cup expired'
  <2> DEFINE p == PendingCheck(kind, i, j)
  <2>1. UNCHANGED <<redis, expired>>
    BY <1>3 DEF BeginCheck
  <2>2. CASE check'[d] = check[d]
    BY <1>0, <2>1, <2>2
  <2>3. CASE check'[d] = p
    BY <2>1, <2>3, PendingType
  <2>4. check' = check \/ check' = [check EXCEPT ![c] = p]
    BY <1>3 DEF BeginCheck
  <2>5. check'[d] = check[d] \/ check'[d] = p
    <3> HIDE DEF p
    <3> QED
      BY <1>0, <2>4
  <2> QED
    BY <2>2, <2>3, <2>5
<1>4. ASSUME NEW c \in Check, Refuse(c) \/ Admit(c) \/ AdmitUnasked(c)
      PROVE  check'[d].jti \in redis' \cup expired'
  BY <1>0, <1>4, IdleCheckType DEF Refuse, Admit, AdmitUnasked, LetIn
<1>5. ASSUME NEW j \in Jti, Expire(j)
      PROVE  check'[d].jti \in redis' \cup expired'
  BY <1>1, <1>5 DEF Expire
<1>6. ASSUME NEW i \in Instance, Crash(i)
      PROVE  check'[d].jti \in redis' \cup expired'
  BY <1>0, <1>6, IdleCheckType DEF Crash
<1>7. CASE UNCHANGED vars
  BY <1>1, <1>7 DEF vars
<1> QED
  BY <1>2, <1>3, <1>4, <1>5, <1>6, <1>7 DEF Next, GuardRequest, Handshake

\* A check that begins once Redis has the revocation, and that Redis answers,
\* does not admit the token, in any process and whatever restarts
\* (TokenRevocationService.isRevokedAsync).
THEOREM StoredIsRefusedHolds == Spec => StoredIsRefused
<1>1. Init => LateIsStored
  BY IdleCheckType DEF Init, LateIsStored
<1>2. Spec => []LateIsStored
  BY <1>1, LateStep, TypeCorrect, PTL DEF Spec
<1>3. LateIsStored /\ [Next]_vars =>
        [\A c \in Check : Admit(c) => ~check[c].late \/ check[c].jti \in expired]_vars
  BY DEF LateIsStored, Admit, FoundInRedis
<1> QED
  BY <1>2, <1>3, PTL DEF Spec, StoredIsRefused
=============================================================================
