--------------------------- MODULE DeviceAuthProofs ---------------------------
(***************************************************************************)
(* Proofs about DeviceAuth, for any number of requests, keys, sessions,    *)
(* tokens and handlers, and any failures.                                  *)
(*                                                                         *)
(* TInv, the types and what each handler carries, is inductive by itself.  *)
(* The safety properties are each proved on top of it, with what they need *)
(* of their own: an approval at its last write has inserted its key        *)
(* (KeyMade), and approvals that do not overlap leave no active key        *)
(* between their first two writes (OneByOne).                              *)
(***************************************************************************)
EXTENDS DeviceAuth, TLAPS

\* The types, and a live session is complete.
Typed ==
    /\ activation \in [Activation -> {"absent", "pending", "expired", "approved"}]
    /\ overdue \subseteq Activation
    /\ key \in [Key -> {"absent", "active", "revoked"}]
    /\ superseded \subseteq Key
    /\ approvedFor \in [Key -> Activation \cup {None}]
    /\ session \in [Session -> {"absent", "live", "revoked"}]
    /\ lapsed \subseteq Session
    /\ keyOf \in [Session -> Key \cup {None}]
    /\ tokenOf \in [Session -> Token \cup {None}]
    /\ issued \subseteq Token
    /\ cached \in [Token -> Session \cup {None}]
    /\ crossed \in BOOLEAN
    /\ missed \subseteq Session
    /\ \A n \in Session : session[n] = "live" => keyOf[n] \in Key /\ tokenOf[n] \in Token

\* What a handler carries.
CarriesOK(s) ==
    /\ s.op = "approve" => s.activation \in Activation
    /\ s.op \in {"exchange", "revoke"} => s.key \in Key
    /\ s.op = "revoke" => s.token = None
    /\ s.op = "logout" => s.token \in Token
    /\ s.op = "refresh" => s.token \in Token
    /\ s.at = "rotate" => s.session \in Session
    /\ s.op = "refresh" /\ s.at = "uncache" => s.session \in Session /\ s.fresh \in Token
    /\ s.at = "cache" => s.session \in Session /\ s.fresh \in Token

TInv ==
    /\ Typed
    /\ task \in [Task -> TaskState]
    /\ \A t \in Task : CarriesOK(task[t])

-----------------------------------------------------------------------------
(* What a step does to the handlers.                                       *)

\* Handler t goes on as s and the others are where they were.
Becomes(t, s) ==
    /\ task' \in [Task -> TaskState]
    /\ \A u \in Task : CarriesOK(task'[u])
    /\ task'[t] = s
    /\ \A u \in Task \ {t} : task'[u] = task[u]

LEMMA BecomeBecomes ==
    ASSUME TInv, NEW t \in Task, NEW s \in TaskState, CarriesOK(s), Become(t, s)
    PROVE  Becomes(t, s)
BY DEF TInv, Become, Becomes

LEMMA IdleFacts ==
    /\ Idle \in TaskState /\ CarriesOK(Idle)
    /\ Idle.op = "none" /\ Idle.at = "idle" /\ Idle.token = None
BY DEF Idle, TaskState, CarriesOK, Op, Stage

LEMMA DoneBecomes ==
    ASSUME TInv, NEW t \in Task, Done(t)
    PROVE  Becomes(t, Idle)
BY BecomeBecomes, IdleFacts DEF Done

\* A handler that moves on to at and may be there with what it carries.
LEMMA GotoBecomes ==
    ASSUME TInv, NEW t \in Task, NEW at \in Stage \ {"rotate", "cache", "uncache"}, Goto(t, at)
    PROVE  \E s \in TaskState :
               /\ Becomes(t, s)
               /\ s.op = task[t].op /\ s.at = at /\ s.activation = task[t].activation
               /\ s.key = task[t].key /\ s.token = task[t].token /\ s.session = task[t].session
<1> DEFINE s == [task[t] EXCEPT !.at = at]
<1>1. task[t] \in TaskState /\ CarriesOK(task[t])
  BY DEF TInv
<1>2. /\ s \in TaskState /\ CarriesOK(s)
      /\ s.op = task[t].op /\ s.at = at /\ s.activation = task[t].activation
      /\ s.key = task[t].key /\ s.token = task[t].token /\ s.session = task[t].session
  BY <1>1 DEF TaskState, CarriesOK
<1>3. Become(t, s)
  BY DEF Goto
<1> HIDE DEF s
<1> QED
  BY <1>2, <1>3, BecomeBecomes

-----------------------------------------------------------------------------
(* The inductive invariant.                                                *)

\* An approval that is about to mark its request has inserted the key.
KeyMade ==
    /\ ApprovedHasKey
    /\ \A t \in Task : Waiting(t, "approve", "mark") =>
          \E k \in Key : approvedFor[k] = task[t].activation /\ key[k] # "absent"

\* Unless approvals crossed there is one at a time, and none of the keys is
\* active between its first two writes.
OneByOne ==
    ~crossed =>
        /\ \A j, k \in Key : key[j] = "active" /\ key[k] = "active" => j = k
        /\ \A t, u \in Task : task[t].op = "approve" /\ task[u].op = "approve" => t = u
        /\ \A t \in Task, k \in Key : Waiting(t, "approve", "insert") => key[k] # "active"

IInv == TInv /\ KeyMade /\ OneByOne /\ RevokedKeyHasNoSession

LEMMA KeyMadeFrame ==
    ASSUME IInv, NEW t \in Task, NEW s \in TaskState, Becomes(t, s),
           ~(s.op = "approve" /\ s.at = "mark"),
           \A k \in Key : key[k] # "absent" => key'[k] # "absent" /\ approvedFor'[k] = approvedFor[k],
           \A a \in Activation : activation'[a] = "approved" => activation[a] = "approved"
    PROVE  KeyMade'
<1>1. ApprovedHasKey'
  BY DEF IInv, KeyMade, ApprovedHasKey
<1>2. ASSUME NEW u \in Task, Waiting(u, "approve", "mark")'
      PROVE  (\E k \in Key : approvedFor[k] = task[u].activation /\ key[k] # "absent")'
  <2>1. task'[u] = task[u]
    BY <1>2 DEF Becomes, Waiting
  <2> QED
    BY <1>2, <2>1 DEF Waiting, IInv, KeyMade
<1> QED
  BY <1>1, <1>2 DEF KeyMade

LEMMA OneByOneFrame ==
    ASSUME IInv, NEW t \in Task, NEW s \in TaskState, Becomes(t, s),
           crossed => crossed', s.op = "approve" => task[t].op = "approve",
           ~(s.op = "approve" /\ s.at = "insert"),
           \A k \in Key : key'[k] = "active" => key[k] = "active"
    PROVE  OneByOne'
BY DEF IInv, OneByOne, Becomes, Waiting

LEMMA SessionsFrame ==
    ASSUME IInv, NEW t \in Task, NEW s \in TaskState, Becomes(t, s),
           \A n \in Session : session'[n] = "live" => session[n] = "live" /\ keyOf'[n] = keyOf[n],
           \A k \in Key : key'[k] = "revoked" => key[k] = "revoked",
           missed \subseteq missed', superseded \subseteq superseded',
           \A k \in Key : t \in Revoking(k) =>
               s.op = "revoke" /\ s.key = k /\ s.at \in {"list", "expire"}
    PROVE  RevokedKeyHasNoSession'
<1>1. \A k \in Key : Revoking(k) \subseteq Revoking(k)'
  BY DEF Becomes, Revoking
<1> QED
  BY <1>1 DEF IInv, TInv, Typed, RevokedKeyHasNoSession

\* A step of a handler that is no approval and changes no key and no state of a
\* session.
LEMMA Quiet ==
    ASSUME IInv, NEW t \in Task, NEW s \in TaskState, Becomes(t, s), Typed',
           UNCHANGED <<activation, key, superseded, approvedFor, session, keyOf, crossed, missed>>,
           s.op # "approve",
           \A k \in Key : t \in Revoking(k) =>
               s.op = "revoke" /\ s.key = k /\ s.at \in {"list", "expire"}
    PROVE  IInv'
<1>1. KeyMade'
  BY KeyMadeFrame
<1>2. OneByOne'
  BY OneByOneFrame
<1>3. RevokedKeyHasNoSession'
  BY SessionsFrame
<1> QED
  BY <1>1, <1>2, <1>3 DEF IInv, TInv, Becomes

-----------------------------------------------------------------------------
(* Requests and approvals.                                                 *)

LEMMA RequestStep ==
    ASSUME IInv, NEW t \in Task, RequestActivation(t)
    PROVE  IInv'
<1> DEFINE s == [Idle EXCEPT !.op = "request", !.at = "create"]
<1>1. /\ s \in TaskState /\ CarriesOK(s) /\ s.op = "request"
  BY DEF Idle, TaskState, CarriesOK, Op, Stage
<1>2. /\ Become(t, s) /\ task[t].at = "idle"
      /\ activation' = [a \in Activation |-> Expired(a)]
      /\ UNCHANGED <<overdue, key, superseded, approvedFor, sessions, cached, noted>>
  BY DEF RequestActivation
<1> HIDE DEF s
<1>3. Becomes(t, s)
  BY <1>1, <1>2, BecomeBecomes DEF IInv
<1>4. Typed'
  BY <1>2 DEF IInv, TInv, Typed, Expired, sessions, noted
<1>5. KeyMade'
  BY <1>1, <1>2, <1>3, KeyMadeFrame DEF Expired, noted
<1>6. OneByOne'
  BY <1>1, <1>2, <1>3, OneByOneFrame DEF noted
<1>7. RevokedKeyHasNoSession'
  BY <1>1, <1>2, <1>3, SessionsFrame DEF sessions, noted, Revoking
<1> QED
  BY <1>3, <1>4, <1>5, <1>6, <1>7 DEF IInv, TInv, Becomes

LEMMA CreateStep ==
    ASSUME IInv, NEW t \in Task, NEW a \in Activation, CreateActivation(t, a)
    PROVE  IInv'
<1>1. /\ Waiting(t, "request", "create") /\ Done(t)
      /\ activation' = [activation EXCEPT ![a] = "pending"]
      /\ UNCHANGED <<overdue, key, superseded, approvedFor, sessions, cached, noted>>
  BY DEF CreateActivation
<1>2. Becomes(t, Idle)
  BY <1>1, DoneBecomes DEF IInv
<1>3. Typed'
  BY <1>1 DEF IInv, TInv, Typed, sessions, noted
<1>4. KeyMade'
  BY <1>1, <1>2, IdleFacts, KeyMadeFrame DEF noted, IInv, TInv, Typed
<1>5. OneByOne'
  BY <1>1, <1>2, IdleFacts, OneByOneFrame DEF noted
<1>6. RevokedKeyHasNoSession'
  BY <1>1, <1>2, IdleFacts, SessionsFrame DEF sessions, noted, Revoking, Waiting
<1> QED
  BY <1>2, <1>3, <1>4, <1>5, <1>6 DEF IInv, TInv, Becomes

LEMMA ApproveStep ==
    ASSUME IInv, NEW t \in Task, NEW a \in Activation, Approve(t, a)
    PROVE  IInv'
<1> DEFINE s == [Idle EXCEPT !.op = "approve", !.at = "supersede", !.activation = a]
<1>1. /\ s \in TaskState /\ CarriesOK(s) /\ s.op = "approve" /\ s.at = "supersede"
  BY DEF Idle, TaskState, CarriesOK, Op, Stage
<1>2. /\ Become(t, s) /\ task[t].at = "idle"
      /\ crossed' = (crossed \/ Beside(t, "approve"))
      /\ UNCHANGED <<keys, sessions, cached, missed>>
  BY DEF Approve
<1> HIDE DEF s
<1>3. Becomes(t, s)
  BY <1>1, <1>2, BecomeBecomes DEF IInv
<1>4. Typed'
  BY <1>2 DEF IInv, TInv, Typed, sessions, keys
<1>5. KeyMade'
  BY <1>1, <1>2, <1>3, KeyMadeFrame DEF keys
<1>6. OneByOne'
  <2> SUFFICES ASSUME ~crossed' PROVE OneByOne'
    BY DEF OneByOne
  <2>1. ~crossed /\ \A u \in Task \ {t} : task[u].op # "approve"
    BY <1>2 DEF Beside
  <2> QED
    BY <1>1, <1>2, <1>3, <2>1 DEF IInv, OneByOne, Becomes, Waiting, keys
<1>7. RevokedKeyHasNoSession'
  BY <1>1, <1>2, <1>3, SessionsFrame DEF sessions, keys, Revoking
<1> QED
  BY <1>3, <1>4, <1>5, <1>6, <1>7 DEF IInv, TInv, Becomes

LEMMA SupersedeStep ==
    ASSUME IInv, NEW t \in Task, SupersedeKeys(t)
    PROVE  IInv'
<1>1. /\ Waiting(t, "approve", "supersede") /\ Goto(t, "insert")
      /\ key' = [k \in Key |-> Superseded(k)]
      /\ superseded' = superseded \cup {k \in Key : key[k] = "active"}
      /\ crossed' = (crossed /\ Beside(t, "approve"))
      /\ UNCHANGED <<activation, overdue, approvedFor, sessions, cached, missed>>
  BY DEF SupersedeKeys
<1>2. PICK s \in TaskState : Becomes(t, s) /\ s.op = task[t].op /\ s.at = "insert"
  BY <1>1, GotoBecomes DEF IInv, Stage
<1>3. Typed'
  BY <1>1 DEF IInv, TInv, Typed, Superseded, sessions
<1>4. KeyMade'
  BY <1>1, <1>2, KeyMadeFrame DEF Superseded, IInv, TInv, Typed
<1>5. OneByOne'
  <2> SUFFICES ASSUME ~crossed' PROVE OneByOne'
    BY DEF OneByOne
  <2>1. \A u \in Task \ {t} : task[u].op # "approve"
    <3>1. CASE crossed
      BY <1>1, <3>1 DEF Beside
    <3>2. CASE ~crossed
      BY <1>1, <3>2 DEF IInv, OneByOne, Waiting
    <3> QED
      BY <3>1, <3>2
  <2>2. \A k \in Key : key'[k] # "active"
    BY <1>1 DEF Superseded
  <2> QED
    BY <1>2, <2>1, <2>2 DEF OneByOne, Becomes, Waiting
<1>6. RevokedKeyHasNoSession'
  <2>1. \A k \in Key : Revoking(k) \subseteq Revoking(k)'
    BY <1>1, <1>2 DEF Becomes, Revoking, Waiting
  <2>2. \A k \in Key : key'[k] = "revoked" => key[k] = "revoked" \/ k \in superseded'
    BY <1>1 DEF Superseded
  <2> QED
    BY <1>1, <2>1, <2>2 DEF RevokedKeyHasNoSession, IInv, TInv, Typed, sessions
<1> QED
  BY <1>2, <1>3, <1>4, <1>5, <1>6 DEF IInv, TInv, Becomes

LEMMA InsertKeyStep ==
    ASSUME IInv, NEW t \in Task, NEW k \in Key, InsertKey(t, k)
    PROVE  IInv'
<1>1. /\ Waiting(t, "approve", "insert") /\ Goto(t, "mark") /\ key[k] = "absent"
      /\ key' = [key EXCEPT ![k] = "active"]
      /\ approvedFor' = [approvedFor EXCEPT ![k] = task[t].activation]
      /\ UNCHANGED <<activation, overdue, superseded, sessions, cached, noted>>
  BY DEF InsertKey
<1>2. PICK s \in TaskState : /\ Becomes(t, s) /\ s.op = task[t].op /\ s.at = "mark"
                             /\ s.activation = task[t].activation
  BY <1>1, GotoBecomes DEF IInv, Stage
<1>3. task[t].activation \in Activation
  BY <1>1 DEF IInv, TInv, CarriesOK, Waiting
<1>4. /\ Typed'
      /\ key'[k] = "active" /\ approvedFor'[k] = task[t].activation
      /\ \A j \in Key \ {k} : key'[j] = key[j] /\ approvedFor'[j] = approvedFor[j]
  BY <1>1, <1>3 DEF IInv, TInv, Typed, sessions, noted
<1>5. KeyMade'
  <2>1. \A a \in Activation :
           (\E j \in Key : approvedFor[j] = a /\ key[j] # "absent")
               => (\E j \in Key : approvedFor'[j] = a /\ key'[j] # "absent")
    BY <1>1, <1>4
  <2>2. ApprovedHasKey'
    BY <1>1, <2>1 DEF IInv, KeyMade, ApprovedHasKey
  <2>3. ASSUME NEW u \in Task, Waiting(u, "approve", "mark")'
        PROVE  (\E j \in Key : approvedFor[j] = task[u].activation /\ key[j] # "absent")'
    <3>1. CASE u = t
      BY <1>2, <1>4, <3>1 DEF Becomes
    <3>2. CASE u # t
      <4>1. task'[u] = task[u] /\ task[u].activation \in Activation
        BY <1>2, <2>3, <3>2 DEF Becomes, Waiting, IInv, TInv, CarriesOK
      <4> QED
        BY <2>1, <2>3, <4>1 DEF Waiting, IInv, KeyMade
    <3> QED
      BY <3>1, <3>2
  <2> QED
    BY <2>2, <2>3 DEF KeyMade
<1>6. OneByOne'
  BY <1>1, <1>2, <1>4 DEF IInv, OneByOne, Becomes, Waiting, noted
<1>7. RevokedKeyHasNoSession'
  BY <1>1, <1>2, <1>4, SessionsFrame DEF sessions, noted, Revoking, Waiting
<1> QED
  BY <1>2, <1>4, <1>5, <1>6, <1>7 DEF IInv, TInv, Becomes

LEMMA MarkStep ==
    ASSUME IInv, NEW t \in Task, MarkApproved(t)
    PROVE  IInv'
<1>1. /\ Waiting(t, "approve", "mark") /\ Done(t)
      /\ activation' = [activation EXCEPT ![task[t].activation] = "approved"]
      /\ UNCHANGED <<overdue, key, superseded, approvedFor, sessions, cached, noted>>
  BY DEF MarkApproved
<1>2. Becomes(t, Idle)
  BY <1>1, DoneBecomes DEF IInv
<1>3. Typed'
  BY <1>1 DEF IInv, TInv, Typed, sessions, noted
<1>4. KeyMade'
  <2>1. \A a \in Activation : activation'[a] = "approved" =>
            activation[a] = "approved" \/ a = task[t].activation
    BY <1>1 DEF IInv, TInv, Typed
  <2>2. ApprovedHasKey'
    BY <1>1, <2>1 DEF IInv, KeyMade, ApprovedHasKey
  <2> QED
    BY <1>1, <1>2, <2>2, IdleFacts DEF IInv, KeyMade, Becomes, Waiting
<1>5. OneByOne'
  BY <1>1, <1>2, IdleFacts, OneByOneFrame DEF noted
<1>6. RevokedKeyHasNoSession'
  BY <1>1, <1>2, IdleFacts, SessionsFrame DEF sessions, noted, Revoking, Waiting
<1> QED
  BY <1>2, <1>3, <1>4, <1>5, <1>6 DEF IInv, TInv, Becomes

-----------------------------------------------------------------------------
(* Sessions.                                                               *)

LEMMA ExchangeStep ==
    ASSUME IInv, NEW t \in Task, NEW k \in Key, Exchange(t, k)
    PROVE  IInv'
<1> DEFINE s == [Idle EXCEPT !.op = "exchange", !.at = "insert", !.key = k]
<1>1. /\ s \in TaskState /\ CarriesOK(s) /\ s.op = "exchange"
  BY DEF Idle, TaskState, CarriesOK, Op, Stage
<1>2. /\ Become(t, s) /\ task[t].at = "idle" /\ UNCHANGED <<keys, sessions, cached, noted>>
  BY DEF Exchange
<1> HIDE DEF s
<1>3. Becomes(t, s)
  BY <1>1, <1>2, BecomeBecomes DEF IInv
<1>4. Typed'
  BY <1>2 DEF IInv, TInv, Typed, keys, sessions, noted
<1> QED
  BY <1>1, <1>2, <1>3, <1>4, Quiet DEF keys, sessions, noted, Revoking

LEMMA InsertSessionStep ==
    ASSUME IInv, NEW t \in Task, NEW n \in Session, NEW x \in Token, InsertSession(t, n, x)
    PROVE  IInv'
<1> DEFINE s == [task[t] EXCEPT !.at = "cache", !.session = n, !.fresh = x]
<1>1. /\ Waiting(t, "exchange", "insert") /\ session[n] = "absent"
      /\ session' = [session EXCEPT ![n] = "live"]
      /\ keyOf' = [keyOf EXCEPT ![n] = task[t].key]
      /\ tokenOf' = [tokenOf EXCEPT ![n] = x]
      /\ issued' = issued \cup {x}
      /\ Become(t, s)
      /\ missed' = IF key[task[t].key] = "active" THEN missed ELSE missed \cup {n}
      /\ UNCHANGED <<keys, lapsed, cached, crossed>>
  BY DEF InsertSession
<1>2. task[t] \in TaskState /\ CarriesOK(task[t]) /\ task[t].key \in Key
  BY <1>1 DEF IInv, TInv, CarriesOK, Waiting
<1>3. s \in TaskState /\ CarriesOK(s) /\ s.op = "exchange" /\ s.at = "cache"
  BY <1>1, <1>2 DEF TaskState, CarriesOK, Stage, Waiting
<1> HIDE DEF s
<1>4. Becomes(t, s)
  BY <1>1, <1>3, BecomeBecomes DEF IInv
<1>5. /\ Typed'
      /\ session'[n] = "live" /\ keyOf'[n] = task[t].key
      /\ \A m \in Session \ {n} : session'[m] = session[m] /\ keyOf'[m] = keyOf[m]
  BY <1>1, <1>2 DEF IInv, TInv, Typed, keys
<1>6. KeyMade'
  BY <1>1, <1>3, <1>4, KeyMadeFrame DEF keys
<1>7. OneByOne'
  BY <1>1, <1>3, <1>4, OneByOneFrame DEF keys
<1>8. RevokedKeyHasNoSession'
  <2>1. \A k \in Key : Revoking(k)' = Revoking(k)
    BY <1>1, <1>3, <1>4 DEF Becomes, Revoking, Waiting
  <2>2. /\ missed \subseteq missed' /\ (key[task[t].key] = "active" \/ n \in missed')
        /\ UNCHANGED <<key, superseded>>
    BY <1>1 DEF keys
  <2>3. ASSUME NEW m \in Session, session'[m] = "live"
        PROVE  key'[keyOf'[m]] = "revoked" =>
                   m \in missed' \/ Revoking(keyOf[m])' # {} \/ keyOf'[m] \in superseded'
    <3>1. CASE m = n
      BY <1>2, <1>5, <2>2, <3>1
    <3>2. CASE m # n
      BY <1>5, <2>1, <2>2, <2>3, <3>2 DEF IInv, TInv, Typed, RevokedKeyHasNoSession
    <3> QED
      BY <3>1, <3>2
  <2> QED
    BY <2>3 DEF RevokedKeyHasNoSession
<1> QED
  BY <1>4, <1>5, <1>6, <1>7, <1>8 DEF IInv, TInv, Becomes

LEMMA CacheStep ==
    ASSUME IInv, NEW t \in Task, CacheToken(t)
    PROVE  IInv'
<1>1. /\ task[t].at = "cache" /\ Done(t) /\ UNCHANGED <<keys, sessions, noted>>
      /\ cached' = [cached EXCEPT ![task[t].fresh] = task[t].session] \/ cached' = cached
  BY DEF CacheToken, Redis
<1>2. Becomes(t, Idle)
  BY <1>1, DoneBecomes DEF IInv
<1>3. Typed'
  BY <1>1 DEF IInv, TInv, Typed, CarriesOK, keys, sessions, noted
<1> QED
  BY <1>1, <1>2, <1>3, IdleFacts, Quiet DEF keys, sessions, noted, Revoking

LEMMA RefreshStep ==
    ASSUME IInv, NEW t \in Task, NEW x \in Token, Refresh(t, x)
    PROVE  IInv'
<1>1. PICK n \in {cached[x], None} :
          Become(t, [Idle EXCEPT !.op = "refresh", !.at = "find", !.token = x, !.session = n])
  BY DEF Refresh
<1> DEFINE s == [Idle EXCEPT !.op = "refresh", !.at = "find", !.token = x, !.session = n]
<1>2. n \in Session \cup {None}
  BY DEF IInv, TInv, Typed
<1>3. s \in TaskState /\ CarriesOK(s) /\ s.op = "refresh"
  BY <1>2 DEF Idle, TaskState, CarriesOK, Op, Stage
<1>4. task[t].at = "idle" /\ UNCHANGED <<keys, sessions, cached, noted>> /\ Become(t, s)
  BY <1>1 DEF Refresh
<1> HIDE DEF s
<1>5. Becomes(t, s)
  BY <1>3, <1>4, BecomeBecomes DEF IInv
<1>6. Typed'
  BY <1>4 DEF IInv, TInv, Typed, keys, sessions, noted
<1> QED
  BY <1>3, <1>4, <1>5, <1>6, Quiet DEF keys, sessions, noted, Revoking

LEMMA FindStep ==
    ASSUME IInv, NEW t \in Task, FindSession(t)
    PROVE  IInv'
<1>1. /\ Waiting(t, "refresh", "find") /\ UNCHANGED <<keys, sessions, cached, noted>>
      /\ task[t] \in TaskState /\ CarriesOK(task[t])
  BY DEF FindSession, IInv, TInv
<1>2. Typed'
  BY <1>1 DEF IInv, TInv, Typed, keys, sessions, noted
<1>3. ASSUME NEW n \in Candidates(t),
             Become(t, [task[t] EXCEPT !.session = FoundId(t, n),
                           !.at = IF n \in lapsed THEN "expire" ELSE "rotate"])
      PROVE  IInv'
  <2> DEFINE s == [task[t] EXCEPT !.session = n,
                      !.at = IF n \in lapsed THEN "expire" ELSE "rotate"]
  <2>1. n \in Session
    BY <1>1 DEF Candidates, TaskState
  <2>2. s \in TaskState /\ CarriesOK(s) /\ s.op = "refresh"
    BY <1>1, <2>1 DEF TaskState, CarriesOK, Stage, Waiting
  <2>3. Become(t, s)
    BY <1>3 DEF FoundId
  <2> HIDE DEF s
  <2>4. Becomes(t, s)
    BY <2>2, <2>3, BecomeBecomes DEF IInv
  <2> QED
    BY <1>1, <1>2, <2>2, <2>4, Quiet DEF keys, sessions, noted, Revoking, Waiting
<1>4. ASSUME Done(t)
      PROVE  IInv'
  BY <1>1, <1>2, <1>4, DoneBecomes, IdleFacts, Quiet
     DEF IInv, keys, sessions, noted, Revoking, Waiting
<1> QED
  BY <1>3, <1>4 DEF FindSession

\* A step that revokes the session the handler holds, and ends or moves on.
LEMMA SessionEnds ==
    ASSUME IInv, NEW t \in Task, NEW s \in TaskState, Becomes(t, s), s.op # "approve",
           task[t].op # "revoke",
           session' = [session EXCEPT ![task[t].session] = "revoked"],
           UNCHANGED <<keys, lapsed, keyOf, tokenOf, issued, cached, noted>>
    PROVE  IInv'
<1>1. Typed' /\ \A n \in Session : session'[n] = "live" => session[n] = "live"
  BY DEF IInv, TInv, Typed, keys, noted
<1>2. KeyMade'
  BY KeyMadeFrame DEF keys
<1>3. OneByOne'
  BY OneByOneFrame DEF keys, noted
<1>4. RevokedKeyHasNoSession'
  BY <1>1, SessionsFrame DEF keys, noted, Revoking
<1> QED
  BY <1>1, <1>2, <1>3, <1>4 DEF IInv, TInv, Becomes

LEMMA ExpireStep ==
    ASSUME IInv, NEW t \in Task, ExpireSession(t)
    PROVE  IInv'
BY DoneBecomes, IdleFacts, SessionEnds DEF ExpireSession, IInv, Waiting

LEMMA RotateStep ==
    ASSUME IInv, NEW t \in Task, NEW x \in Token, RotateToken(t, x)
    PROVE  IInv'
<1> DEFINE s == [task[t] EXCEPT !.at = "uncache", !.fresh = x]
           n == task[t].session
<1>1. /\ Waiting(t, "refresh", "rotate") /\ session' = session /\ Become(t, s)
      /\ tokenOf' = [tokenOf EXCEPT ![n] = x]
      /\ lapsed' = lapsed \ {n} /\ issued' = issued \cup {x}
      /\ UNCHANGED <<keys, keyOf, cached, noted>>
  BY DEF RotateToken, AfterRotation
<1>2. task[t] \in TaskState /\ CarriesOK(task[t]) /\ n \in Session
  BY <1>1 DEF IInv, TInv, CarriesOK, Waiting
<1>3. s \in TaskState /\ CarriesOK(s) /\ s.op = "refresh"
  BY <1>1, <1>2 DEF TaskState, CarriesOK, Stage, Waiting
<1> HIDE DEF s, n
<1>4. Becomes(t, s)
  BY <1>1, <1>3, BecomeBecomes DEF IInv
<1>5. Typed'
  BY <1>1, <1>2 DEF IInv, TInv, Typed, keys, noted
<1> QED
  BY <1>1, <1>3, <1>4, <1>5, Quiet DEF keys, noted, Revoking, Waiting

LEMMA UncacheStep ==
    ASSUME IInv, NEW t \in Task, UncacheToken(t)
    PROVE  IInv'
<1>1. /\ task[t].op \in {"refresh", "logout"} /\ task[t].at = "uncache"
      /\ UNCHANGED <<keys, sessions, noted>>
      /\ cached' = [cached EXCEPT ![task[t].token] = None] \/ cached' = cached
      /\ IF task[t].op = "refresh" THEN Goto(t, "cache") ELSE Done(t)
      /\ task[t] \in TaskState /\ CarriesOK(task[t])
  BY DEF UncacheToken, Redis, IInv, TInv
<1>2. Typed'
  BY <1>1 DEF IInv, TInv, Typed, CarriesOK, keys, sessions, noted
<1>3. CASE task[t].op = "refresh"
  <2> DEFINE s == [task[t] EXCEPT !.at = "cache"]
  <2>1. s \in TaskState /\ CarriesOK(s) /\ s.op = "refresh"
    BY <1>1, <1>3 DEF TaskState, CarriesOK, Stage
  <2>2. Become(t, s)
    BY <1>1, <1>3 DEF Goto
  <2> HIDE DEF s
  <2>3. Becomes(t, s)
    BY <2>1, <2>2, BecomeBecomes DEF IInv
  <2> QED
    BY <1>1, <1>2, <2>1, <2>3, Quiet DEF keys, sessions, noted, Revoking
<1>4. CASE task[t].op # "refresh"
  BY <1>1, <1>2, <1>4, DoneBecomes, IdleFacts, Quiet DEF IInv, keys, sessions, noted, Revoking
<1> QED
  BY <1>3, <1>4

LEMMA LogoutStep ==
    ASSUME IInv, NEW t \in Task, NEW x \in Token, Logout(t, x)
    PROVE  IInv'
<1>1. /\ task[t].at = "idle" /\ UNCHANGED <<keys, sessions, cached, noted>>
  BY DEF Logout
<1>2. PICK n \in Session :
          Become(t, [Idle EXCEPT !.op = "logout", !.at = "expire", !.token = x, !.session = n])
  BY DEF Logout
<1> DEFINE s == [Idle EXCEPT !.op = "logout", !.at = "expire", !.token = x, !.session = n]
<1>3. s \in TaskState /\ CarriesOK(s) /\ s.op = "logout"
  BY DEF Idle, TaskState, CarriesOK, Op, Stage
<1>4. Become(t, s)
  BY <1>2
<1> HIDE DEF s
<1>5. Becomes(t, s)
  BY <1>3, <1>4, BecomeBecomes DEF IInv
<1>6. Typed'
  BY <1>1 DEF IInv, TInv, Typed, keys, sessions, noted
<1> QED
  BY <1>1, <1>3, <1>5, <1>6, Quiet DEF keys, sessions, noted, Revoking

LEMMA LogoutSessionStep ==
    ASSUME IInv, NEW t \in Task, LogoutSession(t)
    PROVE  IInv'
<1> DEFINE s == [task[t] EXCEPT !.at = "uncache"]
<1>1. /\ Waiting(t, "logout", "expire") /\ Become(t, s)
      /\ task[t] \in TaskState /\ CarriesOK(task[t])
  BY DEF LogoutSession, Goto, IInv, TInv
<1>2. s \in TaskState /\ CarriesOK(s) /\ s.op = "logout"
  BY <1>1 DEF TaskState, CarriesOK, Stage, Waiting
<1> HIDE DEF s
<1>3. Becomes(t, s)
  BY <1>1, <1>2, BecomeBecomes DEF IInv
<1> QED
  BY <1>1, <1>2, <1>3, SessionEnds DEF LogoutSession, Waiting

-----------------------------------------------------------------------------
(* The revocation of a key.                                                *)

LEMMA RevokeStep ==
    ASSUME IInv, NEW t \in Task, NEW k \in Key, Revoke(t, k)
    PROVE  IInv'
<1> DEFINE s == [Idle EXCEPT !.op = "revoke", !.at = "mark", !.key = k]
<1>1. /\ s \in TaskState /\ CarriesOK(s) /\ s.op = "revoke"
  BY DEF Idle, TaskState, CarriesOK, Op, Stage
<1>2. /\ Become(t, s) /\ task[t].at = "idle" /\ UNCHANGED <<keys, sessions, cached, noted>>
  BY DEF Revoke
<1> HIDE DEF s
<1>3. Becomes(t, s)
  BY <1>1, <1>2, BecomeBecomes DEF IInv
<1>4. Typed'
  BY <1>2 DEF IInv, TInv, Typed, keys, sessions, noted
<1> QED
  BY <1>1, <1>2, <1>3, <1>4, Quiet DEF keys, sessions, noted, Revoking

LEMMA RevokeKeyStep ==
    ASSUME IInv, NEW t \in Task, RevokeKey(t)
    PROVE  IInv'
<1>0. PICK k \in Key : k = task[t].key
  BY DEF RevokeKey, IInv, TInv, CarriesOK, Waiting
<1>1. /\ Waiting(t, "revoke", "mark") /\ Goto(t, "list")
      /\ key' = [key EXCEPT ![k] = "revoked"] /\ superseded' = superseded \ {k}
      /\ UNCHANGED <<activation, overdue, approvedFor, sessions, cached, noted>>
  BY <1>0 DEF RevokeKey
<1>2. PICK s \in TaskState : Becomes(t, s) /\ s.op = "revoke" /\ s.at = "list" /\ s.key = k
  BY <1>0, <1>1, GotoBecomes DEF IInv, Stage, Waiting
<1>3. Typed' /\ key'[k] = "revoked" /\ \A j \in Key \ {k} : key'[j] = key[j]
  BY <1>1 DEF IInv, TInv, Typed, sessions, noted
<1>4. KeyMade'
  BY <1>1, <1>2, <1>3, KeyMadeFrame
<1>5. OneByOne'
  BY <1>1, <1>2, <1>3, OneByOneFrame DEF noted
<1>6. RevokedKeyHasNoSession'
  <2>1. t \in Revoking(k)'
    BY <1>2 DEF Becomes, Revoking
  <2>2. \A j \in Key : Revoking(j) \subseteq Revoking(j)'
    BY <1>1, <1>2 DEF Becomes, Revoking, Waiting
  <2>3. UNCHANGED <<session, keyOf, missed>>
    BY <1>1 DEF sessions, noted
  <2>4. ASSUME NEW n \in Session, session[n] = "live", key'[keyOf[n]] = "revoked"
        PROVE  n \in missed \/ Revoking(keyOf[n])' # {} \/ keyOf[n] \in superseded'
    <3>0. keyOf[n] \in Key
      BY <2>4 DEF IInv, TInv, Typed
    <3>1. CASE keyOf[n] = k
      BY <2>1, <2>3, <3>1
    <3>2. CASE keyOf[n] # k
      BY <1>1, <1>3, <2>2, <2>3, <2>4, <3>0, <3>2 DEF IInv, TInv, Typed, RevokedKeyHasNoSession
    <3> QED
      BY <3>1, <3>2
  <2> QED
    BY <2>3, <2>4 DEF IInv, TInv, Typed, RevokedKeyHasNoSession
<1> QED
  BY <1>2, <1>3, <1>4, <1>5, <1>6 DEF IInv, TInv, Becomes

LEMMA ListStep ==
    ASSUME IInv, NEW t \in Task, ListSessions(t)
    PROVE  IInv'
<1> DEFINE tokens == {tokenOf[n] : n \in LiveSessions(task[t].key)}
           s == [task[t] EXCEPT !.at = "expire", !.listed = tokens]
<1>1. /\ Waiting(t, "revoke", "list") /\ Become(t, s)
      /\ UNCHANGED <<keys, sessions, cached, noted>>
      /\ task[t] \in TaskState /\ CarriesOK(task[t])
  BY DEF ListSessions, IInv, TInv
<1>2. tokens \in SUBSET Token
  BY DEF LiveSessions, IInv, TInv, Typed
<1> HIDE DEF tokens
<1>3. /\ s \in TaskState /\ CarriesOK(s)
      /\ s.op = "revoke" /\ s.at = "expire" /\ s.key = task[t].key
  BY <1>1, <1>2 DEF TaskState, CarriesOK, Stage, Waiting
<1> HIDE DEF s
<1>4. Becomes(t, s)
  BY <1>1, <1>3, BecomeBecomes DEF IInv
<1>5. Typed'
  BY <1>1 DEF IInv, TInv, Typed, keys, sessions, noted
<1> QED
  BY <1>1, <1>3, <1>4, <1>5, Quiet DEF keys, sessions, noted, Revoking, Waiting

LEMMA RevokeSessionsStep ==
    ASSUME IInv, NEW t \in Task, RevokeSessions(t)
    PROVE  IInv'
<1> DEFINE s == [task[t] EXCEPT !.at = "uncache"]
<1>1. /\ Waiting(t, "revoke", "expire") /\ Become(t, s)
      /\ session' = [n \in Session |-> IF n \in RevokedWith(task[t].key)
                                       THEN "revoked" ELSE session[n]]
      /\ UNCHANGED <<keys, lapsed, keyOf, tokenOf, issued, cached, noted>>
      /\ task[t] \in TaskState /\ CarriesOK(task[t])
  BY DEF RevokeSessions, Goto, IInv, TInv
<1>2. s \in TaskState /\ CarriesOK(s) /\ s.op = "revoke"
  BY <1>1 DEF TaskState, CarriesOK, Stage, Waiting
<1> HIDE DEF s
<1>3. Becomes(t, s)
  BY <1>1, <1>2, BecomeBecomes DEF IInv
<1>4. \A n \in Session : session'[n] = "live" =>
          session[n] = "live" /\ keyOf[n] # task[t].key
  BY <1>1 DEF RevokedWith, LiveSessions
<1>5. Typed'
  BY <1>1, <1>4 DEF IInv, TInv, Typed, keys, noted
<1>6. KeyMade'
  BY <1>1, <1>2, <1>3, KeyMadeFrame DEF keys
<1>7. OneByOne'
  BY <1>1, <1>2, <1>3, OneByOneFrame DEF keys, noted, Waiting
<1>8. RevokedKeyHasNoSession'
  <2>1. \A k \in Key \ {task[t].key} : Revoking(k) \subseteq Revoking(k)'
    BY <1>3 DEF Becomes, Revoking
  <2> QED
    BY <1>1, <1>4, <2>1 DEF IInv, TInv, Typed, RevokedKeyHasNoSession, keys, noted
<1> QED
  BY <1>3, <1>5, <1>6, <1>7, <1>8 DEF IInv, TInv, Becomes

LEMMA UncacheListedStep ==
    ASSUME IInv, NEW t \in Task, UncacheListed(t)
    PROVE  IInv'
<1>1. /\ Waiting(t, "revoke", "uncache") /\ Done(t) /\ UNCHANGED <<keys, sessions, noted>>
      /\ \/ cached' = [x \in Token |-> IF x \in task[t].listed THEN None ELSE cached[x]]
         \/ cached' = cached
  BY DEF UncacheListed, Redis
<1>2. Becomes(t, Idle)
  BY <1>1, DoneBecomes DEF IInv
<1>3. Typed'
  BY <1>1 DEF IInv, TInv, Typed, keys, sessions, noted
<1> QED
  BY <1>1, <1>2, <1>3, IdleFacts, Quiet DEF keys, sessions, noted, Revoking, Waiting

-----------------------------------------------------------------------------
(* Time and failures.                                                      *)

\* A step of no handler that leaves the keys, the sessions and the notes.
LEMMA Elsewhere ==
    ASSUME IInv, Typed',
           UNCHANGED <<activation, key, superseded, approvedFor, session, keyOf, task, crossed, missed>>
    PROVE  IInv'
BY DEF IInv, TInv, KeyMade, ApprovedHasKey, OneByOne, RevokedKeyHasNoSession, Revoking, Waiting

\* Some handlers end where they are, and the sessions they leave are noted.
LEMMA GivenUp ==
    ASSUME IInv, NEW tasks \in SUBSET Task,
           task' = [u \in Task |-> IF u \in tasks THEN Idle ELSE task[u]],
           missed' = missed \cup LeftBy(tasks),
           UNCHANGED <<keys, sessions, cached, crossed>>
    PROVE  IInv'
<1>1. Typed'
  BY DEF IInv, TInv, Typed, keys, sessions, LeftBy, LiveSessions
<1>2. /\ task' \in [Task -> TaskState] /\ \A u \in Task : CarriesOK(task[u])'
  BY IdleFacts DEF IInv, TInv
<1>3. \A u \in Task : task'[u] = task[u] \/ (u \in tasks /\ task'[u] = Idle)
  OBVIOUS
<1>4. KeyMade'
  BY <1>3, IdleFacts DEF IInv, KeyMade, ApprovedHasKey, Waiting, keys
<1>5. OneByOne'
  BY <1>3, IdleFacts DEF IInv, OneByOne, Waiting, keys
<1>6. RevokedKeyHasNoSession'
  <2>1. ASSUME NEW n \in Session, session[n] = "live", key[keyOf[n]] = "revoked",
               n \notin missed', keyOf[n] \notin superseded
        PROVE  Revoking(keyOf[n])' # {}
    <3>1. PICK k \in Key : k = keyOf[n] /\ k = keyOf'[n]
      BY <2>1 DEF IInv, TInv, Typed, sessions
    <3>2. PICK u \in Revoking(k) : TRUE
      BY <2>1, <3>1 DEF IInv, RevokedKeyHasNoSession
    <3>3. Revoking(k) \cap tasks = {}
      <4> SUFFICES ASSUME Revoking(k) \cap tasks # {} PROVE FALSE
        OBVIOUS
      <4>1. n \in LiveSessions(k)
        BY <2>1, <3>1 DEF LiveSessions
      <4>2. k \in {j \in Key : Revoking(j) \cap tasks # {}}
        OBVIOUS
      <4>3. n \in LeftBy(tasks)
        BY <4>1, <4>2 DEF LeftBy
      <4> QED
        BY <2>1, <4>3
    <3>4. task'[u] = task[u]
      BY <1>3, <3>2, <3>3 DEF Revoking
    <3>5. u \in Revoking(k)'
      BY <3>2, <3>4 DEF Revoking
    <3> QED
      BY <3>1, <3>5
  <2> QED
    BY <2>1 DEF RevokedKeyHasNoSession, keys, sessions
<1> QED
  BY <1>1, <1>2, <1>4, <1>5, <1>6 DEF IInv, TInv

LEMMA EnvironmentStep ==
    ASSUME IInv, Environment
    PROVE  IInv'
<1>1. ASSUME NEW a \in Activation, ActivationOverdue(a) PROVE IInv'
  <2>1. Typed'
    BY <1>1 DEF ActivationOverdue, IInv, TInv, Typed, sessions, noted
  <2> QED
    BY <1>1, <2>1, Elsewhere DEF ActivationOverdue, sessions, noted
<1>2. ASSUME NEW n \in Session, SessionLapses(n) PROVE IInv'
  <2>1. Typed'
    BY <1>2 DEF SessionLapses, IInv, TInv, Typed, keys, noted
  <2> QED
    BY <1>2, <2>1, Elsewhere DEF SessionLapses, keys, noted
<1>3. ASSUME NEW x \in Token, EntryExpires(x) PROVE IInv'
  <2>1. Typed'
    BY <1>3 DEF EntryExpires, IInv, TInv, Typed, keys, sessions, noted
  <2> QED
    BY <1>3, <2>1, Elsewhere DEF EntryExpires, keys, sessions, noted
<1>4. ASSUME NEW t \in Task, DbError(t) PROVE IInv'
  <2>1. task' = [u \in Task |-> IF u \in {t} THEN Idle ELSE task[u]]
    BY <1>4 DEF DbError, Done, Become, IInv, TInv
  <2> QED
    BY <1>4, <2>1, GivenUp DEF DbError
<1>5. CASE Crash
  <2>1. task' = [u \in Task |-> IF u \in Task THEN Idle ELSE task[u]]
    BY <1>5 DEF Crash
  <2> QED
    BY <1>5, <2>1, GivenUp DEF Crash
<1> QED
  BY <1>1, <1>2, <1>3, <1>4, <1>5 DEF Environment

-----------------------------------------------------------------------------
LEMMA InitIInv == Init => IInv
<1> SUFFICES ASSUME Init PROVE IInv
  OBVIOUS
<1>1. \A t \in Task : task[t] = Idle
  BY DEF Init
<1>2. TInv
  BY IdleFacts DEF Init, TInv, Typed
<1>3. KeyMade /\ OneByOne /\ RevokedKeyHasNoSession
  BY <1>1, IdleFacts
     DEF Init, KeyMade, ApprovedHasKey, OneByOne, RevokedKeyHasNoSession, Waiting
<1> QED
  BY <1>2, <1>3 DEF IInv

LEMMA NextIInv == IInv /\ [Next]_vars => IInv'
<1> SUFFICES ASSUME IInv, [Next]_vars PROVE IInv'
  OBVIOUS
<1>1. ASSUME NEW t \in Task, Credentials(t) PROVE IInv'
  BY <1>1, RequestStep, CreateStep, ApproveStep, SupersedeStep, InsertKeyStep, RevokeStep,
     MarkStep, RevokeKeyStep, ListStep, RevokeSessionsStep, UncacheListedStep
     DEF Credentials
<1>2. ASSUME NEW t \in Task, Sessions(t) PROVE IInv'
  BY <1>2, ExchangeStep, InsertSessionStep, CacheStep, RefreshStep, RotateStep, LogoutStep,
     FindStep, ExpireStep, UncacheStep, LogoutSessionStep
     DEF Sessions
<1>3. CASE UNCHANGED vars
  <2>1. Typed'
    BY <1>3 DEF vars, IInv, TInv, Typed
  <2> QED
    BY <1>3, <2>1, Elsewhere DEF vars
<1> QED
  BY <1>1, <1>2, <1>3, EnvironmentStep DEF Next

LEMMA Invariance == Spec => []IInv
BY InitIInv, NextIInv, PTL DEF Spec

-----------------------------------------------------------------------------
\* Every variable has its type, and a handler past a read has what it read.
THEOREM TypeCorrect == Spec => []TypeOK
<1>1. IInv => TypeOK
  BY DEF IInv, TInv, Typed, CarriesOK, TypeOK
<1> QED
  BY <1>1, Invariance, PTL

\* Every approved request has a key, wherever approveDeviceActivation stopped.
THEOREM ApprovalsHaveKeys == Spec => []ApprovedHasKey
<1>1. IInv => ApprovedHasKey
  BY DEF IInv, KeyMade
<1> QED
  BY <1>1, Invariance, PTL

\* A device has one active key unless approvals crossed.
THEOREM OneActiveKeyHolds == Spec => []OneActiveKey
<1>1. IInv => OneActiveKey
  BY DEF IInv, OneByOne, OneActiveKey
<1> QED
  BY <1>1, Invariance, PTL

\* A key that revokeDeviceApiKey revoked has no live session but those that
\* overlapped its revocation or that a failed revocation left.  (The sessions of
\* keys that approveDeviceActivation revoked stay live: the code does not touch
\* them.)
THEOREM RevokedKeyIsOut == Spec => []RevokedKeyHasNoSession
<1>1. IInv => RevokedKeyHasNoSession
  BY DEF IInv
<1> QED
  BY <1>1, Invariance, PTL

-----------------------------------------------------------------------------
(* What a step may never do.                                               *)

LEMMA SessionsStayRevoked ==
    ASSUME IInv, [Next]_vars, NEW n \in Session, session[n] = "revoked"
    PROVE  session'[n] = "revoked"
<1>0. session \in [Session -> {"absent", "live", "revoked"}]
  BY DEF IInv, TInv, Typed
<1>1. ASSUME NEW t \in Task, Credentials(t) PROVE session'[n] = "revoked"
  <2>1. CASE RevokeSessions(t)
    BY <2>1 DEF RevokeSessions
  <2>2. CASE ~RevokeSessions(t)
    <3>1. session' = session
      BY <1>1, <2>2 DEF Credentials, RequestActivation, CreateActivation, Approve, SupersedeKeys,
            InsertKey, Revoke, MarkApproved, RevokeKey, ListSessions, UncacheListed, sessions
    <3> QED
      BY <3>1
  <2> QED
    BY <2>1, <2>2
<1>2. ASSUME NEW t \in Task, Sessions(t) PROVE session'[n] = "revoked"
  <2>1. CASE \E m \in Session, x \in Token : InsertSession(t, m, x)
    BY <1>0, <2>1 DEF InsertSession
  <2>2. CASE ExpireSession(t) \/ LogoutSession(t)
    BY <1>0, <2>2 DEF ExpireSession, LogoutSession
  <2>3. CASE ~(\/ \E m \in Session, x \in Token : InsertSession(t, m, x)
               \/ ExpireSession(t) \/ LogoutSession(t))
    <3>1. session' = session
      BY <1>2, <2>3 DEF Sessions, Exchange, CacheToken, Refresh, RotateToken, AfterRotation,
            Logout, FindSession, UncacheToken, sessions
    <3> QED
      BY <3>1
  <2> QED
    BY <2>1, <2>2, <2>3
<1>3. ASSUME Environment \/ UNCHANGED vars PROVE session'[n] = "revoked"
  <2>1. session' = session
    BY <1>3 DEF Environment, ActivationOverdue, SessionLapses, EntryExpires, DbError, Crash,
          sessions, vars
  <2> QED
    BY <2>1
<1> QED
  BY <1>1, <1>2, <1>3 DEF Next

LEMMA KeysStayRevoked ==
    ASSUME IInv, [Next]_vars, NEW k \in Key, key[k] = "revoked"
    PROVE  key'[k] = "revoked"
<1>0. key \in [Key -> {"absent", "active", "revoked"}]
  BY DEF IInv, TInv, Typed
<1>1. ASSUME NEW t \in Task, Credentials(t) PROVE key'[k] = "revoked"
  <2>1. CASE SupersedeKeys(t)
    BY <2>1 DEF SupersedeKeys, Superseded
  <2>2. CASE \E j \in Key : InsertKey(t, j)
    BY <1>0, <2>2 DEF InsertKey
  <2>3. CASE RevokeKey(t)
    BY <1>0, <2>3 DEF RevokeKey
  <2>4. CASE ~(SupersedeKeys(t) \/ (\E j \in Key : InsertKey(t, j)) \/ RevokeKey(t))
    <3>1. key' = key
      BY <1>1, <2>4 DEF Credentials, RequestActivation, CreateActivation, Approve, Revoke,
            MarkApproved, ListSessions, RevokeSessions, UncacheListed, keys
    <3> QED
      BY <3>1
  <2> QED
    BY <2>1, <2>2, <2>3, <2>4
<1>2. ASSUME (\E t \in Task : Sessions(t)) \/ Environment \/ UNCHANGED vars
      PROVE  key'[k] = "revoked"
  <2>1. key' = key
    BY <1>2 DEF Sessions, Exchange, InsertSession, CacheToken, Refresh, RotateToken, Logout,
          FindSession, ExpireSession, UncacheToken, LogoutSession, Environment,
          ActivationOverdue, SessionLapses, EntryExpires, DbError, Crash, keys, vars
  <2> QED
    BY <2>1
<1> QED
  BY <1>1, <1>2 DEF Next

\* However handlers interleave and whatever fails, a revoked session and a
\* revoked key stay revoked.
RevokedIsFinal ==
    [][/\ \A n \in Session : session[n] = "revoked" => session'[n] = "revoked"
       /\ \A k \in Key : key[k] = "revoked" => key'[k] = "revoked"]_vars

\* No handler of auth.service.ts brings a revoked session or key back, however
\* late its write comes.
THEOREM RevokedStaysRevoked == Spec => RevokedIsFinal
<1>1. IInv /\ [Next]_vars =>
          [/\ \A n \in Session : session[n] = "revoked" => session'[n] = "revoked"
           /\ \A k \in Key : key[k] = "revoked" => key'[k] = "revoked"]_vars
  BY SessionsStayRevoked, KeysStayRevoked
<1> QED
  BY <1>1, Invariance, PTL DEF Spec, RevokedIsFinal

LEMMA TokenStaysOut ==
    ASSUME IInv, [Next]_vars, NEW x \in Token, x \in issued, \A n \in Session : tokenOf[n] # x
    PROVE  x \in issued' /\ \A n \in Session : tokenOf'[n] # x
<1>0. tokenOf \in [Session -> Token \cup {None}]
  BY DEF IInv, TInv, Typed
<1>1. ASSUME NEW t \in Task, NEW n \in Session, NEW y \in Token, InsertSession(t, n, y)
      PROVE  x \in issued' /\ \A m \in Session : tokenOf'[m] # x
  BY <1>0, <1>1 DEF InsertSession
<1>2. ASSUME NEW t \in Task, NEW y \in Token, RotateToken(t, y)
      PROVE  x \in issued' /\ \A m \in Session : tokenOf'[m] # x
  BY <1>0, <1>2 DEF RotateToken
<1>3. CASE ~(\E t \in Task, y \in Token :
                RotateToken(t, y) \/ \E n \in Session : InsertSession(t, n, y))
  <2>1. UNCHANGED <<issued, tokenOf>>
    BY <1>3 DEF Next, Credentials, RequestActivation, CreateActivation, Approve, SupersedeKeys,
          InsertKey, Revoke, MarkApproved, RevokeKey, ListSessions, RevokeSessions,
          UncacheListed, Sessions, Exchange, CacheToken, Refresh, Logout, FindSession,
          ExpireSession, UncacheToken, LogoutSession, Environment, ActivationOverdue,
          SessionLapses, EntryExpires, DbError, Crash, sessions, vars
  <2> QED
    BY <2>1
<1> QED
  BY <1>1, <1>2, <1>3

\* Handler u has had token x accepted and is about to write.
Holds(u, x) == task[u].at \in {"rotate", "expire"} /\ task[u].token = x

\* A handler that moves on elsewhere, or with another token.
LEMMA HoldsNothing ==
    ASSUME IInv, NEW t \in Task, NEW x \in Token, Rotated(x), NEW s, Become(t, s),
           s.at \notin {"rotate", "expire"} \/ s.token # x
    PROVE  \A u \in Task : ~Holds(u, x)'
BY DEF IInv, TInv, Become, Rotated, Holds

LEMMA CredentialsHoldNothing ==
    ASSUME IInv, NEW t \in Task, Credentials(t), NEW x \in Token, Rotated(x)
    PROVE  \A u \in Task : ~Holds(u, x)'
<1>0. task[t] \in TaskState /\ CarriesOK(task[t])
  BY DEF IInv, TInv
<1>1. CASE ListSessions(t)
  <2>1. PICK tokens : Become(t, [task[t] EXCEPT !.at = "expire", !.listed = tokens])
    BY <1>1 DEF ListSessions
  <2>2. task[t].token # x
    BY <1>0, <1>1, NoneIsNothing DEF ListSessions, CarriesOK, Waiting
  <2> QED
    BY <1>0, <2>1, <2>2, HoldsNothing DEF TaskState
<1>2. CASE RequestActivation(t) \/ (\E a \in Activation : Approve(t, a)) \/ \E k \in Key : Revoke(t, k)
  <2>1. \/ Become(t, [Idle EXCEPT !.op = "request", !.at = "create"])
        \/ \E a \in Activation : Become(t, [Idle EXCEPT !.op = "approve", !.at = "supersede",
                                               !.activation = a])
        \/ \E k \in Key : Become(t, [Idle EXCEPT !.op = "revoke", !.at = "mark", !.key = k])
    BY <1>2 DEF RequestActivation, Approve, Revoke
  <2> QED
    BY <2>1, HoldsNothing DEF Idle
<1>3. CASE (\E a \in Activation : CreateActivation(t, a)) \/ MarkApproved(t) \/ UncacheListed(t)
  BY <1>3, IdleFacts, HoldsNothing DEF CreateActivation, MarkApproved, UncacheListed, Done
<1>4. CASE \/ SupersedeKeys(t) \/ RevokeKey(t) \/ RevokeSessions(t)
           \/ \E k \in Key : InsertKey(t, k)
  <2>1. PICK at \in {"insert", "mark", "list", "uncache"} : Goto(t, at)
    BY <1>4 DEF SupersedeKeys, RevokeKey, RevokeSessions, InsertKey
  <2> QED
    BY <1>0, <2>1, HoldsNothing DEF Goto, TaskState
<1> QED
  BY <1>1, <1>2, <1>3, <1>4 DEF Credentials

LEMMA SessionsHoldNothing ==
    ASSUME IInv, NEW t \in Task, Sessions(t), NEW x \in Token, Rotated(x)
    PROVE  \A u \in Task : ~Holds(u, x)'
<1>0. /\ task[t] \in TaskState /\ CarriesOK(task[t])
      /\ \A n \in Session : tokenOf[n] # x
  BY DEF IInv, TInv, Rotated
<1>1. CASE FindSession(t)
  <2>1. ASSUME NEW n \in Candidates(t), Accepts(n, task[t].token), NEW at,
               Become(t, [task[t] EXCEPT !.session = n, !.at = at])
        PROVE  \A u \in Task : ~Holds(u, x)'
    <3>1. n \in Session
      BY <1>0, <1>1 DEF Candidates, TaskState
    <3>2. task[t].token # x
      BY <1>0, <2>1, <3>1 DEF Accepts
    <3> QED
      BY <1>0, <2>1, <3>2, HoldsNothing DEF TaskState
  <2>2. ASSUME Done(t)
        PROVE  \A u \in Task : ~Holds(u, x)'
    BY <2>2, IdleFacts, HoldsNothing DEF Done
  <2> QED
    BY <1>1, <2>1, <2>2 DEF FindSession, FoundId
<1>2. ASSUME NEW y \in Token, Logout(t, y)
      PROVE  \A u \in Task : ~Holds(u, x)'
  <2>1. PICK n \in Session :
            /\ tokenOf[n] = y
            /\ Become(t, [Idle EXCEPT !.op = "logout", !.at = "expire", !.token = y, !.session = n])
    BY <1>2 DEF Logout
  <2> QED
    BY <1>0, <2>1, HoldsNothing DEF Idle
<1>3. CASE (\E k \in Key : Exchange(t, k)) \/ \E y \in Token : Refresh(t, y)
  <2>1. \/ \E k \in Key :
              Become(t, [Idle EXCEPT !.op = "exchange", !.at = "insert", !.key = k])
        \/ \E y, n : Become(t, [Idle EXCEPT !.op = "refresh", !.at = "find", !.token = y,
                                   !.session = n])
    BY <1>3 DEF Exchange, Refresh
  <2> QED
    BY <2>1, HoldsNothing DEF Idle
<1>4. CASE \/ \E n \in Session, y \in Token : InsertSession(t, n, y)
           \/ \E y \in Token : RotateToken(t, y)
           \/ LogoutSession(t)
           \/ UncacheToken(t) /\ task[t].op = "refresh"
  <2>1. \/ \E n, y : Become(t, [task[t] EXCEPT !.at = "cache", !.session = n, !.fresh = y])
        \/ \E y : Become(t, [task[t] EXCEPT !.at = "uncache", !.fresh = y])
        \/ \E at \in {"cache", "uncache"} : Become(t, [task[t] EXCEPT !.at = at])
    BY <1>4 DEF InsertSession, RotateToken, LogoutSession, UncacheToken, Goto
  <2> QED
    BY <1>0, <2>1, HoldsNothing DEF TaskState
<1>5. CASE CacheToken(t) \/ ExpireSession(t) \/ (UncacheToken(t) /\ task[t].op # "refresh")
  BY <1>5, IdleFacts, HoldsNothing DEF CacheToken, ExpireSession, UncacheToken, Done
<1> QED
  BY <1>1, <1>2, <1>3, <1>4, <1>5 DEF Sessions

\* A refresh token that was rotated out is dead for good: only the refreshes
\* that had it accepted before may still write.
THEOREM RotatedStaysDead == Spec => RotatedIsDead
<1>1. ASSUME IInv, [Next]_vars, NEW x \in Token, Rotated(x)
      PROVE  Rotated(x)'
  <2>1. x \in issued' /\ \A n \in Session : tokenOf'[n] # x
    BY <1>1, TokenStaysOut DEF Rotated
  <2>2. \A u \in Task : ~Holds(u, x)'
    <3>1. ASSUME NEW t \in Task, Credentials(t) \/ Sessions(t)
          PROVE  \A u \in Task : ~Holds(u, x)'
      BY <1>1, <3>1, CredentialsHoldNothing, SessionsHoldNothing
    <3>2. ASSUME Environment \/ UNCHANGED vars
          PROVE  \A u \in Task : ~Holds(u, x)'
      <4>1. ASSUME NEW u \in Task PROVE task'[u] = task[u] \/ task'[u] = Idle
        BY <1>1, <3>2 DEF Environment, ActivationOverdue, SessionLapses, EntryExpires, DbError,
              Done, Become, Crash, IInv, TInv, vars
      <4> QED
        BY <1>1, <4>1, IdleFacts DEF Rotated, Holds
    <3> QED
      BY <1>1, <3>1, <3>2 DEF Next
  <2> QED
    BY <2>1, <2>2 DEF Rotated, Holds
<1>2. IInv /\ [Next]_vars => [\A x \in Token : Rotated(x) => Rotated(x)']_vars
  BY <1>1
<1> QED
  BY <1>2, Invariance, PTL DEF Spec, RotatedIsDead
-----------------------------------------------------------------------------
(* The credentials implement their contract: each step of a handler, of    *)
(* time or of a failure is one step of CredentialContract or a stutter.    *)

\* A handler works on a key and on a session that exist.
Founded(s) ==
    /\ s.op \in {"exchange", "revoke"} => key[s.key] # "absent"
    /\ s.at \in {"rotate", "expire"} /\ s.op # "revoke" =>
          s.session \in Session /\ session[s.session] # "absent"

FoundInv == \A t \in Task : Founded(task[t])


AcceptedNow ==
    {<<task[t].session, task[t].token>> : t \in {u \in Task : task[u].at = "rotate"}}

\* No key or session that exists is forgotten.
Kept ==
    /\ \A k \in Key : key[k] # "absent" => key'[k] # "absent"
    /\ \A n \in Session : session[n] # "absent" => session'[n] # "absent"

LEMMA FoundFrame ==
    ASSUME FoundInv, Kept, TInv,
           \A u \in Task : task'[u] = task[u] \/ Founded(task[u])'
    PROVE  FoundInv'
<1> SUFFICES ASSUME NEW u \in Task, task'[u] = task[u] PROVE Founded(task[u])'
  BY DEF FoundInv
<1>1. Founded(task[u]) /\ (task[u].op \in {"exchange", "revoke"} => task[u].key \in Key)
  BY DEF FoundInv, TInv, CarriesOK
<1> QED
  BY <1>1 DEF Founded, Kept

\* What the contract sees of a step that leaves what it keeps alone.
LEMMA StutterMaps ==
    ASSUME UNCHANGED <<key, session, keyOf, tokenOf, issued>>,
           UNCHANGED AcceptedNow
    PROVE  UNCHANGED Contract!vars
BY DEF Contract!vars, AcceptedNow

\* A handler that neither was nor is about to replace a token.
LEMMA AcceptedFrame ==
    ASSUME NEW t \in Task, NEW s, Becomes(t, s), task[t].at # "rotate", s.at # "rotate"
    PROVE  UNCHANGED AcceptedNow
<1>1. \A u \in Task : (task'[u].at = "rotate" <=> task[u].at = "rotate")
                      /\ (task[u].at = "rotate" => task'[u] = task[u])
  BY DEF Becomes
<1> QED
  BY <1>1 DEF AcceptedNow

LEMMA QuietMaps ==
    ASSUME TInv, FoundInv, NEW t \in Task, NEW s, Becomes(t, s), Founded(s),
           UNCHANGED <<key, session, keyOf, tokenOf, issued>>,
           task[t].at # "rotate", s.at # "rotate"
    PROVE  UNCHANGED Contract!vars /\ FoundInv'
<1>1. UNCHANGED Contract!vars
  BY AcceptedFrame, StutterMaps
<1>2. Founded(task[t])'
  BY DEF Becomes, Founded
<1>3. FoundInv'
  BY <1>2, FoundFrame DEF Kept, Becomes
<1> QED
  BY <1>1, <1>3

\* Handlers that begin, that end, and that wait for Redis or for the keys.
LEMMA BeginMaps ==
    ASSUME IInv, FoundInv, NEW t \in Task,
           \/ RequestActivation(t)
           \/ \E a \in Activation : Approve(t, a)
           \/ \E k \in Key : Exchange(t, k) \/ Revoke(t, k)
           \/ \E x \in Token : Refresh(t, x) \/ Logout(t, x)
    PROVE  UNCHANGED Contract!vars /\ FoundInv'
<1>0. task[t].at = "idle" /\ UNCHANGED <<key, session, keyOf, tokenOf, issued>>
  BY DEF RequestActivation, Approve, Exchange, Revoke, Refresh, Logout, keys, sessions
<1>1. ASSUME NEW s \in TaskState, CarriesOK(s), Founded(s), s.at # "rotate", Become(t, s)
      PROVE  UNCHANGED Contract!vars /\ FoundInv'
  BY <1>0, <1>1, BecomeBecomes, QuietMaps DEF IInv
<1>2. CASE RequestActivation(t)
  <2> DEFINE s == [Idle EXCEPT !.op = "request", !.at = "create"]
  <2>1. s \in TaskState /\ CarriesOK(s) /\ Founded(s) /\ s.at # "rotate"
    BY DEF Idle, TaskState, CarriesOK, Founded, Op, Stage
  <2>2. Become(t, s)
    BY <1>2 DEF RequestActivation
  <2> HIDE DEF s
  <2> QED
    BY <1>1, <2>1, <2>2
<1>3. ASSUME NEW a \in Activation, Approve(t, a)
      PROVE  UNCHANGED Contract!vars /\ FoundInv'
  <2> DEFINE s == [Idle EXCEPT !.op = "approve", !.at = "supersede", !.activation = a]
  <2>1. s \in TaskState /\ CarriesOK(s) /\ Founded(s) /\ s.at # "rotate"
    BY DEF Idle, TaskState, CarriesOK, Founded, Op, Stage
  <2>2. Become(t, s)
    BY <1>3 DEF Approve
  <2> HIDE DEF s
  <2> QED
    BY <1>1, <2>1, <2>2
<1>4. ASSUME NEW k \in Key, Exchange(t, k)
      PROVE  UNCHANGED Contract!vars /\ FoundInv'
  <2> DEFINE s == [Idle EXCEPT !.op = "exchange", !.at = "insert", !.key = k]
  <2>1. s \in TaskState /\ CarriesOK(s) /\ Founded(s) /\ s.at # "rotate"
    BY <1>4 DEF Exchange, Idle, TaskState, CarriesOK, Founded, Op, Stage
  <2>2. Become(t, s)
    BY <1>4 DEF Exchange
  <2> HIDE DEF s
  <2> QED
    BY <1>1, <2>1, <2>2
<1>5. ASSUME NEW k \in Key, Revoke(t, k)
      PROVE  UNCHANGED Contract!vars /\ FoundInv'
  <2> DEFINE s == [Idle EXCEPT !.op = "revoke", !.at = "mark", !.key = k]
  <2>1. s \in TaskState /\ CarriesOK(s) /\ Founded(s) /\ s.at # "rotate"
    BY <1>5 DEF Revoke, Idle, TaskState, CarriesOK, Founded, Op, Stage
  <2>2. Become(t, s)
    BY <1>5 DEF Revoke
  <2> HIDE DEF s
  <2> QED
    BY <1>1, <2>1, <2>2
<1>6. ASSUME NEW x \in Token, Refresh(t, x)
      PROVE  UNCHANGED Contract!vars /\ FoundInv'
  <2>1. PICK n \in {cached[x], None} :
            Become(t, [Idle EXCEPT !.op = "refresh", !.at = "find", !.token = x, !.session = n])
    BY <1>6 DEF Refresh
  <2> DEFINE s == [Idle EXCEPT !.op = "refresh", !.at = "find", !.token = x, !.session = n]
  <2>2. n \in Session \cup {None}
    BY DEF IInv, TInv, Typed
  <2>3. s \in TaskState /\ CarriesOK(s) /\ Founded(s) /\ s.at # "rotate"
    BY <2>2 DEF Idle, TaskState, CarriesOK, Founded, Op, Stage
  <2>4. Become(t, s)
    BY <2>1
  <2> HIDE DEF s
  <2> QED
    BY <1>1, <2>3, <2>4
<1>7. ASSUME NEW x \in Token, Logout(t, x)
      PROVE  UNCHANGED Contract!vars /\ FoundInv'
  <2>1. PICK n \in Session :
            /\ session[n] = "live"
            /\ Become(t, [Idle EXCEPT !.op = "logout", !.at = "expire", !.token = x, !.session = n])
    BY <1>7 DEF Logout
  <2> DEFINE s == [Idle EXCEPT !.op = "logout", !.at = "expire", !.token = x, !.session = n]
  <2>2. s \in TaskState /\ CarriesOK(s) /\ Founded(s) /\ s.at # "rotate"
    BY <2>1 DEF Idle, TaskState, CarriesOK, Founded, Op, Stage
  <2>3. Become(t, s)
    BY <2>1
  <2> HIDE DEF s
  <2> QED
    BY <1>1, <2>2, <2>3
<1> QED
  BY <1>2, <1>3, <1>4, <1>5, <1>6, <1>7

LEMMA EndMaps ==
    ASSUME IInv, FoundInv, NEW t \in Task,
           \/ \E a \in Activation : CreateActivation(t, a)
           \/ MarkApproved(t) \/ ListSessions(t) \/ UncacheListed(t)
           \/ CacheToken(t) \/ UncacheToken(t)
    PROVE  UNCHANGED Contract!vars /\ FoundInv'
<1>0. /\ task[t].at # "rotate" /\ UNCHANGED <<key, session, keyOf, tokenOf, issued>>
      /\ task[t] \in TaskState /\ CarriesOK(task[t]) /\ Founded(task[t])
  BY DEF CreateActivation, MarkApproved, ListSessions, UncacheListed, CacheToken, UncacheToken,
         Waiting, keys, sessions, IInv, TInv, FoundInv
<1>1. CASE Done(t)
  <2>1. Founded(Idle) /\ Idle.at # "rotate"
    BY IdleFacts DEF Founded
  <2> QED
    BY <1>0, <1>1, <2>1, DoneBecomes, QuietMaps DEF IInv
<1>2. CASE ListSessions(t)
  <2> DEFINE tokens == {tokenOf[n] : n \in LiveSessions(task[t].key)}
             s == [task[t] EXCEPT !.at = "expire", !.listed = tokens]
  <2>1. Waiting(t, "revoke", "list") /\ Become(t, s)
    BY <1>2 DEF ListSessions
  <2>2. tokens \in SUBSET Token
    BY DEF LiveSessions, IInv, TInv, Typed
  <2> HIDE DEF tokens
  <2>3. s \in TaskState /\ CarriesOK(s) /\ Founded(s) /\ s.at # "rotate"
    BY <1>0, <2>1, <2>2 DEF TaskState, CarriesOK, Founded, Stage, Waiting
  <2> HIDE DEF s
  <2> QED
    BY <1>0, <2>1, <2>3, BecomeBecomes, QuietMaps DEF IInv
<1>3. CASE UncacheToken(t) /\ task[t].op = "refresh"
  <2> DEFINE s == [task[t] EXCEPT !.at = "cache"]
  <2>1. task[t].at = "uncache" /\ Become(t, s)
    BY <1>3 DEF UncacheToken, Goto
  <2>2. s \in TaskState /\ CarriesOK(s) /\ Founded(s) /\ s.at # "rotate"
    BY <1>0, <1>3, <2>1 DEF TaskState, CarriesOK, Founded, Stage
  <2> HIDE DEF s
  <2> QED
    BY <1>0, <2>1, <2>2, BecomeBecomes, QuietMaps DEF IInv
<1> QED
  BY <1>1, <1>2, <1>3 DEF CreateActivation, MarkApproved, UncacheListed, CacheToken, UncacheToken

\* The statements on keys.
LEMMA KeysMap ==
    ASSUME IInv, FoundInv, NEW t \in Task,
           SupersedeKeys(t) \/ RevokeKey(t) \/ \E k \in Key : InsertKey(t, k)
    PROVE  Contract!Next /\ FoundInv'
<1>0. /\ UNCHANGED <<session, keyOf, tokenOf, issued>>
      /\ key \in [Key -> {"absent", "active", "revoked"}]
      /\ Founded(task[t])
  BY DEF SupersedeKeys, RevokeKey, InsertKey, sessions, IInv, TInv, Typed, FoundInv
<1>1. PICK at \in {"insert", "mark", "list"} :
          Goto(t, at) /\ task[t].at # "rotate" /\ task[t].op \in {"approve", "revoke"}
  BY DEF SupersedeKeys, RevokeKey, InsertKey, Waiting
<1>2. PICK s \in TaskState : /\ Becomes(t, s) /\ s.op = task[t].op /\ s.at = at
                             /\ s.key = task[t].key
  BY <1>1, GotoBecomes DEF IInv, Stage
<1>3. UNCHANGED AcceptedNow
  BY <1>1, <1>2, AcceptedFrame
<1>4. ASSUME Kept PROVE FoundInv'
  <2>1. task'[t] = s /\ (s.op = "revoke" => s.key \in Key)
    BY <1>1, <1>2 DEF Becomes, IInv, TInv, CarriesOK
  <2>2. Founded(task[t])'
    BY <1>0, <1>1, <1>2, <1>4, <2>1 DEF Founded, Kept
  <2> QED
    BY <1>2, <1>4, <2>2, FoundFrame DEF Becomes, IInv
<1>5. CASE SupersedeKeys(t)
  <2>0. PICK K \in SUBSET Key : K = {k \in Key : key[k] = "active"}
    OBVIOUS
  <2>1. Kept
    BY <1>0, <1>5 DEF SupersedeKeys, Superseded, Kept
  <2>2. key' = [k \in Key |-> IF k \in K THEN "revoked" ELSE key[k]]
    BY <1>5, <2>0 DEF SupersedeKeys, Superseded
  <2>3. \A k \in K : key[k] # "absent"
    BY <2>0
  <2>4. Contract!RevokeKeys(K)
    BY <1>0, <1>3, <2>2, <2>3 DEF Contract!RevokeKeys, AcceptedNow
  <2> QED
    BY <1>4, <2>1, <2>4 DEF Contract!Next
<1>6. CASE RevokeKey(t)
  <2>1. PICK k \in Key : k = task[t].key
    BY <1>6 DEF RevokeKey, IInv, TInv, CarriesOK, Waiting
  <2>2. key[k] # "absent" /\ key' = [key EXCEPT ![k] = "revoked"]
    BY <1>0, <1>6, <2>1 DEF RevokeKey, Waiting, Founded
  <2>3. Kept
    BY <1>0, <2>2 DEF Kept
  <2>4. key' = [j \in Key |-> IF j \in {k} THEN "revoked" ELSE key[j]]
    BY <1>0, <2>2
  <2>5. key[k] # "absent"
    BY <2>2
  <2>6. Contract!RevokeKeys({k})
    BY <1>0, <1>3, <2>4, <2>5 DEF Contract!RevokeKeys, AcceptedNow
  <2> QED
    BY <1>4, <2>3, <2>6 DEF Contract!Next
<1>7. ASSUME NEW k \in Key, InsertKey(t, k)
      PROVE  Contract!Next /\ FoundInv'
  <2>1. key[k] = "absent" /\ key' = [key EXCEPT ![k] = "active"]
    BY <1>7 DEF InsertKey
  <2>2. Kept
    BY <1>0, <2>1 DEF Kept
  <2>3. key[k] = "absent" /\ key' = [key EXCEPT ![k] = "active"]
    BY <1>0, <2>1
  <2>4. Contract!IssueKey(k)
    BY <1>0, <1>3, <2>3 DEF Contract!IssueKey, AcceptedNow
  <2> QED
    BY <1>4, <2>2, <2>4 DEF Contract!Next
<1> QED
  BY <1>5, <1>6, <1>7

LEMMA InsertSessionMaps ==
    ASSUME IInv, FoundInv, NEW t \in Task, NEW n \in Session, NEW x \in Token,
           InsertSession(t, n, x)
    PROVE  Contract!Next /\ FoundInv'
<1> DEFINE s == [task[t] EXCEPT !.at = "cache", !.session = n, !.fresh = x]
<1>1. /\ Waiting(t, "exchange", "insert") /\ session[n] = "absent" /\ x \notin issued
      /\ session' = [session EXCEPT ![n] = "live"]
      /\ keyOf' = [keyOf EXCEPT ![n] = task[t].key]
      /\ tokenOf' = [tokenOf EXCEPT ![n] = x]
      /\ issued' = issued \cup {x}
      /\ Become(t, s) /\ key' = key
  BY DEF InsertSession, keys
<1>2. /\ task[t] \in TaskState /\ CarriesOK(task[t]) /\ task[t].key \in Key
      /\ key[task[t].key] # "absent" /\ session \in [Session -> {"absent", "live", "revoked"}]
  BY <1>1 DEF IInv, TInv, Typed, CarriesOK, Waiting, FoundInv, Founded
<1>3. s \in TaskState /\ CarriesOK(s) /\ s.op = "exchange" /\ s.at = "cache" /\ s.key = task[t].key
  BY <1>1, <1>2 DEF TaskState, CarriesOK, Stage, Waiting
<1> HIDE DEF s
<1>4. Becomes(t, s)
  BY <1>1, <1>3, BecomeBecomes DEF IInv
<1>5. UNCHANGED AcceptedNow
  BY <1>1, <1>3, <1>4, AcceptedFrame DEF Waiting
<1>6. Kept
  BY <1>1, <1>2 DEF Kept
<1>7. Founded(task[t])'
  BY <1>1, <1>2, <1>3, <1>4 DEF Becomes, Founded
<1>8. FoundInv'
  BY <1>4, <1>6, <1>7, FoundFrame DEF Becomes, IInv
<1>9. key' = key /\ key[task[t].key] # "absent"
  BY <1>1, <1>2
<1>10. Contract!Open(n, task[t].key, x)
  BY <1>1, <1>5, <1>9 DEF Contract!Open, AcceptedNow
<1> QED
  BY <1>2, <1>8, <1>10 DEF Contract!Next

LEMMA FindMaps ==
    ASSUME IInv, FoundInv, NEW t \in Task, FindSession(t)
    PROVE  [Contract!Next]_Contract!vars /\ FoundInv'
<1>0. /\ Waiting(t, "refresh", "find") /\ UNCHANGED <<key, session, keyOf, tokenOf, issued>>
      /\ task[t] \in TaskState /\ CarriesOK(task[t]) /\ Founded(task[t])
  BY DEF FindSession, keys, sessions, IInv, TInv, FoundInv
<1>1. CASE Done(t)
  <2>1. Founded(Idle) /\ Idle.at # "rotate"
    BY IdleFacts DEF Founded
  <2> QED
    BY <1>0, <1>1, <2>1, DoneBecomes, QuietMaps DEF IInv, Waiting
<1>2. ASSUME NEW n \in Candidates(t), Accepts(n, task[t].token),
             Become(t, [task[t] EXCEPT !.session = n,
                           !.at = IF n \in lapsed THEN "expire" ELSE "rotate"])
      PROVE  [Contract!Next]_Contract!vars /\ FoundInv'
  <2> DEFINE s == [task[t] EXCEPT !.session = n,
                      !.at = IF n \in lapsed THEN "expire" ELSE "rotate"]
  <2>1. n \in Session /\ session[n] = "live" /\ tokenOf[n] = task[t].token
    BY <1>0, <1>2 DEF Candidates, TaskState, Accepts
  <2>2. /\ s \in TaskState /\ CarriesOK(s) /\ Founded(s)
        /\ s.at = (IF n \in lapsed THEN "expire" ELSE "rotate")
        /\ s.session = n /\ s.token = task[t].token
    BY <1>0, <2>1 DEF TaskState, CarriesOK, Founded, Stage, Waiting
  <2>3. Become(t, s)
    BY <1>2
  <2> HIDE DEF s
  <2>4. Becomes(t, s)
    BY <2>2, <2>3, BecomeBecomes DEF IInv
  <2>5. CASE n \in lapsed
    BY <1>0, <2>2, <2>4, <2>5, QuietMaps DEF IInv, Waiting
  <2>6. CASE n \notin lapsed
    <3>1. Founded(task[t])'
      BY <1>0, <2>2, <2>4 DEF Becomes, Founded
    <3>2. FoundInv'
      BY <1>0, <2>4, <3>1, FoundFrame DEF Becomes, Kept, IInv
    <3>3. AcceptedNow' = AcceptedNow \cup {<<n, tokenOf[n]>>}
      <4>1. \A u \in Task \ {t} : task'[u] = task[u]
        BY <2>4 DEF Becomes
      <4>2. task'[t].at = "rotate" /\ task'[t].session = n /\ task'[t].token = tokenOf[n]
            /\ task[t].at # "rotate"
        BY <1>0, <2>1, <2>2, <2>4, <2>6 DEF Becomes, Waiting
      <4> QED
        BY <4>1, <4>2 DEF AcceptedNow
    <3>4. Contract!Accept(n)
      BY <1>0, <2>1, <3>3 DEF Contract!Accept, AcceptedNow
    <3> QED
      BY <2>1, <3>2, <3>4 DEF Contract!Next
  <2> QED
    BY <2>5, <2>6
<1> QED
  BY <1>1, <1>2 DEF FindSession, FoundId

LEMMA RotateMaps ==
    ASSUME IInv, FoundInv, NEW t \in Task, NEW y \in Token, RotateToken(t, y)
    PROVE  Contract!Next /\ FoundInv'
<1> DEFINE s == [task[t] EXCEPT !.at = "uncache", !.fresh = y]
           n == task[t].session
           x == task[t].token
<1>1. /\ Waiting(t, "refresh", "rotate") /\ y \notin issued /\ Become(t, s)
      /\ session' = session /\ tokenOf' = [tokenOf EXCEPT ![n] = y]
      /\ issued' = issued \cup {y} /\ UNCHANGED <<key, keyOf>>
  BY DEF RotateToken, AfterRotation, keys
<1>2. /\ task[t] \in TaskState /\ CarriesOK(task[t]) /\ Founded(task[t])
      /\ n \in Session /\ x \in Token
  BY <1>1 DEF IInv, TInv, CarriesOK, Waiting, FoundInv
<1>3. s \in TaskState /\ CarriesOK(s) /\ Founded(s) /\ s.op = "refresh" /\ s.at = "uncache"
  BY <1>1, <1>2 DEF TaskState, CarriesOK, Founded, Stage, Waiting
<1> HIDE DEF s
<1>4. Becomes(t, s)
  BY <1>1, <1>3, BecomeBecomes DEF IInv
<1>5. Founded(task[t])'
  BY <1>3, <1>4 DEF Becomes, Founded
<1>6. FoundInv'
  BY <1>1, <1>4, <1>5, FoundFrame DEF Becomes, Kept, IInv
<1>7. <<n, x>> \in AcceptedNow
  BY <1>1 DEF AcceptedNow, Waiting
<1>8. AcceptedNow' \in {AcceptedNow, AcceptedNow \ {<<n, x>>}}
  <2>1. AcceptedNow' = {<<task[u].session, task[u].token>> :
                            u \in {v \in Task \ {t} : task[v].at = "rotate"}}
    <3>1. \A u \in Task \ {t} : task'[u] = task[u]
      BY <1>4 DEF Becomes
    <3>2. task'[t].at # "rotate"
      BY <1>3, <1>4 DEF Becomes
    <3> QED
      BY <3>1, <3>2 DEF AcceptedNow
  <2>2. AcceptedNow = AcceptedNow' \cup {<<n, x>>}
    BY <1>1, <2>1 DEF AcceptedNow, Waiting
  <2> QED
    BY <2>2
<1>9. Contract!Replace(n, x, y)
  BY <1>1, <1>7, <1>8 DEF Contract!Replace, AcceptedNow
<1> QED
  BY <1>2, <1>6, <1>9 DEF Contract!Next

\* The statements that revoke sessions.
LEMMA SessionsMap ==
    ASSUME IInv, FoundInv, NEW t \in Task,
           ExpireSession(t) \/ LogoutSession(t) \/ RevokeSessions(t)
    PROVE  Contract!Next /\ FoundInv'
<1>0. /\ UNCHANGED <<key, keyOf, tokenOf, issued>> /\ task[t].at = "expire"
      /\ session \in [Session -> {"absent", "live", "revoked"}]
      /\ Founded(task[t])
  BY DEF ExpireSession, LogoutSession, RevokeSessions, keys, Waiting, IInv, TInv, Typed, FoundInv
<1>1. PICK N \in SUBSET Session :
          /\ \A n \in N : session[n] # "absent"
          /\ session' = [n \in Session |-> IF n \in N THEN "revoked" ELSE session[n]]
  <2>1. CASE ExpireSession(t) \/ LogoutSession(t)
    <3>1. /\ task[t].session \in Session /\ session[task[t].session] # "absent"
          /\ session' = [session EXCEPT ![task[t].session] = "revoked"]
      BY <1>0, <2>1 DEF ExpireSession, LogoutSession, Waiting, Founded
    <3> DEFINE N == {task[t].session}
    <3>2. N \in SUBSET Session /\ \A n \in N : session[n] # "absent"
      BY <3>1
    <3>3. session' = [n \in Session |-> IF n \in N THEN "revoked" ELSE session[n]]
      BY <1>0, <3>1
    <3> HIDE DEF N
    <3> QED
      BY <3>2, <3>3
  <2>2. CASE RevokeSessions(t)
    <3>1. session' = [n \in Session |-> IF n \in RevokedWith(task[t].key)
                                        THEN "revoked" ELSE session[n]]
      BY <2>2 DEF RevokeSessions
    <3> QED
      BY <3>1 DEF RevokedWith, LiveSessions
  <2> QED
    BY <2>1, <2>2
<1>2. PICK s \in TaskState :
          /\ Becomes(t, s)
          /\ \/ s = Idle
             \/ s.at = "uncache" /\ s.op = task[t].op /\ s.key = task[t].key
  <2>1. CASE Done(t)
    BY <2>1, IdleFacts, DoneBecomes DEF IInv
  <2>2. CASE Goto(t, "uncache") /\ task[t].op \in {"logout", "revoke"}
    <3> DEFINE s == [task[t] EXCEPT !.at = "uncache"]
    <3>1. task[t] \in TaskState /\ CarriesOK(task[t])
      BY DEF IInv, TInv
    <3>2. /\ s \in TaskState /\ CarriesOK(s) /\ s.at = "uncache"
          /\ s.op = task[t].op /\ s.key = task[t].key
      BY <2>2, <3>1 DEF TaskState, CarriesOK, Stage
    <3>3. Become(t, s)
      BY <2>2 DEF Goto
    <3> HIDE DEF s
    <3>4. Becomes(t, s)
      BY <3>2, <3>3, BecomeBecomes DEF IInv
    <3> QED
      BY <3>2, <3>4
  <2> QED
    BY <2>1, <2>2 DEF ExpireSession, LogoutSession, RevokeSessions, Waiting
<1>3. s.at # "rotate" /\ Becomes(t, s)
  BY <1>2, IdleFacts
<1>4. UNCHANGED AcceptedNow
  BY <1>0, <1>3, AcceptedFrame
<1>5. FoundInv'
  <2>1. Kept
    BY <1>0, <1>1 DEF Kept
  <2>2. Founded(task[t])'
    BY <1>0, <1>2, IdleFacts DEF Becomes, Founded
  <2> QED
    BY <1>3, <2>1, <2>2, FoundFrame DEF Becomes, IInv
<1>6. Contract!RevokeSessions(N)
  BY <1>0, <1>1, <1>4 DEF Contract!RevokeSessions, AcceptedNow
<1> QED
  BY <1>5, <1>6 DEF Contract!Next

\* Time passes for the rows, or handlers end where they are.
LEMMA EnvironmentMaps ==
    ASSUME IInv, FoundInv, Environment \/ UNCHANGED vars
    PROVE  [Contract!Next]_Contract!vars /\ FoundInv'
<1>0. UNCHANGED <<key, session, keyOf, tokenOf, issued>>
  BY DEF Environment, ActivationOverdue, SessionLapses, EntryExpires, DbError, Crash,
         keys, sessions, vars
<1>1. \A u \in Task : task'[u] = task[u] \/ task'[u] = Idle
  BY DEF Environment, ActivationOverdue, SessionLapses, EntryExpires, DbError, Done, Become,
         Crash, IInv, TInv, vars
<1>2. FoundInv'
  <2>1. \A u \in Task : task'[u] = task[u] \/ Founded(task[u])'
    BY <1>1, IdleFacts DEF Founded
  <2> QED
    BY <1>0, <2>1, FoundFrame DEF Kept, IInv
<1>3. AcceptedNow' \subseteq AcceptedNow
  <2>1. \A u \in Task : task'[u].at = "rotate" => task'[u] = task[u]
    BY <1>1, IdleFacts
  <2> QED
    BY <2>1 DEF AcceptedNow
<1>4. PICK lost \in SUBSET AcceptedNow : AcceptedNow' = AcceptedNow \ lost
  <2>1. AcceptedNow' = AcceptedNow \ (AcceptedNow \ AcceptedNow')
    BY <1>3
  <2> QED
    BY <2>1
<1>5. Contract!GiveUp(lost)
  BY <1>0, <1>4 DEF Contract!GiveUp, AcceptedNow
<1> QED
  BY <1>2, <1>4, <1>5 DEF Contract!Next, AcceptedNow

LEMMA ContractStep ==
    IInv /\ FoundInv /\ [Next]_vars => [Contract!Next]_Contract!vars /\ FoundInv'
<1> SUFFICES ASSUME IInv, FoundInv, [Next]_vars
             PROVE  [Contract!Next]_Contract!vars /\ FoundInv'
  OBVIOUS
<1>1. ASSUME NEW t \in Task, Credentials(t)
      PROVE  [Contract!Next]_Contract!vars /\ FoundInv'
  BY <1>1, BeginMaps, EndMaps, KeysMap, SessionsMap DEF Credentials
<1>2. ASSUME NEW t \in Task, Sessions(t)
      PROVE  [Contract!Next]_Contract!vars /\ FoundInv'
  BY <1>2, BeginMaps, EndMaps, InsertSessionMaps, FindMaps, RotateMaps, SessionsMap DEF Sessions
<1> QED
  BY <1>1, <1>2, EnvironmentMaps DEF Next

\* Whatever auth.service.ts is doing and whatever Redis remembers, a device's
\* credentials keep their contract: what was revoked stays so, a session
\* belongs to the key it was opened with, and a refresh token buys the next one
\* only if it was the token of a live session when it was presented.
THEOREM ImplementsContract == Spec => ContractSpec
<1>1. Init => Contract!Init /\ FoundInv
  <2> SUFFICES ASSUME Init PROVE Contract!Init /\ FoundInv
    OBVIOUS
  <2>1. \A t \in Task : task[t] = Idle
    BY DEF Init
  <2>2. FoundInv
    BY <2>1, IdleFacts DEF FoundInv, Founded
  <2>3. {<<task[t].session, task[t].token>> : t \in {u \in Task : task[u].at = "rotate"}} = {}
    BY <2>1, IdleFacts
  <2> QED
    BY <2>2, <2>3 DEF Init, Contract!Init
<1> QED
  BY <1>1, ContractStep, Invariance, PTL DEF Spec, ContractSpec, Contract!Spec
=============================================================================
