------------------------ MODULE DeviceActivationProofs ------------------------
(***************************************************************************)
(* Proofs about DeviceActivation, for any number of requests, cached       *)
(* lists, readers, handlers and failures.                                  *)
(*                                                                         *)
(* Every step is a step of DeviceAuth or leaves its state alone, so the    *)
(* theorems of DeviceAuthProofs hold here too.  The freshness of a list    *)
(* needs two facts beside itself: a reader's list is what is pending       *)
(* unless a request changed since (ReadersFresh), and a handler cleans the *)
(* cache only after its last write (Apart), so that the lists it has yet   *)
(* to delete are always its own.                                           *)
(***************************************************************************)
EXTENDS DeviceActivation, DeviceAuthProofs

\* The module's own variables have their types.
ListTypes ==
    /\ outer \in [Task -> {"idle", "register", "scan", "del"}]
    /\ scan \in [Task -> SUBSET View]
    /\ found \in [Task -> SUBSET View]
    /\ list \in [View -> {NoList} \cup {List(as) : as \in SUBSET Activation}]
    /\ reader \in [Reader -> [at : {"idle", "read", "store"},
                             view : View \cup {None},
                             requests : SUBSET Activation, late : BOOLEAN]]
    /\ excused \subseteq Cached(View)
    /\ admins \in Nat
    /\ raced \in BOOLEAN

\* A handler is in DeviceAuth's steps or beside them, never both, and has keys
\* to delete only while it deletes them.
Apart ==
    \A t \in Task : /\ outer[t] # "idle" => task[t].at = "idle"
                    /\ outer[t] # "del" => found[t] = {}

\* A reader has a list to fill, and one that no change of the requests
\* overtook holds what is pending.
ReadersFresh ==
    \A r \in Reader :
        /\ reader[r].at # "idle" => reader[r].view \in View
        /\ reader[r].at = "store" /\ ~reader[r].late =>
              reader[r].requests \ overdue = Pending

\* Bootstraps that do not overlap see that no administrator exists.
OneByOneAdmin ==
    ~raced =>
        /\ \A t, u \in Task : outer[t] = "register" /\ outer[u] = "register" => t = u
        /\ \A t \in Task : outer[t] = "register" => admins = 0
        /\ admins <= 1

AInv == ListTypes /\ Apart /\ ReadersFresh /\ PendingListIsFresh /\ OneByOneAdmin

-----------------------------------------------------------------------------
(* DeviceActivation runs DeviceAuth.                                       *)

LEMMA StepOfAuth == [ActivationNext]_activationVars => [Next]_vars
<1> SUFFICES ASSUME [ActivationNext]_activationVars
             PROVE  Next \/ UNCHANGED vars
  OBVIOUS
<1>1. ASSUME NEW t \in Task,
             \/ RequestByClient(t) \/ KeyStep(t) \/ LastWrite(t)
             \/ \E a \in Activation : ApproveByAdmin(t, a)
      PROVE  Next
  <2>1. Credentials(t)
    BY <1>1 DEF RequestByClient, ApproveByAdmin, KeyStep, LastWrite, Credentials
  <2> QED
    BY <2>1 DEF Next
<1>2. ASSUME NEW t \in Task,
             ScanBatch(t) \/ DelBatch(t) \/ CleaningFails(t) \/ Register(t) \/ InsertAdmin(t)
      PROVE  UNCHANGED vars
  BY <1>2 DEF ScanBatch, DelBatch, CleaningFails, Register, InsertAdmin
<1>3. ASSUME NEW t \in Task, HandlerFails(t)
      PROVE  Next \/ UNCHANGED vars
  BY <1>3 DEF HandlerFails, Next, Environment
<1>4. ASSUME NEW r \in Reader,
             (\E v \in View : ListPending(r, v)) \/ FindPending(r) \/ StorePending(r)
      PROVE  UNCHANGED vars
  BY <1>4 DEF ListPending, FindPending, StorePending
<1>5. ASSUME NEW v \in View, ExpireList(v)
      PROVE  UNCHANGED vars
  BY <1>5 DEF ExpireList
<1>6. ASSUME Overdue \/ CrashAll
      PROVE  Next
  BY <1>6 DEF Overdue, CrashAll, Next, Environment
<1>7. ASSUME UNCHANGED activationVars
      PROVE  UNCHANGED vars
  BY <1>7 DEF activationVars
<1> QED
  BY <1>1, <1>2, <1>3, <1>4, <1>5, <1>6, <1>7 DEF ActivationNext

\* The activation list and the bootstrap add nothing to what DeviceAuth may do.
THEOREM RunsDeviceAuth == ActivationSpec => Spec
<1>1. ActivationInit => Init
  BY DEF ActivationInit
<1> QED
  BY <1>1, StepOfAuth, PTL DEF ActivationSpec, Spec

-----------------------------------------------------------------------------
(* What keeps each part of the invariant.                                  *)

\* The requests, the lists and the readers stay; a handler covers what it
\* covered or leaves it excused.
LEMMA FreshFrame ==
    ASSUME PendingListIsFresh, UNCHANGED <<activation, overdue, list>>, excused \subseteq excused',
           \A t \in Task : Cached(Covered(t)) \subseteq Covered(t)' \cup excused'
    PROVE  PendingListIsFresh'
BY DEF PendingListIsFresh, Pending, Cached

\* A handler that covers every list.
LEMMA AllCovered ==
    ASSUME NEW t \in Task, View \subseteq Covered(t)'
    PROVE  PendingListIsFresh'
BY DEF PendingListIsFresh

LEMMA ReadersFrame ==
    ASSUME ReadersFresh, UNCHANGED <<activation, overdue, reader>>
    PROVE  ReadersFresh'
BY DEF ReadersFresh, Pending

LEMMA OvertakenReaders ==
    ASSUME ListTypes, ReadersFresh, Overtaken, overdue' = overdue
    PROVE  /\ ReadersFresh'
           /\ reader' \in [Reader -> [at : {"idle", "read", "store"},
                                      view : View \cup {None},
                                      requests : SUBSET Activation, late : BOOLEAN]]
<1>1. \A r \in Reader :
         /\ reader[r] \in [at : {"idle", "read", "store"}, view : View \cup {None},
                           requests : SUBSET Activation, late : BOOLEAN]
         /\ reader'[r] = [reader[r] EXCEPT !.late = reader[r].late \/ (reader[r].at = "store"
                                                       /\ activation' # activation)]
  BY DEF ListTypes, Overtaken
<1>2. \A r \in Reader :
         /\ reader'[r].at = reader[r].at /\ reader'[r].view = reader[r].view
         /\ reader'[r].requests = reader[r].requests
         /\ reader'[r].late <=> (reader[r].late \/ (reader[r].at = "store"
                                                    /\ activation' # activation))
         /\ reader'[r] \in [at : {"idle", "read", "store"}, view : View \cup {None},
                            requests : SUBSET Activation, late : BOOLEAN]
  BY <1>1
<1>3. ReadersFresh'
  BY <1>2 DEF ReadersFresh, Pending
<1> QED
  BY <1>2, <1>3 DEF Overtaken

LEMMA AdminFrame ==
    ASSUME OneByOneAdmin, UNCHANGED bootstrap,
           \A t \in Task : outer'[t] = "register" => outer[t] = "register"
    PROVE  OneByOneAdmin'
BY DEF OneByOneAdmin, bootstrap

\* The slots other than t stay as they are.
Others(t) == \A u \in Task \ {t} : task'[u] = task[u]

LEMMA BecomeOthers ==
    ASSUME TypeOK, NEW t \in Task, NEW s, Become(t, s)
    PROVE  Others(t) /\ task'[t] = s
BY DEF Become, Others, TypeOK

LEMMA GotoFields ==
    ASSUME TypeOK, NEW t \in Task, NEW at, Goto(t, at)
    PROVE  Others(t) /\ task'[t].op = task[t].op /\ task'[t].at = at
<1>1. task[t] \in TaskState
  BY DEF TypeOK
<1>2. Others(t) /\ task'[t] = [task[t] EXCEPT !.at = at]
  BY BecomeOthers DEF Goto
<1> QED
  BY <1>1, <1>2 DEF TaskState

-----------------------------------------------------------------------------
(* The handlers of DeviceAuth.                                             *)

LEMMA RequestKeeps ==
    ASSUME TypeOK, AInv, NEW t \in Task, RequestByClient(t)
    PROVE  AInv'
<1>0. Others(t) /\ task'[t] = [Idle EXCEPT !.op = "request", !.at = "create"]
  BY BecomeOthers DEF RequestByClient, RequestActivation
<1>1. /\ Others(t) /\ task'[t].op = "request" /\ task'[t].at = "create"
      /\ overdue' = overdue /\ outer[t] = "idle"
      /\ UNCHANGED <<outer, scan, found, list, excused, admins, raced>>
  BY <1>0 DEF RequestByClient, RequestActivation, Resting, cleaning, bootstrap, Idle
<1>2. /\ ReadersFresh'
      /\ reader' \in [Reader -> [at : {"idle", "read", "store"}, view : View \cup {None},
                                 requests : SUBSET Activation, late : BOOLEAN]]
  BY <1>1, OvertakenReaders DEF AInv, RequestByClient
<1>3. ListTypes'
  BY <1>1, <1>2 DEF AInv, ListTypes, Cached
<1>4. Apart'
  BY <1>1 DEF AInv, Apart, Others
<1>5. PendingListIsFresh'
  BY <1>1, AllCovered DEF Covered, Waiting
<1>6. OneByOneAdmin'
  BY <1>1, AdminFrame DEF AInv, bootstrap
<1> QED
  BY <1>2, <1>3, <1>4, <1>5, <1>6 DEF AInv

\* A handler moves on, or is admitted, without touching the requests.
LEMMA QuietKeeps ==
    ASSUME TypeOK, AInv, NEW t \in Task, Others(t), outer[t] = "idle",
           task[t].op # "request" \/ task[t].at # "create",
           UNCHANGED <<activation, overdue, cleaning, lists, bootstrap>>
    PROVE  AInv'
<1>1. UNCHANGED <<outer, scan, found, list, reader, excused, admins, raced>>
  BY DEF cleaning, lists, bootstrap
<1>2. ListTypes'
  BY <1>1 DEF AInv, ListTypes, Cached
<1>3. Apart'
  BY <1>1 DEF AInv, Apart, Others
<1>4. ReadersFresh'
  BY <1>1, ReadersFrame DEF AInv
<1>5. \A u \in Task : Cached(Covered(u)) \subseteq Covered(u)'
  <2>1. \A u \in Task : scan[u] \cup found[u] \subseteq View
    BY DEF AInv, ListTypes
  <2> QED
    BY <1>1, <2>1 DEF Covered, Waiting, Others, Cached
<1>6. PendingListIsFresh'
  BY <1>1, <1>5, FreshFrame DEF AInv
<1>7. OneByOneAdmin'
  BY <1>1, AdminFrame DEF AInv, bootstrap
<1> QED
  BY <1>2, <1>3, <1>4, <1>6, <1>7 DEF AInv

LEMMA ApproveKeeps ==
    ASSUME TypeOK, AInv, NEW t \in Task, NEW a \in Activation, ApproveByAdmin(t, a)
    PROVE  AInv'
<1>1. /\ Others(t) /\ outer[t] = "idle" /\ task[t].at # "create"
      /\ UNCHANGED <<activation, overdue, cleaning, lists, bootstrap>>
  BY BecomeOthers DEF ApproveByAdmin, Approve, Resting, keys
<1> QED
  BY <1>1, QuietKeeps

LEMMA KeyKeeps ==
    ASSUME TypeOK, AInv, NEW t \in Task, KeyStep(t)
    PROVE  AInv'
<1>1. /\ Others(t) /\ task[t].at \in {"supersede", "insert"}
      /\ UNCHANGED <<activation, overdue, cleaning, lists, bootstrap>>
  BY GotoFields DEF KeyStep, SupersedeKeys, InsertKey, Waiting
<1>2. outer[t] = "idle"
  BY <1>1 DEF AInv, Apart
<1> QED
  BY <1>1, <1>2, QuietKeeps

LEMMA LastWriteKeeps ==
    ASSUME TypeOK, AInv, NEW t \in Task, LastWrite(t)
    PROVE  AInv'
<1>1. /\ Others(t) /\ task'[t].at = "idle" /\ task[t].at \in {"mark", "create"}
      /\ overdue' = overdue
  BY BecomeOthers DEF LastWrite, MarkApproved, CreateActivation, Waiting, Done, Idle
<1>2. outer[t] = "idle" /\ found[t] = {}
  BY <1>1 DEF AInv, Apart
<1>3. /\ outer' = [outer EXCEPT ![t] = "scan"] /\ scan' = [scan EXCEPT ![t] = View]
      /\ UNCHANGED <<found, list, excused, admins, raced>>
  BY DEF LastWrite, Outside, bootstrap
<1>4. /\ ReadersFresh'
      /\ reader' \in [Reader -> [at : {"idle", "read", "store"}, view : View \cup {None},
                                 requests : SUBSET Activation, late : BOOLEAN]]
  BY <1>1, OvertakenReaders DEF AInv, LastWrite
<1>5. ListTypes'
  BY <1>3, <1>4 DEF AInv, ListTypes, Cached
<1>6. Apart'
  BY <1>1, <1>2, <1>3 DEF AInv, Apart, Others, ListTypes
<1>7. View \subseteq Covered(t)'
  BY <1>1, <1>3 DEF AInv, ListTypes, Covered, Waiting
<1>8. PendingListIsFresh'
  BY <1>7, AllCovered
<1>9. OneByOneAdmin'
  BY <1>3, AdminFrame DEF AInv, bootstrap, ListTypes
<1> QED
  BY <1>4, <1>5, <1>6, <1>8, <1>9 DEF AInv

-----------------------------------------------------------------------------
(* The invalidation.                                                       *)

LEMMA ScanKeeps ==
    ASSUME TypeOK, AInv, NEW t \in Task, ScanBatch(t)
    PROVE  AInv'
<1>1. PICK batch \in SUBSET scan[t] \ {{}} :
         /\ scan' = [scan EXCEPT ![t] = scan[t] \ batch]
         /\ found' = [found EXCEPT ![t] = Cached(batch)]
         /\ outer' = [outer EXCEPT ![t] = IF Cached(batch) # {} THEN "del"
                        ELSE IF scan[t] \ batch # {} THEN "scan" ELSE "idle"]
  BY DEF ScanBatch, Outside, Remaining
<1>2. /\ outer[t] = "scan"
      /\ UNCHANGED <<activation, overdue, task, list, reader, excused, admins, raced>>
  BY DEF ScanBatch, vars, lists, bootstrap
<1>3. found[t] = {} /\ task[t].at = "idle" /\ scan[t] \subseteq View
  BY <1>2 DEF AInv, Apart, ListTypes
<1>4. batch \subseteq scan[t] /\ Cached(batch) \subseteq batch
  BY DEF Cached
<1>5. ListTypes'
  BY <1>1, <1>2, <1>3, <1>4 DEF AInv, ListTypes, Cached
<1>6. Apart'
  BY <1>1, <1>2, <1>3 DEF AInv, Apart, ListTypes
<1>7. \A u \in Task : Cached(Covered(u)) \subseteq Covered(u)'
  <2>1. Cached(Covered(t)) \subseteq Covered(t)'
    <3>1. Covered(t) = scan[t] /\ Covered(t)' = scan'[t] \cup found'[t]
      BY <1>2, <1>3 DEF Covered, Waiting
    <3>2. scan'[t] = scan[t] \ batch /\ found'[t] = Cached(batch)
      BY <1>1 DEF AInv, ListTypes
    <3> QED
      BY <3>1, <3>2 DEF Cached
  <2>2. ASSUME NEW u \in Task, u # t
        PROVE  Cached(Covered(u)) \subseteq Covered(u)'
    <3>1. Covered(u)' = Covered(u)
      BY <1>1, <1>2, <2>2 DEF Covered, Waiting, AInv, ListTypes
    <3> QED
      BY <3>1 DEF Cached
  <2> QED
    BY <2>1, <2>2
<1>8. PendingListIsFresh'
  BY <1>2, <1>7, FreshFrame DEF AInv
<1>9. ReadersFresh'
  BY <1>2, ReadersFrame DEF AInv
<1>10. OneByOneAdmin'
  BY <1>1, <1>2, AdminFrame DEF AInv, bootstrap, ListTypes
<1> QED
  BY <1>5, <1>6, <1>8, <1>9, <1>10 DEF AInv

LEMMA DelKeeps ==
    ASSUME TypeOK, AInv, NEW t \in Task, DelBatch(t)
    PROVE  AInv'
<1>1. /\ list' = [v \in View |-> IF v \in found[t] THEN NoList ELSE list[v]]
      /\ excused' = excused \ found[t]
      /\ found' = [found EXCEPT ![t] = {}]
      /\ outer' = [outer EXCEPT ![t] = IF scan[t] # {} THEN "scan" ELSE "idle"]
      /\ outer[t] = "del"
      /\ UNCHANGED <<activation, overdue, task, scan, reader, admins, raced>>
  BY DEF DelBatch, Deleted, Outside, vars, bootstrap
<1>2. ~NoList.some
  BY DEF NoList
<1>3. ListTypes'
  BY <1>1, <1>2 DEF AInv, ListTypes, Cached
<1>4. Apart'
  BY <1>1 DEF AInv, Apart, ListTypes
<1>5. PendingListIsFresh'
  <2> SUFFICES ASSUME NEW v \in View, list'[v].some
               PROVE  \/ list'[v].requests \ overdue' = Pending'
                      \/ \E u \in Task : v \in Covered(u)'
                      \/ v \in excused'
    BY DEF PendingListIsFresh
  <2>1. v \notin found[t] /\ list'[v] = list[v]
    BY <1>1, <1>2
  <2>2. \A u \in Task : v \in Covered(u) => v \in Covered(u)'
    BY <1>1, <2>1 DEF Covered, Waiting, AInv, ListTypes
  <2>3. Pending' = Pending
    BY <1>1 DEF Pending
  <2> QED
    BY <1>1, <2>1, <2>2, <2>3 DEF AInv, PendingListIsFresh
<1>6. ReadersFresh'
  BY <1>1, ReadersFrame DEF AInv
<1>7. OneByOneAdmin'
  BY <1>1, AdminFrame DEF AInv, bootstrap, ListTypes
<1> QED
  BY <1>3, <1>4, <1>5, <1>6, <1>7 DEF AInv

\* What a handler gives up is excused.
LEMMA GivenUpTypes ==
    ASSUME ListTypes, NEW T \in SUBSET Task, GiveUp(T), list' = list
    PROVE  /\ excused' \subseteq Cached(View) /\ excused \subseteq excused'
           /\ Cached(View)' = Cached(View)
           /\ \A t \in T : Cached(Covered(t)) \subseteq excused'
<1>1. \A t \in Task : Covered(t) \subseteq View
  BY DEF Covered, ListTypes
<1> QED
  BY <1>1 DEF GiveUp, Cached, ListTypes

LEMMA CleaningFailsKeeps ==
    ASSUME TypeOK, AInv, NEW t \in Task, CleaningFails(t)
    PROVE  AInv'
<1>1. /\ outer' = [outer EXCEPT ![t] = "idle"] /\ scan' = [scan EXCEPT ![t] = {}]
      /\ found' = [found EXCEPT ![t] = {}] /\ GiveUp({t})
      /\ UNCHANGED <<activation, overdue, task, list, reader, admins, raced>>
  BY DEF CleaningFails, Outside, vars, bootstrap
<1>2. /\ excused' \subseteq Cached(View) /\ excused \subseteq excused'
      /\ Cached(View)' = Cached(View) /\ Cached(Covered(t)) \subseteq excused'
  BY <1>1, GivenUpTypes DEF AInv
<1>3. ListTypes'
  BY <1>1, <1>2 DEF AInv, ListTypes
<1>4. Apart'
  BY <1>1 DEF AInv, Apart, ListTypes
<1>5. \A u \in Task : Cached(Covered(u)) \subseteq Covered(u)' \cup excused'
  <2>1. ASSUME NEW u \in Task, u # t
        PROVE  Cached(Covered(u)) \subseteq Covered(u)'
    <3>1. Covered(u)' = Covered(u)
      BY <1>1, <2>1 DEF Covered, Waiting, AInv, ListTypes
    <3> QED
      BY <3>1 DEF Cached
  <2> QED
    BY <1>2, <2>1
<1>6. PendingListIsFresh'
  BY <1>1, <1>2, <1>5, FreshFrame DEF AInv
<1>7. ReadersFresh'
  BY <1>1, ReadersFrame DEF AInv
<1>8. OneByOneAdmin'
  BY <1>1, AdminFrame DEF AInv, bootstrap, ListTypes
<1> QED
  BY <1>3, <1>4, <1>6, <1>7, <1>8 DEF AInv

-----------------------------------------------------------------------------
(* The readers.                                                            *)

ReaderType == [at : {"idle", "read", "store"}, view : View \cup {None},
               requests : SUBSET Activation, late : BOOLEAN]

LEMMA ReadingType ==
    ASSUME ListTypes, NEW r \in Reader, NEW at \in {"read", "store"},
           NEW v \in View \cup {None}, NEW as \in SUBSET Activation, Reading(r, at, v, as)
    PROVE  /\ reader' \in [Reader -> ReaderType]
           /\ reader'[r].at = at /\ reader'[r].requests = as /\ reader'[r].view = v
           /\ \A q \in Reader \ {r} : reader'[q] = reader[q]
<1> DEFINE x == [IdleReader EXCEPT !.at = at, !.view = v, !.requests = as]
<1>1. x \in ReaderType /\ x.at = at /\ x.requests = as /\ x.view = v
  BY DEF IdleReader, ReaderType
<1>2. reader \in [Reader -> ReaderType] /\ reader' = [reader EXCEPT ![r] = x]
  BY DEF ListTypes, ReaderType, Reading
<1> HIDE DEF x
<1> QED
  BY <1>1, <1>2

\* A step of a reader that leaves the lists alone.
LEMMA ReadKeeps ==
    ASSUME AInv, ReadersFresh', reader' \in [Reader -> ReaderType],
           UNCHANGED <<vars, cleaning, list, excused, bootstrap>>
    PROVE  AInv'
<1>1. UNCHANGED <<activation, overdue, task, outer, scan, found, list, excused, admins, raced>>
  BY DEF vars, cleaning, bootstrap
<1>2. ListTypes'
  BY <1>1 DEF AInv, ListTypes, Cached, ReaderType
<1>3. Apart'
  BY <1>1 DEF AInv, Apart
<1>4. PendingListIsFresh'
  BY <1>1 DEF AInv, PendingListIsFresh, Covered, Waiting, Pending
<1>5. OneByOneAdmin'
  BY <1>1 DEF AInv, OneByOneAdmin
<1> QED
  BY <1>2, <1>3, <1>4, <1>5 DEF AInv

LEMMA ListPendingKeeps ==
    ASSUME TypeOK, AInv, NEW r \in Reader, NEW v \in View, ListPending(r, v)
    PROVE  AInv'
<1>1. /\ Reading(r, "read", v, {})
      /\ UNCHANGED <<vars, cleaning, list, excused, bootstrap>>
  BY DEF ListPending
<1>2. /\ reader' \in [Reader -> ReaderType] /\ reader'[r].at = "read" /\ reader'[r].view = v
      /\ \A q \in Reader \ {r} : reader'[q] = reader[q]
  BY <1>1, ReadingType DEF AInv
<1>3. ReadersFresh'
  BY <1>1, <1>2 DEF AInv, ReadersFresh, Pending, vars
<1> QED
  BY <1>1, <1>2, <1>3, ReadKeeps

LEMMA FindPendingKeeps ==
    ASSUME TypeOK, AInv, NEW r \in Reader, FindPending(r)
    PROVE  AInv'
<1>1. /\ Reading(r, "store", reader[r].view, Pending)
      /\ UNCHANGED <<vars, cleaning, list, excused, bootstrap>>
  BY DEF FindPending
<1>2. reader[r].view \in View /\ Pending \in SUBSET Activation
  BY DEF AInv, ReadersFresh, FindPending, Pending
<1>3. /\ reader' \in [Reader -> ReaderType] /\ reader'[r].requests = Pending
      /\ reader'[r].view = reader[r].view
      /\ \A q \in Reader \ {r} : reader'[q] = reader[q]
  BY <1>1, <1>2, ReadingType DEF AInv
<1>4. Pending \ overdue = Pending /\ Pending' = Pending /\ overdue' = overdue
  BY <1>1 DEF Pending, vars
<1>5. ReadersFresh'
  BY <1>2, <1>3, <1>4 DEF AInv, ReadersFresh
<1> QED
  BY <1>1, <1>3, <1>5, ReadKeeps

LEMMA StorePendingKeeps ==
    ASSUME TypeOK, AInv, NEW r \in Reader, StorePending(r)
    PROVE  AInv'
<1> DEFINE v == reader[r].view
<1>1. /\ reader[r].at = "store" /\ reader' = [reader EXCEPT ![r] = IdleReader]
      /\ UNCHANGED <<vars, cleaning, bootstrap>>
  BY DEF StorePending
<1>2. UNCHANGED <<activation, overdue, task, outer, scan, found, admins, raced>>
  BY <1>1 DEF vars, cleaning, bootstrap
<1>3. v \in View
  BY <1>1 DEF AInv, ReadersFresh
<1>4. reader[r].requests \in SUBSET Activation
  BY DEF AInv, ListTypes
<1>5. reader' \in [Reader -> ReaderType] /\ ReadersFresh'
  <2>1. IdleReader \in ReaderType /\ IdleReader.at = "idle"
    BY DEF IdleReader, ReaderType
  <2>2. reader \in [Reader -> ReaderType]
    BY DEF AInv, ListTypes, ReaderType
  <2>3. /\ reader' \in [Reader -> ReaderType] /\ reader'[r].at = "idle"
        /\ \A q \in Reader \ {r} : reader'[q] = reader[q]
    BY <1>1, <2>1, <2>2
  <2> QED
    BY <1>2, <2>3 DEF AInv, ReadersFresh, Pending
<1>6. CASE UNCHANGED <<list, excused>>
  BY <1>1, <1>5, <1>6, ReadKeeps
<1>7. CASE /\ list' = [list EXCEPT ![v] = List(reader[r].requests)]
           /\ excused' = IF reader[r].late THEN excused \cup {v} ELSE excused \ {v}
  <2>1. /\ list' \in [View -> {NoList} \cup {List(as) : as \in SUBSET Activation}]
        /\ list'[v].some /\ list'[v].requests = reader[r].requests
        /\ \A w \in View \ {v} : list'[w] = list[w]
    <3>1. List(reader[r].requests).some /\ List(reader[r].requests).requests = reader[r].requests
      BY DEF List
    <3>2. List(reader[r].requests) \in {List(as) : as \in SUBSET Activation}
      BY <1>4
    <3>3. list \in [View -> {NoList} \cup {List(as) : as \in SUBSET Activation}]
      BY DEF AInv, ListTypes
    <3> QED
      BY <1>3, <1>7, <3>1, <3>2, <3>3
  <2>2. excused' \subseteq Cached(View)'
    BY <1>3, <1>7, <2>1 DEF AInv, ListTypes, Cached
  <2>3. ListTypes'
    BY <1>2, <1>5, <2>1, <2>2 DEF AInv, ListTypes, ReaderType
  <2>4. Apart'
    BY <1>2 DEF AInv, Apart
  <2>5. OneByOneAdmin'
    BY <1>2 DEF AInv, OneByOneAdmin
  <2>6. PendingListIsFresh'
    <3> SUFFICES ASSUME NEW w \in View, list'[w].some
                 PROVE  \/ list'[w].requests \ overdue' = Pending'
                        \/ \E u \in Task : w \in Covered(u)'
                        \/ w \in excused'
      BY DEF PendingListIsFresh
    <3>1. CASE w = v
      <4>1. ~reader[r].late => reader[r].requests \ overdue = Pending
        BY <1>1 DEF AInv, ReadersFresh
      <4> QED
        BY <1>2, <1>7, <2>1, <3>1, <4>1 DEF Pending
    <3>2. CASE w # v
      BY <1>2, <1>7, <2>1, <3>2 DEF AInv, PendingListIsFresh, Pending, Covered, Waiting
    <3> QED
      BY <3>1, <3>2
  <2> QED
    BY <1>5, <2>3, <2>4, <2>5, <2>6 DEF AInv
<1> QED
  BY <1>6, <1>7 DEF StorePending

LEMMA ExpireListKeeps ==
    ASSUME TypeOK, AInv, NEW v \in View, ExpireList(v)
    PROVE  AInv'
<1>1. /\ list' = [list EXCEPT ![v] = NoList] /\ excused' = excused \ {v}
      /\ UNCHANGED <<activation, overdue, task, outer, scan, found, reader, admins, raced>>
  BY DEF ExpireList, vars, cleaning, bootstrap
<1>2. ~NoList.some
  BY DEF NoList
<1>3. /\ list' \in [View -> {NoList} \cup {List(as) : as \in SUBSET Activation}]
      /\ ~list'[v].some /\ \A w \in View \ {v} : list'[w] = list[w]
  BY <1>1, <1>2 DEF AInv, ListTypes
<1>4. ListTypes'
  BY <1>1, <1>3 DEF AInv, ListTypes, Cached
<1>5. Apart' /\ OneByOneAdmin'
  BY <1>1 DEF AInv, Apart, OneByOneAdmin
<1>6. ReadersFresh'
  BY <1>1, ReadersFrame DEF AInv
<1>7. PendingListIsFresh'
  BY <1>1, <1>3 DEF AInv, PendingListIsFresh, Pending, Covered, Waiting
<1> QED
  BY <1>4, <1>5, <1>6, <1>7 DEF AInv

-----------------------------------------------------------------------------
(* The bootstrap.                                                          *)

\* A step of a bootstrap leaves the lists alone.
LEMMA BootstrapKeeps ==
    ASSUME TypeOK, AInv, NEW t \in Task, task[t].at = "idle",
           found[t] = {}, NEW at \in {"idle", "register"}, outer' = [outer EXCEPT ![t] = at],
           UNCHANGED <<vars, scan, found, lists>>, admins' \in Nat, raced' \in BOOLEAN,
           OneByOneAdmin'
    PROVE  AInv'
<1>1. UNCHANGED <<activation, overdue, task, scan, found, list, reader, excused>>
  BY DEF vars, lists
<1>2. ListTypes'
  BY <1>1 DEF AInv, ListTypes, Cached
<1>3. Apart'
  BY <1>1 DEF AInv, Apart, ListTypes
<1>4. ReadersFresh'
  BY <1>1, ReadersFrame DEF AInv
<1>5. PendingListIsFresh'
  BY <1>1 DEF AInv, PendingListIsFresh, Pending, Covered, Waiting
<1> QED
  BY <1>2, <1>3, <1>4, <1>5 DEF AInv

LEMMA RegisterKeeps ==
    ASSUME TypeOK, AInv, NEW t \in Task, Register(t)
    PROVE  AInv'
<1>1. /\ task[t].at = "idle" /\ outer[t] = "idle" /\ admins = 0 /\ admins' = admins
      /\ outer' = [outer EXCEPT ![t] = "register"]
      /\ UNCHANGED <<vars, scan, found, lists>>
  BY DEF Register, Resting, BootstrapOpen, Outside
<1>2. raced' = (raced \/ \E u \in Task : outer[u] = "register")
  BY DEF Register
<1>3. raced' \in BOOLEAN
  BY <1>2
<1>4. found[t] = {} /\ admins' \in Nat
  BY <1>1 DEF AInv, Apart, ListTypes
<1>5. OneByOneAdmin'
  BY <1>1, <1>2 DEF AInv, OneByOneAdmin, ListTypes
<1> QED
  BY <1>1, <1>3, <1>4, <1>5, BootstrapKeeps

LEMMA InsertAdminKeeps ==
    ASSUME TypeOK, AInv, NEW t \in Task, InsertAdmin(t)
    PROVE  AInv'
<1>1. /\ outer[t] = "register" /\ outer' = [outer EXCEPT ![t] = "idle"]
      /\ raced' = raced /\ UNCHANGED <<vars, scan, found, lists>>
      /\ admins' = admins + 1 \/ (admins > 0 /\ admins' = admins)
  BY DEF InsertAdmin, Outside
<1>2. admins \in Nat /\ raced \in BOOLEAN /\ outer \in [Task -> {"idle", "register", "scan", "del"}]
  BY DEF AInv, ListTypes
<1>3. task[t].at = "idle" /\ found[t] = {} /\ admins' \in Nat
  BY <1>1, <1>2 DEF AInv, Apart
<1>4. OneByOneAdmin'
  BY <1>1, <1>2 DEF AInv, OneByOneAdmin
<1> QED
  BY <1>1, <1>2, <1>3, <1>4, BootstrapKeeps

-----------------------------------------------------------------------------
(* Time and failures.                                                      *)

LEMMA OverdueKeeps ==
    ASSUME TypeOK, AInv, Overdue
    PROVE  AInv'
<1>1. PICK a \in Activation : ActivationOverdue(a)
  BY DEF Overdue
<1>2. /\ overdue' = overdue \cup {a} /\ UNCHANGED <<activation, task>>
      /\ UNCHANGED <<outer, scan, found, list, reader, excused, admins, raced>>
  BY <1>1 DEF ActivationOverdue, Overdue, cleaning, lists, bootstrap
<1>3. Pending' = Pending \ {a}
  BY <1>2 DEF Pending
<1>4. ReadersFresh'
  BY <1>2, <1>3 DEF AInv, ReadersFresh
<1>5. PendingListIsFresh'
  BY <1>2, <1>3 DEF AInv, PendingListIsFresh, Covered, Waiting
<1>6. ListTypes'
  BY <1>2 DEF AInv, ListTypes, Cached
<1>7. Apart' /\ OneByOneAdmin'
  BY <1>2 DEF AInv, Apart, OneByOneAdmin
<1> QED
  BY <1>4, <1>5, <1>6, <1>7 DEF AInv

LEMMA HandlerFailsKeeps ==
    ASSUME TypeOK, AInv, NEW t \in Task, HandlerFails(t)
    PROVE  AInv'
<1>1. /\ GiveUp({t}) /\ UNCHANGED <<activation, overdue, scan, found, list, reader, admins, raced>>
      /\ \/ Others(t) /\ task'[t].at = "idle" /\ outer' = outer
         \/ outer[t] = "register" /\ outer' = [outer EXCEPT ![t] = "idle"] /\ task' = task
  BY BecomeOthers DEF HandlerFails, DbError, Done, Idle, Outside, vars, keys, bootstrap
<1>2. /\ excused' \subseteq Cached(View) /\ excused \subseteq excused'
      /\ Cached(View)' = Cached(View) /\ Cached(Covered(t)) \subseteq excused'
  BY <1>1, GivenUpTypes DEF AInv
<1>3. outer' \in [Task -> {"idle", "register", "scan", "del"}]
  BY <1>1 DEF AInv, ListTypes
<1>4. ListTypes'
  BY <1>1, <1>2, <1>3 DEF AInv, ListTypes
<1>5. Apart'
  BY <1>1 DEF AInv, Apart, ListTypes, Others
<1>6. \A u \in Task : Cached(Covered(u)) \subseteq Covered(u)' \cup excused'
  <2>1. ASSUME NEW u \in Task, u # t
        PROVE  Cached(Covered(u)) \subseteq Covered(u)'
    <3>1. Covered(u)' = Covered(u)
      BY <1>1, <2>1 DEF Covered, Waiting, Others
    <3> QED
      BY <3>1 DEF Cached
  <2> QED
    BY <1>2, <2>1
<1>7. PendingListIsFresh'
  BY <1>1, <1>2, <1>6, FreshFrame DEF AInv
<1>8. ReadersFresh'
  BY <1>1, ReadersFrame DEF AInv
<1>9. OneByOneAdmin'
  BY <1>1, AdminFrame DEF AInv, bootstrap, ListTypes
<1> QED
  BY <1>4, <1>5, <1>7, <1>8, <1>9 DEF AInv

LEMMA CrashKeeps ==
    ASSUME TypeOK, AInv, CrashAll
    PROVE  AInv'
<1>1. /\ task' = [t \in Task |-> Idle] /\ outer' = [t \in Task |-> "idle"]
      /\ scan' = [t \in Task |-> {}] /\ found' = [t \in Task |-> {}]
      /\ reader' = [r \in Reader |-> IdleReader] /\ GiveUp(Task)
      /\ UNCHANGED <<activation, overdue, list, admins, raced>>
  BY DEF CrashAll, Crash, keys
<1>2. /\ excused' \subseteq Cached(View) /\ excused \subseteq excused'
      /\ Cached(View)' = Cached(View)
      /\ \A t \in Task : Cached(Covered(t)) \subseteq excused'
  BY <1>1, GivenUpTypes DEF AInv
<1>3. /\ reader' \in [Reader -> ReaderType] /\ ReadersFresh'
  BY <1>1 DEF IdleReader, ReaderType, ReadersFresh
<1>4. ListTypes'
  BY <1>1, <1>2, <1>3 DEF AInv, ListTypes, ReaderType
<1>5. Apart'
  BY <1>1 DEF Apart, Idle
<1>6. PendingListIsFresh'
  BY <1>1, <1>2, FreshFrame DEF AInv
<1>7. OneByOneAdmin'
  BY <1>1, AdminFrame DEF AInv, bootstrap
<1> QED
  BY <1>3, <1>4, <1>5, <1>6, <1>7 DEF AInv

-----------------------------------------------------------------------------
(* The theorems.                                                           *)

LEMMA InitAInv == ActivationInit => AInv
<1> SUFFICES ASSUME ActivationInit
             PROVE  AInv
  OBVIOUS
<1>1. ~NoList.some /\ IdleReader \in ReaderType /\ IdleReader.at = "idle"
  BY DEF NoList, IdleReader, ReaderType
<1>2. ListTypes
  BY <1>1 DEF ActivationInit, ListTypes, ReaderType
<1>3. Apart
  BY DEF ActivationInit, Init, Apart, Idle
<1>4. ReadersFresh /\ PendingListIsFresh
  BY <1>1 DEF ActivationInit, ReadersFresh, PendingListIsFresh
<1>5. OneByOneAdmin
  BY DEF ActivationInit, OneByOneAdmin
<1> QED
  BY <1>2, <1>3, <1>4, <1>5 DEF AInv

LEMMA NextAInv == TypeOK /\ AInv /\ [ActivationNext]_activationVars => AInv'
<1> SUFFICES ASSUME TypeOK, AInv, [ActivationNext]_activationVars
             PROVE  AInv'
  OBVIOUS
<1>1. CASE UNCHANGED activationVars
  <2>1. UNCHANGED <<vars, cleaning, list, excused, bootstrap, reader>>
    BY <1>1 DEF activationVars, lists
  <2>2. reader' \in [Reader -> ReaderType]
    BY <2>1 DEF AInv, ListTypes, ReaderType
  <2>3. ReadersFresh'
    BY <2>1, ReadersFrame DEF AInv, vars
  <2> QED
    BY <2>1, <2>2, <2>3, ReadKeeps
<1> QED
  BY <1>1, RequestKeeps, ApproveKeeps, KeyKeeps, LastWriteKeeps, ScanKeeps, DelKeeps,
     CleaningFailsKeeps, ListPendingKeeps, FindPendingKeeps, StorePendingKeeps, ExpireListKeeps,
     RegisterKeeps, InsertAdminKeeps, OverdueKeeps, HandlerFailsKeeps, CrashKeeps
  DEF ActivationNext

LEMMA ActivationInvariance == ActivationSpec => [](TypeOK /\ AInv)
<1>1. ActivationSpec => []TypeOK
  BY RunsDeviceAuth, TypeCorrect, PTL
<1> QED
  BY <1>1, InitAInv, NextAInv, PTL DEF ActivationSpec

\* Every variable has its type, and only a list that is there has an excuse.
THEOREM ActivationTypeCorrect == ActivationSpec => []ActivationTypeOK
<1>1. TypeOK /\ AInv => ActivationTypeOK
  BY DEF AInv, ListTypes, ActivationTypeOK
<1> QED
  BY <1>1, ActivationInvariance, PTL

\* A cached list shows what is pending, unless a handler has still to delete it
\* or one of the two excuses applies, however many readers and handlers run.
THEOREM ListStaysFreshEnough == ActivationSpec => []PendingListIsFresh
<1>1. AInv => PendingListIsFresh
  BY DEF AInv
<1> QED
  BY <1>1, ActivationInvariance, PTL

\* Bootstraps that do not overlap make one administrator.
THEOREM OneInitialAdminHolds == ActivationSpec => []OneInitialAdmin
<1>1. AInv => OneInitialAdmin
  BY DEF AInv, OneByOneAdmin, OneInitialAdmin
<1> QED
  BY <1>1, ActivationInvariance, PTL
=============================================================================
