-------------------------- MODULE DevicePresenceProofs --------------------------
(***************************************************************************)
(* Theorems about DevicePresence, for every set of sockets, devices and    *)
(* HTTP requests, every assignment of tokens and every set of moves.       *)
(***************************************************************************)
EXTENDS DevicePresence, TLAPS

PresentState == [at : Stage, device : Device \cup {None}]
LeaveState == [at : Stage, devices : SUBSET Device]
HttpState == [at : Stage, device : Device \cup {None}, found : DeviceStatus]

-----------------------------------------------------------------------------
(* Types, in the parts that different actions disturb.                     *)

ConnOK == conn \in [Socket -> {"new", "open", "closed"}] /\ verifying \subseteq Socket

MapsOK ==
    /\ deviceOf \in [Socket -> Device \cup {None}]
    /\ report \in [Socket -> SUBSET Device]
    /\ rooms \in [Socket -> SUBSET Device]

StatusOK == status \in [Device -> DeviceStatus \cup {"absent", "deleted"}]

PresentOK ==
    /\ present \in [Socket -> PresentState]
    /\ \A s \in Socket : present[s].at \in {"write", "resume"} => present[s].device \in Device

LeavingOK == leaving \in [Socket -> LeaveState]

HttpOK ==
    /\ http \in [Http -> HttpState]
    /\ \A h \in Http : http[h].at = "write" => http[h].device \in Device

LEMMA TypeParts ==
    TypeOK <=> ConnOK /\ MapsOK /\ StatusOK /\ PresentOK /\ LeavingOK /\ HttpOK
BY DEF TypeOK, ConnOK, MapsOK, StatusOK, PresentOK, LeavingOK, HttpOK,
       PresentState, LeaveState, HttpState

LEMMA TypePartsNext ==
    TypeOK' <=> ConnOK' /\ MapsOK' /\ StatusOK' /\ PresentOK' /\ LeavingOK' /\ HttpOK'
BY DEF TypeOK, ConnOK, MapsOK, StatusOK, PresentOK, LeavingOK, HttpOK,
       PresentState, LeaveState, HttpState

\* A present may be anywhere, as long as it holds a device where it needs one.
LEMMA PresentingOK ==
    ASSUME PresentOK, NEW s \in Socket, NEW at \in Stage, NEW d \in Device \cup {None},
           at \in {"write", "resume"} => d \in Device, Presenting(s, at, d)
    PROVE  PresentOK'
<1> DEFINE p == [at |-> at, device |-> d]
<1>1. p \in PresentState /\ p.at = at /\ p.device = d
  BY DEF PresentState
<1>2. present' = [present EXCEPT ![s] = p]
  BY DEF Presenting
<1> HIDE DEF p
<1> QED
  BY <1>1, <1>2 DEF PresentOK

LEMMA LeavingIsOK ==
    ASSUME LeavingOK, NEW s \in Socket, NEW at \in Stage, NEW ds \in SUBSET Device,
           Leaving(s, at, ds)
    PROVE  LeavingOK'
BY DEF LeavingOK, Leaving, LeaveState

LEMMA ServingOK ==
    ASSUME HttpOK, NEW h \in Http, NEW at \in Stage, NEW d \in Device \cup {None},
           NEW st \in DeviceStatus, at = "write" => d \in Device, Serving(h, at, d, st)
    PROVE  HttpOK'
<1> DEFINE p == [at |-> at, device |-> d, found |-> st]
<1>1. p \in HttpState /\ p.at = at /\ p.device = d
  BY DEF HttpState
<1>2. http' = [http EXCEPT ![h] = p]
  BY DEF Serving
<1> HIDE DEF p
<1> QED
  BY <1>1, <1>2 DEF HttpOK

LEMMA StageType ==
    /\ {"idle", "create", "write", "resume", "invalidate"} = Stage
    /\ DeviceStatus = {"online", "busy", "offline", "paused", "unknown", "error"}
BY DEF Stage, DeviceStatus

LEMMA IdleTypes ==
    /\ IdlePresent \in PresentState /\ IdlePresent.at = "idle"
    /\ IdleLeave \in LeaveState
    /\ IdleHttp \in HttpState /\ IdleHttp.at = "idle"
BY DEF IdlePresent, IdleLeave, IdleHttp, PresentState, LeaveState, HttpState, Stage,
       DeviceStatus

\* A disconnect leaves the entries typed.
LEMMA HandleDisconnectOK ==
    ASSUME TypeOK, NEW s \in Socket, HandleDisconnect(s)
    PROVE  /\ conn' = [conn EXCEPT ![s] = "closed"]
           /\ MapsOK'
           /\ LeavingOK'
<1>1. DisconnectedDevices(s) \subseteq Device
  BY OwnIsDevice DEF DisconnectedDevices, TypeOK
<1>2. MapsOK'
  BY TypeParts DEF HandleDisconnect, Forget, MapsOK
<1>3. LeavingOK'
  <2>1. CASE UNCHANGED leaving
    BY <2>1, TypeParts DEF LeavingOK
  <2>2. CASE Leaving(s, "write", DisconnectedDevices(s) \ ReportedByOthers(s))
    BY <1>1, <2>2, TypeParts, StageType, LeavingIsOK
  <2> QED
    BY <2>1, <2>2 DEF HandleDisconnect
<1> QED
  BY <1>2, <1>3 DEF HandleDisconnect

-----------------------------------------------------------------------------
LEMMA TypeInit == Init => TypeOK
<1> SUFFICES ASSUME Init PROVE TypeOK
  OBVIOUS
<1>1. ConnOK /\ MapsOK
  BY DEF Init, ConnOK, MapsOK
<1>2. StatusOK
  BY StageType DEF Init, StatusOK
<1>3. PresentOK /\ LeavingOK /\ HttpOK
  BY IdleTypes DEF Init, PresentOK, LeavingOK, HttpOK
<1> QED
  BY <1>1, <1>2, <1>3, TypeParts

\* The steps of a socket's connection keep the types.
LEMMA ConnectionTypes ==
    ASSUME TypeOK, NEW s \in Socket,
           \/ Connect(s) \/ Authenticate(s) \/ Disconnect(s) \/ Reject(s)
           \/ MarkOffline(s) \/ LeaveInvalidate(s) \/ LeaveFails(s)
    PROVE  TypeOK'
<1>0. ConnOK /\ MapsOK /\ StatusOK /\ PresentOK /\ LeavingOK /\ HttpOK
  BY TypeParts
<1>1. CASE Connect(s)
  BY <1>0, <1>1, TypePartsNext DEF Connect, maps, ConnOK, MapsOK, StatusOK, PresentOK,
     LeavingOK, HttpOK
<1>2. CASE Authenticate(s)
  <2>1. ConnOK' /\ MapsOK'
    BY <1>0, <1>2, OwnIsDevice DEF Authenticate, ConnOK, MapsOK
  <2>2. StatusOK' /\ PresentOK' /\ LeavingOK' /\ HttpOK'
    BY <1>0, <1>2 DEF Authenticate, StatusOK, PresentOK, LeavingOK, HttpOK
  <2> QED
    BY <2>1, <2>2, TypePartsNext
<1>3. CASE Disconnect(s) \/ Reject(s)
  <2>1. StatusOK' /\ PresentOK' /\ HttpOK'
    BY <1>0, <1>3 DEF Disconnect, Reject, StatusOK, PresentOK, HttpOK
  <2>2. CASE HandleDisconnect(s)
    <3>1. ConnOK'
      BY <1>0, <1>3, <2>2, HandleDisconnectOK DEF Disconnect, Reject, ConnOK
    <3> QED
      BY <2>1, <2>2, <3>1, HandleDisconnectOK, TypePartsNext
  <2>3. CASE Reject(s) /\ UNCHANGED <<conn, maps, leaving>>
    <3>1. ConnOK' /\ MapsOK' /\ LeavingOK'
      BY <1>0, <2>3 DEF Reject, maps, ConnOK, MapsOK, LeavingOK
    <3> QED
      BY <2>1, <3>1, TypePartsNext
  <2> QED
    BY <1>3, <2>2, <2>3 DEF Disconnect, Reject
<1>4. CASE MarkOffline(s)
  <2>1. ConnOK' /\ MapsOK' /\ PresentOK' /\ HttpOK'
    BY <1>0, <1>4 DEF MarkOffline, maps, ConnOK, MapsOK, PresentOK, HttpOK
  <2>2. StatusOK'
    BY <1>0, <1>4, StageType DEF MarkOffline, AfterLeave, StatusOK
  <2>3. LeavingOK'
    BY <1>0, <1>4, StageType, LeavingIsOK DEF MarkOffline
  <2> QED
    BY <2>1, <2>2, <2>3, TypePartsNext
<1>5. CASE LeaveInvalidate(s) \/ LeaveFails(s)
  <2>1. ConnOK' /\ MapsOK' /\ PresentOK' /\ HttpOK' /\ StatusOK'
    BY <1>0, <1>5 DEF LeaveInvalidate, LeaveFails, maps, ConnOK, MapsOK, PresentOK, HttpOK,
       StatusOK
  <2>2. LeavingOK'
    BY <1>0, <1>5, StageType, LeavingIsOK DEF LeaveInvalidate, LeaveFails
  <2> QED
    BY <2>1, <2>2, TypePartsNext
<1> QED
  BY <1>1, <1>2, <1>3, <1>4, <1>5

\* The steps of print.device.present keep the types.
LEMMA PresentTypes ==
    ASSUME TypeOK, NEW s \in Socket,
           \/ PresentLookup(s) \/ (\E d \in Device : PresentCreate(s, d))
           \/ PresentCreateRejected(s) \/ PresentWrite(s) \/ PresentResume(s)
           \/ PresentInvalidate(s) \/ PresentFails(s)
    PROVE  TypeOK'
<1>0. ConnOK /\ MapsOK /\ StatusOK /\ PresentOK /\ LeavingOK /\ HttpOK
  BY TypeParts
<1>1. ConnOK' /\ LeavingOK' /\ HttpOK'
  BY <1>0 DEF PresentLookup, PresentCreate, PresentCreateRejected, PresentWrite,
     PresentResume, PresentInvalidate, PresentFails, ConnOK, LeavingOK, HttpOK
<1>2. MapsOK'
  <2>1. CASE PresentResume(s)
    BY <1>0, <2>1 DEF PresentResume, MapsOK, PresentOK
  <2>2. CASE UNCHANGED maps
    BY <1>0, <2>2 DEF maps, MapsOK
  <2> QED
    BY <2>1, <2>2 DEF PresentLookup, PresentCreate, PresentCreateRejected, PresentWrite,
       PresentInvalidate, PresentFails
<1>3. StatusOK'
  BY <1>0, StageType DEF PresentLookup, PresentCreate, PresentCreateRejected, PresentWrite,
     PresentResume, PresentInvalidate, PresentFails, StatusOK
<1>4. PresentOK'
  <2>1. CASE PresentLookup(s)
    BY <1>0, <2>1, StageType, PresentingOK DEF PresentLookup
  <2>2. ASSUME NEW d \in Device, PresentCreate(s, d) PROVE PresentOK'
    BY <1>0, <2>2, StageType, PresentingOK DEF PresentCreate
  <2>3. CASE PresentCreateRejected(s) \/ PresentInvalidate(s) \/ PresentFails(s)
    BY <1>0, <2>3, StageType, PresentingOK DEF PresentCreateRejected, PresentInvalidate,
       PresentFails
  <2>4. CASE PresentWrite(s)
    <3>1. present[s].device \in Device
      BY <1>0, <2>4 DEF PresentWrite, PresentOK
    <3> QED
      BY <1>0, <2>4, <3>1, StageType, PresentingOK DEF PresentWrite
  <2>5. CASE PresentResume(s)
    <3>1. present[s].device \in Device
      BY <1>0, <2>5 DEF PresentResume, PresentOK
    <3> QED
      BY <1>0, <2>5, <3>1, StageType, PresentingOK DEF PresentResume
  <2> QED
    BY <2>1, <2>2, <2>3, <2>4, <2>5
<1> QED
  BY <1>0, <1>1, <1>2, <1>3, <1>4, TypePartsNext

\* Reports and logouts keep the types.
LEMMA MessageTypes ==
    ASSUME TypeOK, NEW s \in Socket,
           (\E ds \in SUBSET Device : Report(s, ds)) \/ Logout(s)
    PROVE  TypeOK'
<1>0. ConnOK /\ MapsOK /\ StatusOK /\ PresentOK /\ LeavingOK /\ HttpOK
  BY TypeParts
<1>1. ConnOK' /\ StatusOK' /\ PresentOK' /\ LeavingOK' /\ HttpOK'
  BY <1>0 DEF Report, Logout, ConnOK, StatusOK, PresentOK, LeavingOK, HttpOK
<1>2. MapsOK'
  BY <1>0 DEF Report, EffectiveReport, Logout, Forget, MapsOK
<1> QED
  BY <1>1, <1>2, TypePartsNext

\* HTTP requests keep the types.
LEMMA HttpTypes ==
    ASSUME TypeOK, AdminStatus \subseteq DeviceStatus, NEW h \in Http,
           HttpStep(h) \/ HttpInvalidate(h) \/ HttpFails(h)
    PROVE  TypeOK'
<1>0. ConnOK /\ MapsOK /\ StatusOK /\ PresentOK /\ LeavingOK /\ HttpOK
  BY TypeParts
<1>1. ConnOK' /\ MapsOK' /\ PresentOK' /\ LeavingOK'
  BY <1>0 DEF HttpStep, HttpInvalidate, HttpFails, HelperLookup, HelperCreate, HelperWrite,
     HelperRejected, AdminCreate, AdminPatch, AdminDelete, maps, ConnOK, MapsOK, PresentOK,
     LeavingOK
<1>2. CASE HelperLookup(h)
  <2>1. StatusOK'
    BY <1>0, <1>2 DEF HelperLookup, StatusOK
  <2>2. HttpOK'
    BY <1>0, <1>2, StageType, ServingOK DEF HelperLookup, Exists
  <2> QED
    BY <1>1, <2>1, <2>2, TypePartsNext
<1>3. ASSUME NEW d \in Device, HelperCreate(h, d) PROVE TypeOK'
  <2>1. StatusOK'
    BY <1>0, <1>3, StageType DEF HelperCreate, StatusOK
  <2>2. HttpOK'
    BY <1>0, <1>3, StageType, ServingOK DEF HelperCreate
  <2> QED
    BY <1>1, <2>1, <2>2, TypePartsNext
<1>4. CASE HelperWrite(h)
  <2>1. http[h].device \in Device /\ http[h].found \in DeviceStatus
    BY <1>0, <1>4 DEF HelperWrite, HttpOK, HttpState
  <2>2. StatusOK'
    BY <1>0, <1>4, <2>1, StageType DEF HelperWrite, Preserved, StatusOK
  <2>3. HttpOK'
    BY <1>0, <1>4, StageType, ServingOK DEF HelperWrite
  <2> QED
    BY <1>1, <2>2, <2>3, TypePartsNext
<1>5. CASE HelperRejected(h) \/ HttpInvalidate(h) \/ HttpFails(h)
  <2>1. StatusOK'
    BY <1>0, <1>5 DEF HelperRejected, HttpInvalidate, HttpFails, StatusOK
  <2>2. HttpOK'
    BY <1>0, <1>5, StageType, ServingOK DEF HelperRejected, HttpInvalidate, HttpFails
  <2> QED
    BY <1>1, <2>1, <2>2, TypePartsNext
<1>6. ASSUME NEW d \in Device, NEW st \in DeviceStatus,
             AdminCreate(h, d, st) \/ AdminPatch(h, d, st) \/ AdminDelete(h, d)
      PROVE  TypeOK'
  <2>1. StatusOK'
    BY <1>0, <1>6 DEF AdminCreate, AdminPatch, AdminDelete, StatusOK
  <2>2. HttpOK'
    BY <1>0, <1>6, StageType, ServingOK DEF AdminCreate, AdminPatch, AdminDelete
  <2> QED
    BY <1>1, <2>1, <2>2, TypePartsNext
<1>7. ASSUME NEW d \in Device, NEW st \in AdminStatus \cup {status[d]}, AdminPatch(h, d, st)
      PROVE  TypeOK'
  <2>1. st \in DeviceStatus
    BY <1>7 DEF AdminPatch, Exists
  <2> QED
    BY <1>6, <1>7, <2>1
<1>8. ASSUME NEW d \in Device, AdminDelete(h, d)
      PROVE  TypeOK'
  BY <1>6, <1>8, StageType
<1>9. ASSUME NEW d \in Device, NEW st \in AdminStatus, AdminCreate(h, d, st)
      PROVE  TypeOK'
  BY <1>6, <1>9
<1> QED
  BY <1>2, <1>3, <1>4, <1>5, <1>7, <1>8, <1>9 DEF HttpStep

LEMMA CrashTypes ==
    ASSUME TypeOK, Crash
    PROVE  TypeOK'
<1>0. ConnOK /\ MapsOK /\ StatusOK /\ PresentOK /\ LeavingOK /\ HttpOK
  BY TypeParts
<1>1. ConnOK' /\ MapsOK' /\ StatusOK'
  BY <1>0 DEF Crash, ConnOK, MapsOK, StatusOK
<1>2. PresentOK' /\ LeavingOK' /\ HttpOK'
  BY IdleTypes DEF Crash, PresentOK, LeavingOK, HttpOK
<1> QED
  BY <1>1, <1>2, TypePartsNext

\* Every step is a step of one socket, of one HTTP request, or the crash.
SocketStep(s) ==
    \/ Connect(s) \/ Disconnect(s) \/ Resume(s) \/ Message(s)
    \/ PresentFails(s) \/ LeaveFails(s) \/ PresentInvalidate(s) \/ LeaveInvalidate(s)

LEMMA NextSteps ==
    ASSUME Next
    PROVE  \/ \E s \in Socket : SocketStep(s)
           \/ \E h \in Http : HttpStep(h) \/ HttpInvalidate(h) \/ HttpFails(h)
           \/ Crash
BY DEF Next, Act, Fail, Invalidate, SocketStep

LEMMA TypeStep == TypeOK /\ [Next]_vars => TypeOK'
<1> SUFFICES ASSUME TypeOK, [Next]_vars PROVE TypeOK'
  OBVIOUS
<1>1. ASSUME NEW s \in Socket, SocketStep(s) PROVE TypeOK'
  BY <1>1, ConnectionTypes, PresentTypes, MessageTypes DEF SocketStep, Resume, Message
<1>2. ASSUME NEW h \in Http, HttpStep(h) \/ HttpInvalidate(h) \/ HttpFails(h) PROVE TypeOK'
  BY <1>2, HttpTypes, AdminStatusIsStatus
<1>3. CASE UNCHANGED vars
  BY <1>3 DEF vars, TypeOK
<1> QED
  BY <1>1, <1>2, <1>3, CrashTypes, NextSteps

\* Without moves the gateway takes the steps of CalmSpec and no others.
THEOREM CalmIsAll == Moves = {} => (FairSpec <=> CalmSpec)
<1> SUFFICES ASSUME Moves = {} PROVE FairSpec <=> CalmSpec
  OBVIOUS
<1>1. [Next]_vars <=> [CalmNext]_vars
  BY DEF Next, CalmNext, Act, Message, Fail, Crash, Logout, PresentFails, LeaveFails, HttpFails
<1> QED
  BY <1>1, PTL DEF FairSpec, Spec, CalmSpec

\* Every reachable state is well typed, whatever sockets, requests and
\* failures do (print-events.gateway.ts, print-devices.service.ts).
THEOREM TypeCorrect == Spec => []TypeOK
BY TypeInit, TypeStep, PTL DEF Spec

-----------------------------------------------------------------------------
(* Reports.                                                                *)

\* A step of another part of the server touches no socket's maps.
LEMMA HttpKeepsSockets ==
    ASSUME NEW h \in Http, HttpStep(h) \/ HttpInvalidate(h) \/ HttpFails(h)
    PROVE  UNCHANGED <<conn, verifying, maps, present, leaving>>
BY DEF HttpStep, HttpInvalidate, HttpFails, HelperLookup, HelperCreate, HelperWrite,
   HelperRejected, AdminCreate, AdminPatch, AdminDelete

\* What ReportsAreLive says of the snapshot, said of the reports.
LiveReports ==
    \A s \in Socket : report[s] # {} => conn[s] = "open" /\ deviceOf[s] # None

LEMMA SnapshotOfReports == LiveReports => ReportsAreLive
<1> SUFFICES ASSUME LiveReports, NEW entry \in Snapshot
             PROVE  conn[entry.socketId] = "open" /\ deviceOf[entry.socketId] # None
  BY DEF ReportsAreLive
<1>1. PICK s \in {x \in Socket : report[x] # {}} :
          entry = [socketId |-> s, deviceIds |-> report[s]]
  BY DEF Snapshot
<1> QED
  BY <1>1 DEF LiveReports

LEMMA ReportsStep == TypeOK /\ LiveReports /\ [Next]_vars => LiveReports'
<1> SUFFICES ASSUME TypeOK, LiveReports, [Next]_vars, NEW x \in Socket, report'[x] # {}
             PROVE  conn'[x] = "open" /\ deviceOf'[x] # None
  BY DEF LiveReports
<1>0. /\ conn \in [Socket -> {"new", "open", "closed"}]
      /\ deviceOf \in [Socket -> Device \cup {None}]
      /\ report \in [Socket -> SUBSET Device]
      /\ report[x] # {} => conn[x] = "open" /\ deviceOf[x] # None
  BY DEF LiveReports, TypeOK
<1>1. CASE UNCHANGED <<conn, maps>>
  BY <1>0, <1>1 DEF maps
<1>2. ASSUME NEW s \in Socket, SocketStep(s)
      PROVE  conn'[x] = "open" /\ deviceOf'[x] # None
  <2>1. CASE Connect(s)
    BY <1>0, <2>1 DEF Connect, maps
  <2>2. CASE Authenticate(s)
    <3>1. Own[s] # None
      BY OwnIsDevice, NoneIsNoDevice
    <3> QED
      BY <1>0, <2>2, <3>1 DEF Authenticate
  <2>3. CASE HandleDisconnect(s)
    BY <1>0, <2>3 DEF HandleDisconnect, Forget
  <2>4. CASE PresentResume(s)
    <3>1. present[s].device # None
      BY <2>4, NoneIsNoDevice DEF PresentResume, TypeOK
    <3> QED
      BY <1>0, <2>4, <3>1 DEF PresentResume
  <2>5. ASSUME NEW ds \in SUBSET Device, Report(s, ds)
        PROVE  conn'[x] = "open" /\ deviceOf'[x] # None
    BY <1>0, <2>5 DEF Report
  <2>6. CASE Logout(s)
    BY <1>0, <2>6 DEF Logout, Forget
  <2>7. CASE (Reject(s) /\ ~HandleDisconnect(s)) \/ MarkOffline(s) \/ PresentCreateRejected(s)
              \/ PresentWrite(s) \/ PresentLookup(s) \/ PresentFails(s) \/ LeaveFails(s)
              \/ PresentInvalidate(s) \/ LeaveInvalidate(s)
              \/ (\E d \in Device : PresentCreate(s, d))
    <3>1. UNCHANGED <<conn, maps>>
      BY <2>7 DEF Reject, MarkOffline, PresentCreate, PresentCreateRejected, PresentWrite,
         PresentLookup, PresentFails, LeaveFails, PresentInvalidate, LeaveInvalidate
    <3> QED
      BY <1>1, <3>1
  <2> QED
    BY <1>2, <2>1, <2>2, <2>3, <2>4, <2>5, <2>6, <2>7
       DEF SocketStep, Resume, Message, Disconnect
<1>3. ASSUME NEW h \in Http, HttpStep(h) \/ HttpInvalidate(h) \/ HttpFails(h)
      PROVE  conn'[x] = "open" /\ deviceOf'[x] # None
  BY <1>1, <1>3, HttpKeepsSockets
<1>4. CASE Crash
  BY <1>4 DEF Crash
<1>5. CASE UNCHANGED vars
  BY <1>1, <1>5 DEF vars, maps
<1> QED
  BY <1>2, <1>3, <1>4, <1>5, NextSteps

\* A report never outlives its socket, whatever clients and failures do: a
\* later disconnect counts reports of open sockets only
\* (PrintEventsGateway.handleDisconnect, handlePrinterLogout).
THEOREM ReportsAreLiveHolds == Spec => []ReportsAreLive
<1>1. Init => LiveReports
  BY DEF Init, LiveReports
<1> QED
  BY <1>1, ReportsStep, SnapshotOfReports, TypeCorrect, PTL DEF Spec

-----------------------------------------------------------------------------
(* Sockets that close after their handlers are done.                       *)

\* What holds of a socket that is not open, and of one being verified, so
\* long as no socket closes while one of its handlers is suspended.
Quiet(s) ==
    /\ conn[s] # "open" => /\ s \notin verifying
                           /\ deviceOf[s] = None
                           /\ report[s] = {}
                           /\ rooms[s] = {}
                           /\ present[s].at = "idle"
    /\ s \in verifying => deviceOf[s] = None /\ present[s].at = "idle"

QuietInv == "hasty" \notin Moves => \A s \in Socket : Quiet(s)

LEMMA QuietStep == TypeOK /\ QuietInv /\ [Next]_vars => QuietInv'
<1> SUFFICES ASSUME TypeOK, \A s \in Socket : Quiet(s), [Next]_vars, "hasty" \notin Moves,
                    NEW x \in Socket
             PROVE  Quiet(x)'
  BY DEF QuietInv
<1>0. /\ conn \in [Socket -> {"new", "open", "closed"}]
      /\ verifying \subseteq Socket
      /\ deviceOf \in [Socket -> Device \cup {None}]
      /\ report \in [Socket -> SUBSET Device]
      /\ rooms \in [Socket -> SUBSET Device]
      /\ present \in [Socket -> PresentState]
  BY TypeParts DEF ConnOK, MapsOK, PresentOK
<1>1. CASE UNCHANGED <<conn, verifying, maps>> /\ present'[x].at = present[x].at
  BY <1>1 DEF maps, Quiet
<1>2. ASSUME NEW s \in Socket, SocketStep(s)
      PROVE  Quiet(x)'
  <2>0. Quiet(s) /\ Quiet(x)
    OBVIOUS
  <2>1. CASE Connect(s)
    BY <1>0, <2>0, <2>1 DEF Connect, maps, Quiet
  <2>2. CASE Authenticate(s)
    BY <1>0, <2>0, <2>2 DEF Authenticate, Quiet
  <2>3. CASE Disconnect(s)
    BY <1>0, <2>0, <2>3 DEF Disconnect, HandleDisconnect, Forget, Quiet
  <2>4. CASE Reject(s)
    BY <1>0, <2>0, <2>4 DEF Reject, HandleDisconnect, Forget, maps, Quiet
  <2>5. CASE PresentLookup(s)
    <3>1. conn[s] = "open" /\ s \notin verifying
      BY <2>0, <2>5 DEF PresentLookup, Quiet
    <3>2. UNCHANGED <<conn, verifying, maps>> /\ (x # s => present'[x].at = present[x].at)
      BY <1>0, <2>5 DEF PresentLookup, Presenting
    <3> QED
      BY <2>0, <3>1, <3>2 DEF maps, Quiet
  <2>6. CASE PresentResume(s)
    <3>1. conn[s] = "open" /\ s \notin verifying
      BY <2>0, <2>6 DEF PresentResume, Quiet
    <3>2. /\ UNCHANGED <<conn, verifying, report>>
          /\ x # s => /\ present'[x].at = present[x].at
                      /\ deviceOf'[x] = deviceOf[x]
                      /\ rooms'[x] = rooms[x]
      BY <1>0, <2>6 DEF PresentResume, Presenting
    <3> QED
      BY <2>0, <3>1, <3>2 DEF Quiet
  <2>7. CASE PresentCreateRejected(s) \/ PresentWrite(s) \/ PresentFails(s)
             \/ PresentInvalidate(s) \/ (\E d \in Device : PresentCreate(s, d))
    <3>1. conn[s] = "open" /\ s \notin verifying
      BY <2>0, <2>7 DEF PresentCreate, PresentCreateRejected, PresentWrite, PresentFails,
         PresentInvalidate, Quiet
    <3>2. UNCHANGED <<conn, verifying, maps>> /\ (x # s => present'[x].at = present[x].at)
      BY <1>0, <2>7 DEF PresentCreate, PresentCreateRejected, PresentWrite, PresentFails,
         PresentInvalidate, Presenting
    <3> QED
      BY <2>0, <3>1, <3>2 DEF maps, Quiet
  <2>8. ASSUME NEW ds \in SUBSET Device, Report(s, ds)
        PROVE  Quiet(x)'
    BY <1>0, <2>0, <2>8 DEF Report, Quiet
  <2>9. CASE Logout(s)
    BY <1>0, <2>0, <2>9 DEF Logout, Forget, Quiet
  <2>10. CASE MarkOffline(s) \/ LeaveFails(s) \/ LeaveInvalidate(s)
    BY <1>1, <2>10 DEF MarkOffline, LeaveFails, LeaveInvalidate
  <2> QED
    BY <1>2, <2>1, <2>2, <2>3, <2>4, <2>5, <2>6, <2>7, <2>8, <2>9, <2>10
       DEF SocketStep, Resume, Message
<1>3. ASSUME NEW h \in Http, HttpStep(h) \/ HttpInvalidate(h) \/ HttpFails(h)
      PROVE  Quiet(x)'
  BY <1>1, <1>3, HttpKeepsSockets
<1>4. CASE Crash
  BY <1>4, IdleTypes DEF Crash, Quiet
<1>5. CASE UNCHANGED vars
  BY <1>1, <1>5 DEF vars, maps
<1> QED
  BY <1>2, <1>3, <1>4, <1>5, NextSteps

\* A socket that closes with no handler of its own suspended leaves no entry,
\* no report and no room behind, with any other failure or client
\* (PrintEventsGateway.handleDisconnect).
THEOREM NothingLeaksHolds == Spec => []NothingLeaks
<1>1. Init => QuietInv
  <2>1. IdlePresent.at = "idle"
    BY DEF IdlePresent
  <2>2. SUFFICES ASSUME Init, NEW s \in Socket
                 PROVE  Quiet(s)
    BY DEF QuietInv
  <2> QED
    BY <2>1, <2>2 DEF Init, Quiet
<1>2. QuietInv => NothingLeaks
  BY DEF QuietInv, Quiet, NothingLeaks
<1> QED
  BY <1>1, <1>2, QuietStep, TypeCorrect, PTL DEF Spec

-----------------------------------------------------------------------------
(* Devices that are on, and the sockets that serve them.                   *)

\* The hypothesis of OnlineIsServed.
Ordinary == Moves = {} /\ AdminStatus \cap On = {}

\* Socket s serves d, or its handler is about to settle the status of d.
Attends(s, d) ==
    \/ Serves(s, d)
    \/ leaving[s].at = "write" /\ d \in leaving[s].devices
    \/ present[s].at = "resume" /\ present[s].device = d

\* An ordinary client's socket is in the rooms of all it stands for, presents
\* nothing that would make it forget a device it has not reported, and has a
\* disconnect in flight only once it is closed.
Steady(s) ==
    /\ deviceOf[s] # None => deviceOf[s] \in rooms[s]
    /\ report[s] \subseteq rooms[s]
    /\ present[s].at = "create" => deviceOf[s] \in report[s]
    /\ present[s].at \in {"write", "resume"} =>
          deviceOf[s] \in report[s] \cup {present[s].device}
    /\ leaving[s].at # "idle" => conn[s] = "closed"

\* No heartbeat has an on to write back.
NoneRaises == \A h \in Http : http[h].found \notin On

OrdinaryInv ==
    /\ TypeOK /\ LiveReports
    /\ \A s \in Socket : Quiet(s) /\ Steady(s)
    /\ NoneRaises
    /\ \A d \in Device : status[d] \in On => \E s \in Socket : Attends(s, d)

LEMMA OrdinaryTypes ==
    ASSUME TypeOK
    PROVE  /\ conn \in [Socket -> {"new", "open", "closed"}]
           /\ verifying \subseteq Socket
           /\ deviceOf \in [Socket -> Device \cup {None}]
           /\ report \in [Socket -> SUBSET Device]
           /\ rooms \in [Socket -> SUBSET Device]
           /\ status \in [Device -> DeviceStatus \cup {"absent", "deleted"}]
           /\ present \in [Socket -> PresentState]
           /\ leaving \in [Socket -> LeaveState]
           /\ \A s \in Socket : present[s].at \in {"write", "resume"} => present[s].device \in Device
BY TypeParts DEF ConnOK, MapsOK, StatusOK, PresentOK, LeavingOK

\* A present that moves is where it moved, and the others where they were.
LEMMA Presents ==
    ASSUME TypeOK, NEW s \in Socket, NEW at, NEW d, Presenting(s, at, d)
    PROVE  /\ present'[s].at = at /\ present'[s].device = d
           /\ \A x \in Socket \ {s} : present'[x] = present[x]
BY OrdinaryTypes DEF Presenting

LEMMA Leaves ==
    ASSUME TypeOK, NEW s \in Socket, NEW at, NEW ds, Leaving(s, at, ds)
    PROVE  /\ leaving'[s].at = at /\ leaving'[s].devices = ds
           /\ \A x \in Socket \ {s} : leaving'[x] = leaving[x]
BY OrdinaryTypes DEF Leaving

\* A step of one socket says nothing of the others.
LEMMA OthersKeep ==
    ASSUME TypeOK, NEW s \in Socket, SocketStep(s), NEW x \in Socket \ {s}
    PROVE  /\ conn'[x] = conn[x] /\ deviceOf'[x] = deviceOf[x]
           /\ report'[x] = report[x] /\ rooms'[x] = rooms[x]
           /\ present'[x] = present[x] /\ leaving'[x] = leaving[x]
<1>1. /\ \A at, d : Presenting(s, at, d) => present'[x] = present[x]
      /\ \A at, ds : Leaving(s, at, ds) => leaving'[x] = leaving[x]
  BY Presents, Leaves
<1>2. CASE Connect(s) \/ Authenticate(s) \/ Logout(s) \/ (\E ds \in SUBSET Device : Report(s, ds))
  BY <1>2, OrdinaryTypes DEF Connect, Authenticate, Logout, Report, Forget, maps
<1>3. CASE Disconnect(s) \/ Reject(s)
  BY <1>1, <1>3, OrdinaryTypes DEF Disconnect, Reject, HandleDisconnect, Forget, maps
<1>4. CASE MarkOffline(s) \/ LeaveInvalidate(s) \/ LeaveFails(s)
  BY <1>1, <1>4 DEF MarkOffline, LeaveInvalidate, LeaveFails, maps
<1>5. CASE PresentLookup(s) \/ (\E d \in Device : PresentCreate(s, d)) \/ PresentCreateRejected(s)
           \/ PresentWrite(s) \/ PresentInvalidate(s) \/ PresentFails(s)
  BY <1>1, <1>5 DEF PresentLookup, PresentCreate, PresentCreateRejected, PresentWrite,
     PresentInvalidate, PresentFails, maps
<1>6. CASE PresentResume(s)
  BY <1>1, <1>6, OrdinaryTypes DEF PresentResume
<1> QED
  BY <1>2, <1>3, <1>4, <1>5, <1>6 DEF SocketStep, Resume, Message

LEMMA SteadyStep ==
    ASSUME OrdinaryInv, Ordinary, NEW s \in Socket, SocketStep(s)
    PROVE  Steady(s)'
<1>0. /\ TypeOK /\ Quiet(s) /\ Steady(s) /\ Moves = {}
      /\ report[s] # {} => conn[s] = "open" /\ deviceOf[s] # None
      /\ None \notin Device
  BY NoneIsNoDevice DEF OrdinaryInv, Ordinary, LiveReports
<1>t. /\ deviceOf[s] \in Device \cup {None} /\ report[s] \subseteq Device
      /\ present[s].at \in {"write", "resume"} => present[s].device \in Device
  BY <1>0, OrdinaryTypes
<1>1. CASE Connect(s)
  BY <1>0, <1>1, OrdinaryTypes DEF Connect, maps, Steady
<1>2. CASE Authenticate(s)
  BY <1>0, <1>2, OrdinaryTypes DEF Authenticate, Quiet, Steady
<1>3. CASE (Disconnect(s) \/ Reject(s)) /\ HandleDisconnect(s)
  <2>1. conn'[s] = "closed" /\ deviceOf'[s] = None /\ report'[s] = {} /\ rooms'[s] = {}
    BY <1>0, <1>3, OrdinaryTypes DEF HandleDisconnect, Forget
  <2>2. present'[s] = present[s] /\ present[s].at = "idle"
    BY <1>0, <1>3 DEF Disconnect, Reject, Quiet
  <2> QED
    BY <2>1, <2>2 DEF Steady
<1>4. CASE MarkOffline(s) \/ LeaveInvalidate(s) \/ LeaveFails(s)
  BY <1>0, <1>4 DEF MarkOffline, LeaveInvalidate, LeaveFails, maps, Leaving, Steady
<1>5. CASE PresentLookup(s)
  BY <1>0, <1>5, Presents DEF PresentLookup, maps, Steady
<1>6. ASSUME NEW d \in Device, PresentCreate(s, d) PROVE Steady(s)'
  BY <1>0, <1>6, Presents DEF PresentCreate, maps, Steady
<1>7. CASE PresentWrite(s)
  BY <1>0, <1>7, Presents DEF PresentWrite, maps, Steady
<1>8. CASE PresentCreateRejected(s) \/ PresentInvalidate(s) \/ PresentFails(s)
  BY <1>0, <1>8, Presents DEF PresentCreateRejected, PresentInvalidate, PresentFails, maps, Steady
<1>9. CASE PresentResume(s)
  <2>1. /\ deviceOf'[s] = present[s].device
        /\ rooms'[s] = rooms[s] \cup {present[s].device}
        /\ report'[s] = report[s] /\ conn'[s] = conn[s] /\ leaving'[s] = leaving[s]
        /\ present'[s].at = "invalidate"
    BY <1>0, <1>9, OrdinaryTypes, Presents DEF PresentResume
  <2> QED
    BY <1>0, <2>1 DEF Steady
<1>10. ASSUME NEW ds \in SUBSET Device, Report(s, ds) PROVE Steady(s)'
  <2>1. /\ report'[s] = EffectiveReport(s, ds)
        /\ report[s] \subseteq report'[s] /\ report'[s] \subseteq rooms[s]
        /\ UNCHANGED <<conn, deviceOf, rooms, present, leaving>>
    BY <1>0, <1>10, OrdinaryTypes DEF Report
  <2> QED
    BY <1>0, <2>1 DEF Steady
<1>11. CASE Reject(s) /\ ~HandleDisconnect(s)
  BY <1>0, <1>11 DEF Reject, maps, Steady
<1> QED
  BY <1>0, <1>1, <1>2, <1>3, <1>4, <1>5, <1>6, <1>7, <1>8, <1>9, <1>10, <1>11
     DEF SocketStep, Resume, Message, Logout, Disconnect

\* What a disconnect takes out of the maps it hands to its updateMany, or
\* another socket reports it and so serves it.
LEMMA DisconnectServes ==
    ASSUME OrdinaryInv, NEW s \in Socket, HandleDisconnect(s), UNCHANGED present,
           conn[s] = "open", present[s].at = "idle", NEW d \in Device,
           \E w \in Socket : Attends(w, d),
           \A x \in Socket \ {s} : /\ conn'[x] = conn[x] /\ deviceOf'[x] = deviceOf[x]
                                   /\ report'[x] = report[x] /\ rooms'[x] = rooms[x]
                                   /\ leaving'[x] = leaving[x]
    PROVE  \E w \in Socket : Attends(w, d)'
<1>0. /\ TypeOK /\ LiveReports /\ \A x \in Socket : Steady(x)
      /\ leaving[s].at = "idle" /\ None \notin Device
  BY NoneIsNoDevice, OrdinaryTypes DEF OrdinaryInv, Steady, LeaveState
<1>1. PICK w \in Socket : Attends(w, d)
  OBVIOUS
<1>2. CASE w # s
  BY <1>1, <1>2 DEF Attends, Serves
<1>3. CASE w = s /\ d \in ReportedByOthers(s)
  <2>1. PICK x \in Socket \ {s} : d \in report[x]
    BY <1>3 DEF ReportedByOthers
  <2>2. conn[x] = "open" /\ deviceOf[x] # None /\ d \in rooms[x]
    BY <1>0, <2>1 DEF LiveReports, Steady
  <2> QED
    BY <2>1, <2>2 DEF Attends, Serves
<1>4. CASE w = s /\ d \notin ReportedByOthers(s)
  <2>1. d \in DisconnectedDevices(s) \ ReportedByOthers(s)
    BY <1>0, <1>1, <1>4 DEF Attends, Serves, DisconnectedDevices
  <2>2. Leaving(s, "write", DisconnectedDevices(s) \ ReportedByOthers(s))
    BY <2>1 DEF HandleDisconnect
  <2>3. leaving'[s].at = "write" /\ d \in leaving'[s].devices
    BY <1>0, <2>1, <2>2, Leaves
  <2> QED
    BY <2>3 DEF Attends
<1> QED
  BY <1>2, <1>3, <1>4

\* A device that a step of a socket leaves on is attended afterwards.
LEMMA ServedStep ==
    ASSUME OrdinaryInv, Ordinary, NEW s \in Socket, SocketStep(s),
           NEW d \in Device, status'[d] \in On
    PROVE  \E w \in Socket : Attends(w, d)'
<1>0. /\ TypeOK /\ LiveReports /\ Quiet(s) /\ Steady(s) /\ Moves = {} /\ None \notin Device
      /\ status[d] \in On => \E w \in Socket : Attends(w, d)
  BY NoneIsNoDevice DEF OrdinaryInv, Ordinary
<1>o. \A x \in Socket \ {s} :
          /\ conn'[x] = conn[x] /\ deviceOf'[x] = deviceOf[x]
          /\ report'[x] = report[x] /\ rooms'[x] = rooms[x]
          /\ present'[x] = present[x] /\ leaving'[x] = leaving[x]
  BY <1>0, OthersKeep
<1>w. ASSUME status[d] \in On, Attends(s, d) => Attends(s, d)'
      PROVE  \E w \in Socket : Attends(w, d)'
  BY <1>0, <1>o, <1>w DEF Attends, Serves
<1>1. CASE Connect(s)
  <2>1. status' = status /\ ~Serves(s, d) /\ UNCHANGED <<present, leaving>>
    BY <1>1 DEF Connect, Serves
  <2> QED
    BY <1>0, <1>w, <2>1 DEF Attends
<1>2. CASE Authenticate(s)
  <2>1. status' = status /\ ~Serves(s, d) /\ UNCHANGED <<present, leaving>>
    BY <1>0, <1>2 DEF Authenticate, Serves, Quiet
  <2> QED
    BY <1>0, <1>w, <2>1 DEF Attends
<1>3. CASE (Disconnect(s) \/ Reject(s)) /\ HandleDisconnect(s)
  <2>1. status' = status /\ UNCHANGED present
    BY <1>3 DEF Disconnect, Reject
  <2>2. conn[s] = "open" /\ present[s].at = "idle"
    BY <1>0, <1>3 DEF Disconnect, Reject, Quiet
  <2> QED
    BY <1>0, <1>3, <1>o, <2>1, <2>2, DisconnectServes
<1>4. CASE MarkOffline(s)
  <2>1. status'[d] = AfterLeave(s, d) /\ "offline" \notin On
    BY <1>4 DEF MarkOffline, On
  <2>2. status[d] \in On /\ ~(leaving[s].at = "write" /\ d \in leaving[s].devices)
    BY <2>1 DEF AfterLeave
  <2>3. UNCHANGED <<conn, maps, present>>
    BY <1>4 DEF MarkOffline
  <2> QED
    BY <1>w, <2>2, <2>3 DEF Attends, Serves, maps
<1>5. CASE LeaveInvalidate(s) \/ PresentLookup(s) \/ PresentCreateRejected(s) \/ PresentInvalidate(s)
  <2>1. UNCHANGED <<conn, maps, status>>
    BY <1>5 DEF LeaveInvalidate, PresentLookup, PresentCreateRejected, PresentInvalidate
  <2>2. /\ leaving[s].at = "write" => leaving' = leaving
        /\ present[s].at = "resume" => present' = present
    BY <1>5 DEF LeaveInvalidate, PresentLookup, PresentCreateRejected, PresentInvalidate
  <2> QED
    BY <1>0, <1>w, <2>1, <2>2 DEF Attends, Serves, maps
<1>6. ASSUME NEW e \in Device, PresentCreate(s, e) PROVE \E w \in Socket : Attends(w, d)'
  <2>1. status'[d] = status[d]
    BY <1>0, <1>6, OrdinaryTypes DEF PresentCreate, On
  <2>2. UNCHANGED <<conn, maps, leaving>> /\ present[s].at = "create"
    BY <1>6 DEF PresentCreate
  <2> QED
    BY <1>0, <1>w, <2>1, <2>2 DEF Attends, Serves, maps
<1>7. CASE PresentWrite(s)
  <2>1. UNCHANGED <<conn, maps, leaving>> /\ present[s].at = "write"
    BY <1>7 DEF PresentWrite
  <2>2. CASE Exists(present[s].device) /\ d = present[s].device
    <3>1. present'[s].at = "resume" /\ present'[s].device = d
      BY <1>0, <1>7, <2>2, Presents DEF PresentWrite
    <3> QED
      BY <3>1 DEF Attends
  <2>3. CASE ~(Exists(present[s].device) /\ d = present[s].device)
    <3>1. status'[d] = status[d]
      BY <1>0, <1>7, <2>3, OrdinaryTypes DEF PresentWrite
    <3> QED
      BY <1>0, <1>w, <2>1, <3>1 DEF Attends, Serves, maps
  <2> QED
    BY <2>2, <2>3
<1>8. CASE PresentResume(s)
  <2>1. /\ status' = status /\ leaving' = leaving /\ report' = report /\ conn' = conn
        /\ deviceOf'[s] = present[s].device
        /\ rooms'[s] = rooms[s] \cup {present[s].device}
        /\ present[s].at = "resume" /\ present[s].device \in Device
    BY <1>0, <1>8, OrdinaryTypes DEF PresentResume
  <2>2. conn[s] = "open"
    BY <1>0, <2>1 DEF Quiet
  <2> QED
    BY <1>0, <1>w, <2>1, <2>2 DEF Attends, Serves, Steady
<1>9. ASSUME NEW ds \in SUBSET Device, Report(s, ds) PROVE \E w \in Socket : Attends(w, d)'
  <2>1. /\ report[s] \subseteq report'[s]
        /\ UNCHANGED <<conn, deviceOf, rooms, status, present, leaving>>
    BY <1>0, <1>9, OrdinaryTypes DEF Report
  <2> QED
    BY <1>0, <1>w, <2>1 DEF Attends, Serves
<1>10. CASE Reject(s) /\ ~HandleDisconnect(s)
  <2>1. UNCHANGED <<conn, maps, status, present, leaving>>
    BY <1>10 DEF Reject
  <2> QED
    BY <1>0, <1>w, <2>1 DEF Attends, Serves, maps
<1>11. ~LeaveFails(s) /\ ~PresentFails(s) /\ ~Logout(s)
  BY <1>0 DEF LeaveFails, PresentFails, Logout
<1> QED
  BY <1>1, <1>2, <1>3, <1>4, <1>5, <1>6, <1>7, <1>8, <1>9, <1>10, <1>11
     DEF SocketStep, Resume, Message, Disconnect

\* Operators turn no device on, and no heartbeat has an on to write back.
LEMMA HttpServes ==
    ASSUME OrdinaryInv, Ordinary, NEW h \in Http,
           HttpStep(h) \/ HttpInvalidate(h) \/ HttpFails(h)
    PROVE  /\ NoneRaises'
           /\ \A d \in Device : status'[d] \in On => status[d] \in On
<1>0. /\ TypeOK /\ Moves = {} /\ AdminStatus \cap On = {}
      /\ http \in [Http -> HttpState]
      /\ \A x \in Http : http[x].found \notin On
  BY TypeParts DEF OrdinaryInv, Ordinary, NoneRaises, HttpOK
<1>1. \A at, e, st : Serving(h, at, e, st) =>
          http'[h].found = st /\ \A x \in Http \ {h} : http'[x] = http[x]
  BY <1>0 DEF Serving
<1>2. "deleted" \notin On /\ "unknown" \notin On
  BY DEF On
<1>3. CASE HelperLookup(h) \/ HelperRejected(h) \/ HttpInvalidate(h) \/ HttpFails(h)
  BY <1>0, <1>1, <1>2, <1>3
     DEF HelperLookup, HelperRejected, HttpInvalidate, HttpFails, NoneRaises
<1>4. ASSUME NEW e \in Device, NEW st \in DeviceStatus \cup {"deleted"}, NEW at, NEW x,
             st \notin On \/ st = status[e],
             status' = [status EXCEPT ![e] = st], Serving(h, at, x, "unknown")
      PROVE  NoneRaises' /\ \A d \in Device : status'[d] \in On => status[d] \in On
  BY <1>0, <1>1, <1>2, <1>4, OrdinaryTypes DEF NoneRaises
<1>5. CASE \E e \in Device : HelperCreate(h, e)
  <2>1. PICK e \in Device : HelperCreate(h, e)
    BY <1>5
  <2>2. status' = [status EXCEPT ![e] = "unknown"] /\ Serving(h, "write", e, "unknown")
    BY <2>1 DEF HelperCreate
  <2>3. "unknown" \in DeviceStatus \cup {"deleted"}
    BY DEF DeviceStatus
  <2> QED
    BY <1>2, <1>4, <2>2, <2>3
<1>6. CASE HelperWrite(h)
  <2>1. http[h].device \in Device
    BY <1>0, <1>6 DEF HelperWrite, TypeOK
  <2>2. Preserved(http[h].found) = "unknown"
    BY <1>0 DEF Preserved
  <2> QED
    BY <1>2, <1>4, <1>6, <2>1, <2>2 DEF HelperWrite, DeviceStatus
<1>7. ASSUME NEW e \in Device, NEW st \in DeviceStatus \cup {"deleted"},
             st \notin On \/ st = status[e],
             status' = [status EXCEPT ![e] = st], Serving(h, "invalidate", None, "unknown")
      PROVE  NoneRaises' /\ \A d \in Device : status'[d] \in On => status[d] \in On
  BY <1>4, <1>7
<1> QED
  BY <1>0, <1>2, <1>3, <1>5, <1>6, <1>7, AdminStatusIsStatus
     DEF HttpStep, AdminCreate, AdminPatch, AdminDelete, Exists

LEMMA OrdinaryStep == OrdinaryInv /\ Ordinary /\ [Next]_vars => OrdinaryInv'
<1> SUFFICES ASSUME OrdinaryInv, Ordinary, [Next]_vars PROVE OrdinaryInv'
  OBVIOUS
<1>0. /\ TypeOK /\ LiveReports /\ QuietInv /\ "hasty" \notin Moves
      /\ \A x \in Socket : Steady(x)
      /\ NoneRaises
      /\ \A d \in Device : status[d] \in On => \E w \in Socket : Attends(w, d)
  BY DEF OrdinaryInv, Ordinary, QuietInv
<1>1. TypeOK' /\ LiveReports' /\ \A x \in Socket : Quiet(x)'
  BY <1>0, TypeStep, ReportsStep, QuietStep DEF QuietInv
<1>2. ASSUME NEW s \in Socket, SocketStep(s) PROVE OrdinaryInv'
  <2>1. \A x \in Socket : Steady(x)'
    BY <1>0, <1>2, SteadyStep, OthersKeep DEF Steady
  <2>2. \A d \in Device : status'[d] \in On => \E w \in Socket : Attends(w, d)'
    BY <1>2, ServedStep
  <2>3. http' = http
    BY <1>2 DEF SocketStep, Resume, Message, Connect, Authenticate, Disconnect, Reject,
       MarkOffline, LeaveInvalidate, LeaveFails, PresentLookup, PresentCreate,
       PresentCreateRejected, PresentWrite, PresentResume, PresentInvalidate, PresentFails,
       Report, Logout
  <2> QED
    BY <1>0, <1>1, <2>1, <2>2, <2>3 DEF OrdinaryInv, NoneRaises
<1>3. ASSUME NEW h \in Http, HttpStep(h) \/ HttpInvalidate(h) \/ HttpFails(h) PROVE OrdinaryInv'
  <2>1. UNCHANGED <<conn, maps, present, leaving>>
    BY <1>3, HttpKeepsSockets
  <2>2. NoneRaises' /\ \A d \in Device : status'[d] \in On => status[d] \in On
    BY <1>3, HttpServes
  <2> QED
    BY <1>0, <1>1, <2>1, <2>2 DEF OrdinaryInv, Steady, Attends, Serves, maps
<1>4. ~Crash
  BY DEF Ordinary, Crash
<1>5. CASE UNCHANGED vars
  BY <1>0, <1>1, <1>5 DEF vars, maps, OrdinaryInv, Steady, Attends, Serves, NoneRaises
<1> QED
  BY <1>2, <1>3, <1>4, <1>5, NextSteps

LEMMA OrdinaryInit == Init => OrdinaryInv
<1> SUFFICES ASSUME Init PROVE OrdinaryInv
  OBVIOUS
<1>1. TypeOK
  BY TypeInit
<1>2. LiveReports /\ NoneRaises /\ \A d \in Device : status[d] \notin On
  BY DEF Init, LiveReports, NoneRaises, IdleHttp, On
<1>3. \A s \in Socket : Quiet(s) /\ Steady(s)
  BY DEF Init, Quiet, Steady, IdlePresent, IdleLeave
<1> QED
  BY <1>1, <1>2, <1>3 DEF OrdinaryInv

\* A device that is listed as online has a socket to deliver to, or a handler
\* is about to settle its status, with any number of sockets and devices, as
\* long as clients are ordinary and nothing fails (handleDevicePresent,
\* handleActiveDevicesReport, handleDisconnect).
THEOREM OnlineIsServedHolds == Spec => []OnlineIsServed
<1>1. OrdinaryInv => OnlineIsServed
  BY DEF OrdinaryInv, OnlineIsServed, Attends
<1>2. CASE Ordinary
  BY <1>1, <1>2, OrdinaryInit, OrdinaryStep, PTL DEF Spec
<1>3. CASE ~Ordinary
  <2>1. OnlineIsServed
    BY <1>3 DEF Ordinary, OnlineIsServed
  <2> QED
    BY <2>1, PTL
<1> QED
  BY <1>2, <1>3

-----------------------------------------------------------------------------
(* Who may bring a device back.                                            *)

\* Writing another handler's slot leaves a heartbeat as it was.
LEMMA SlotServes ==
    ASSUME TypeOK, NEW h \in Http, NEW at, NEW e, NEW st, Serving(h, at, e, st)
    PROVE  /\ http'[h].at = at /\ http'[h].device = e /\ http'[h].found = st
           /\ \A x \in Http \ {h} : http'[x] = http[x]
BY DEF TypeOK, Serving

LEMMA HttpSettled ==
    ASSUME TypeOK, NEW h \in Http, HttpStep(h) \/ HttpInvalidate(h) \/ HttpFails(h),
           NEW d \in Device, SettledOff(d), ~Revived(d)
    PROVE  SettledOff(d)'
<1>0. status \in [Device -> DeviceStatus \cup {"absent", "deleted"}]
  BY DEF TypeOK
<1>1. "unknown" \notin On /\ "deleted" \notin On
  BY DEF On
<1>2. CASE HelperLookup(h)
  <2>1. \/ \E e \in Device : Serving(h, "write", e, status[e])
        \/ Serving(h, "create", None, "unknown")
    BY <1>2 DEF HelperLookup
  <2>2. ~Raising(h, d)'
    BY <2>1, SlotServes DEF Raising, SettledOff
  <2> QED
    BY <1>2, <2>1, <2>2, SlotServes DEF HelperLookup, SettledOff, Raising
<1>3. CASE \E e \in Device : HelperCreate(h, e)
  <2>1. PICK e \in Device : HelperCreate(h, e)
    BY <1>3
  <2> QED
    BY <1>0, <1>1, <2>1, SlotServes DEF HelperCreate, SettledOff, Raising
<1>4. CASE HelperWrite(h)
  <2>1. http[h].device = d => Preserved(http[h].found) \notin On
    BY <1>1, <1>4 DEF HelperWrite, SettledOff, Raising, Preserved
  <2>2. status'[d] \notin On
    BY <1>0, <1>4, <2>1 DEF HelperWrite, SettledOff
  <2> QED
    BY <1>4, <2>2, SlotServes DEF HelperWrite, SettledOff, Raising
<1>5. CASE HelperRejected(h) \/ HttpInvalidate(h) \/ HttpFails(h)
  <2>1. status' = status /\ Serving(h, "idle", None, "unknown")
    BY <1>5 DEF HelperRejected, HttpInvalidate, HttpFails
  <2> QED
    BY <2>1, SlotServes DEF SettledOff, Raising
<1>6. CASE \/ \E e \in Device, st \in AdminStatus : AdminCreate(h, e, st)
           \/ \E e \in Device : \E st \in AdminStatus \cup {status[e]} : AdminPatch(h, e, st)
  <2>1. PICK e \in Device : \E st \in AdminStatus \cup {status[e]} :
            AdminPatch(h, e, st) \/ (AdminCreate(h, e, st) /\ st \in AdminStatus)
    BY <1>6
  <2>2. PICK st \in AdminStatus \cup {status[e]} :
            AdminPatch(h, e, st) \/ (AdminCreate(h, e, st) /\ st \in AdminStatus)
    BY <2>1
  <2>3. status' = [status EXCEPT ![e] = st] /\ Serving(h, "invalidate", None, "unknown")
    BY <2>2 DEF AdminCreate, AdminPatch
  <2>4. e = d => st \notin On
    BY <2>2 DEF Revived, SettledOff
  <2> QED
    BY <1>0, <2>3, <2>4, SlotServes DEF SettledOff, Raising
<1>7. CASE \E e \in Device : AdminDelete(h, e)
  <2>1. PICK e \in Device : AdminDelete(h, e)
    BY <1>7
  <2> QED
    BY <1>0, <1>1, <2>1, SlotServes DEF AdminDelete, SettledOff, Raising
<1> QED
  BY <1>2, <1>3, <1>4, <1>5, <1>6, <1>7 DEF HttpStep

LEMMA SocketSettled ==
    ASSUME TypeOK, NEW s \in Socket, SocketStep(s), NEW d \in Device, SettledOff(d), ~Revived(d)
    PROVE  SettledOff(d)'
<1>0. status \in [Device -> DeviceStatus \cup {"absent", "deleted"}]
  BY DEF TypeOK
<1>1. http' = http
  BY DEF SocketStep, Resume, Message, Connect, Authenticate, Disconnect, Reject, MarkOffline,
     LeaveInvalidate, LeaveFails, PresentLookup, PresentCreate, PresentCreateRejected,
     PresentWrite, PresentResume, PresentInvalidate, PresentFails, Report, Logout
<1>2. CASE MarkOffline(s)
  BY <1>0, <1>1, <1>2 DEF MarkOffline, AfterLeave, SettledOff, Raising, On
<1>3. CASE \E e \in Device : PresentCreate(s, e)
  BY <1>0, <1>1, <1>3 DEF PresentCreate, SettledOff, Raising, On
<1>4. CASE PresentWrite(s)
  BY <1>0, <1>1, <1>4 DEF PresentWrite, SettledOff, Raising, Revived
<1>5. CASE UNCHANGED status
  BY <1>1, <1>5 DEF SettledOff, Raising
<1> QED
  BY <1>2, <1>3, <1>4, <1>5 DEF SocketStep, Resume, Message, Connect, Authenticate, Disconnect,
     Reject, LeaveInvalidate, LeaveFails, PresentLookup, PresentCreateRejected, PresentResume,
     PresentInvalidate, PresentFails, Report, Logout

\* A heartbeat over HTTP preserves, it never revives, for any number of
\* sockets, requests and operators, whatever overlaps, fails or is lost in a
\* crash (presentForTenant, handleDevicePresent, create, update).
THEOREM HeartbeatNeverRevives == Spec => HeartbeatPreserves
<1>1. ASSUME TypeOK, [Next]_vars, NEW d \in Device, SettledOff(d), ~Revived(d)
      PROVE  SettledOff(d)'
  <2>1. CASE Crash
    BY <1>1, <2>1 DEF Crash, SettledOff, Raising, IdleHttp
  <2>2. CASE UNCHANGED vars
    BY <1>1, <2>2 DEF vars, SettledOff, Raising
  <2> QED
    BY <1>1, <2>1, <2>2, NextSteps, HttpSettled, SocketSettled
<1>2. TypeOK /\ [Next]_vars =>
        [\A d \in Device : SettledOff(d) => SettledOff(d)' \/ Revived(d)]_vars
  BY <1>1
<1> QED
  BY <1>2, TypeCorrect, PTL DEF Spec, HeartbeatPreserves
=============================================================================
