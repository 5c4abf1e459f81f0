---------------------------- MODULE DevicePresence ----------------------------
(***************************************************************************)
(* Device presence: the sockets of the "print" namespace, the gateway's    *)
(* maps in memory (socketAuthById, activeDevicesBySocket), the rooms of    *)
(* socket.io, and the status column of print_devices, which the gateway    *)
(* (connect, present, report, logout, disconnect), the HTTP heartbeat      *)
(* (POST /print-devices/present) and operators (create, PATCH, DELETE)     *)
(* write.  Each step runs to the next await.                               *)
(*                                                                         *)
(* One tenant.  A payload's identifier and MAC address are the client's    *)
(* choice, so a lookup may find any row or none.  A token of a printer     *)
(* client always names a device (auth.service.ts issueDeviceSession), so   *)
(* subscribe only joins a room that its socket is already in.  A socket    *)
(* that reconnects is a new socket.  The redis.del that ends a handler is  *)
(* a step here; what it deletes is in DeviceListing.                       *)
(***************************************************************************)
CONSTANTS
    Socket,       \* connections the server may ever see (bound)
    Device,       \* primary keys print_devices may ever use (bound)
    Http,         \* slots for HTTP requests in flight (bound)
    None,         \* no device
    Own,          \* Own[s]: the deviceId in the token of socket s
    AdminStatus,  \* statuses operators write
    Moves         \* the awkward things that may happen, see AllMoves

\* hasty:  a socket closes while one of its handlers is suspended
\* loose:  a socket stops reporting a device, reports one it never presented,
\*         or presents another device without reporting the last one
\* logout: a client sends print.auth.logout
\* helper: a client sends the HTTP heartbeat for a device that has a row
\* db:     a database call rejects
\* crash:  the process stops
\* redis:  see DeviceListing
AllMoves == {"hasty", "loose", "logout", "helper", "db", "crash", "redis"}

DeviceStatus == {"online", "busy", "offline", "paused", "unknown", "error"}
On == {"online", "busy"}

ASSUME NoneIsNoDevice == None \notin Device
ASSUME OwnIsDevice == Own \in [Socket -> Device]
ASSUME AdminStatusIsStatus == AdminStatus \subseteq DeviceStatus
ASSUME MovesAreMoves == Moves \subseteq AllMoves

VARIABLES
    conn,       \* conn[s]: "new", "open" or "closed"
    verifying,  \* sockets whose handleConnection awaits the token's checks
    deviceOf,   \* socketAuthById: the entry's deviceId, None if no entry
    report,     \* activeDevicesBySocket: the reported ids, {} if no entry
    rooms,      \* rooms[s]: the device rooms socket s is in
    status,     \* status[d]: the status column, or "absent" / "deleted"
    present,    \* present[s]: the socket's print.device.present in flight
    leaving,    \* leaving[s]: its handleDisconnect in flight
    http        \* http[h]: the HTTP request in flight in slot h

maps == <<deviceOf, report, rooms>>
vars == <<conn, verifying, deviceOf, report, rooms, status, present, leaving, http>>

-----------------------------------------------------------------------------
Stage == {"idle", "create", "write", "resume", "invalidate"}

IdlePresent == [at |-> "idle", device |-> None]
IdleLeave == [at |-> "idle", devices |-> {}]
IdleHttp == [at |-> "idle", device |-> None, found |-> "unknown"]

Exists(d) == status[d] \in DeviceStatus

Presenting(s, at, d) == present' = [present EXCEPT ![s] = [at |-> at, device |-> d]]
Leaving(s, at, ds) == leaving' = [leaving EXCEPT ![s] = [at |-> at, devices |-> ds]]
Serving(h, at, d, st) ==
    http' = [http EXCEPT ![h] = [at |-> at, device |-> d, found |-> st]]

Init ==
    /\ conn = [s \in Socket |-> "new"]
    /\ verifying = {}
    /\ deviceOf = [s \in Socket |-> None]
    /\ report = [s \in Socket |-> {}]
    /\ rooms = [s \in Socket |-> {}]
    /\ status = [d \in Device |-> IF \E s \in Socket : Own[s] = d
                                  THEN "unknown" ELSE "absent"]
    /\ present = [s \in Socket |-> IdlePresent]
    /\ leaving = [s \in Socket |-> IdleLeave]
    /\ http = [h \in Http |-> IdleHttp]

-----------------------------------------------------------------------------
(* Connections.                                                            *)

\* Up to the awaits of verifyAsync and isRevokedAsync.
Connect(s) ==
    /\ conn[s] = "new"
    /\ conn' = [conn EXCEPT ![s] = "open"]
    /\ verifying' = verifying \cup {s}
    /\ UNCHANGED <<maps, status, present, leaving, http>>

\* The token is good.  Whether the socket is still open is not checked.
Authenticate(s) ==
    /\ s \in verifying
    /\ verifying' = verifying \ {s}
    /\ deviceOf' = [deviceOf EXCEPT ![s] = Own[s]]
    /\ rooms' = [rooms EXCEPT ![s] = {Own[s]}]
    /\ UNCHANGED <<conn, report, status, present, leaving, http>>

\* Variant: the reports of the socket that leaves count too.
ReportedByAny(s) == UNION {report[x] : x \in Socket}

\* stillActiveDeviceIds: what the sockets that stay report.
ReportedByOthers(s) == UNION {report[x] : x \in Socket \ {s}}

\* Variant: a socket without an entry has a device too.
WithoutEntry(s) == report[s] \cup {deviceOf[s]}

\* Variant: only reported devices go offline.
OnlyReported(s) == report[s]

\* disconnectedDeviceIds.  (client.rooms is empty by the time socket.io emits
\* "disconnect".)
DisconnectedDevices(s) == report[s] \cup ({deviceOf[s]} \ {None})

\* Variant: the report outlives the socket.
ForgetEntryOnly(s) ==
    /\ deviceOf' = [deviceOf EXCEPT ![s] = None]
    /\ UNCHANGED report

\* Variant: the entry outlives the socket.
ForgetReportOnly(s) ==
    /\ report' = [report EXCEPT ![s] = {}]
    /\ UNCHANGED deviceOf

Forget(s) ==
    /\ deviceOf' = [deviceOf EXCEPT ![s] = None]
    /\ report' = [report EXCEPT ![s] = {}]

\* handleDisconnect up to its updateMany.
HandleDisconnect(s) ==
    LET offline == DisconnectedDevices(s) \ ReportedByOthers(s) IN
    /\ conn' = [conn EXCEPT ![s] = "closed"]
    /\ rooms' = [rooms EXCEPT ![s] = {}]
    /\ Forget(s)
    /\ IF offline # {} THEN Leaving(s, "write", offline) ELSE UNCHANGED leaving

\* The client goes away, or the server disconnects it: a message found its
\* session expired or revoked, or it logged out.
Disconnect(s) ==
    /\ conn[s] = "open"
    /\ "hasty" \in Moves \/ (s \notin verifying /\ present[s].at = "idle")
    /\ HandleDisconnect(s)
    /\ UNCHANGED <<verifying, status, present, http>>

\* The token is missing, invalid, revoked or of another scope.
Reject(s) ==
    /\ s \in verifying
    /\ verifying' = verifying \ {s}
    /\ IF conn[s] = "open" THEN HandleDisconnect(s) ELSE UNCHANGED <<conn, maps, leaving>>
    /\ UNCHANGED <<status, present, http>>

\* The status that the updateMany of a disconnect leaves device d with.
AfterLeave(s, d) ==
    IF d \in leaving[s].devices /\ status[d] \in On THEN "offline" ELSE status[d]

MarkOffline(s) ==
    /\ leaving[s].at = "write"
    /\ status' = [d \in Device |-> AfterLeave(s, d)]
    /\ Leaving(s, IF status' # status THEN "invalidate" ELSE "idle", {})
    /\ UNCHANGED <<conn, verifying, maps, present, http>>

LeaveInvalidate(s) ==
    /\ leaving[s].at = "invalidate"
    /\ Leaving(s, "idle", {})
    /\ UNCHANGED <<conn, verifying, maps, status, present, http>>

-----------------------------------------------------------------------------
(* print.device.present.                                                   *)

\* requireSocketAuth, then the lookups by MAC address and identifier.
PresentLookup(s) ==
    /\ conn[s] = "open"
    /\ deviceOf[s] # None
    /\ present[s].at = "idle"
    /\ \/ \E d \in Device :
             /\ Exists(d)
             /\ "loose" \in Moves \/ deviceOf[s] \in report[s] \cup {d}
             /\ Presenting(s, "write", d)
       \/ /\ "loose" \in Moves \/ deviceOf[s] \in report[s]
          /\ Presenting(s, "create", None)
    /\ UNCHANGED <<conn, verifying, maps, status, leaving, http>>

PresentCreate(s, d) ==
    /\ present[s].at = "create"
    /\ status[d] = "absent"
    /\ status' = [status EXCEPT ![d] = "unknown"]
    /\ Presenting(s, "write", d)
    /\ UNCHANGED <<conn, verifying, maps, leaving, http>>

\* The identifier was inserted by another handler after the lookup.
PresentCreateRejected(s) ==
    /\ present[s].at = "create"
    /\ \E d \in Device : Exists(d)
    /\ Presenting(s, "idle", None)
    /\ UNCHANGED <<conn, verifying, maps, status, leaving, http>>

\* The update commits; without a row it rejects and the handler ends.
PresentWrite(s) ==
    LET d == present[s].device IN
    /\ present[s].at = "write"
    /\ IF Exists(d)
       THEN /\ status' = [status EXCEPT ![d] = "online"]
            /\ Presenting(s, "resume", d)
       ELSE /\ Presenting(s, "idle", None)
            /\ UNCHANGED status
    /\ UNCHANGED <<conn, verifying, maps, leaving, http>>

\* The continuation: the entry is set whether or not it is still there, and
\* the socket joins the device's room.
PresentResume(s) ==
    LET d == present[s].device IN
    /\ present[s].at = "resume"
    /\ deviceOf' = [deviceOf EXCEPT ![s] = d]
    /\ rooms' = [rooms EXCEPT ![s] = @ \cup {d}]
    /\ Presenting(s, "invalidate", d)
    /\ UNCHANGED <<conn, verifying, report, status, leaving, http>>

PresentInvalidate(s) ==
    /\ present[s].at = "invalidate"
    /\ Presenting(s, "idle", None)
    /\ UNCHANGED <<conn, verifying, maps, status, leaving, http>>

-----------------------------------------------------------------------------
(* print.devices.active.report and print.auth.logout: no await.            *)

\* effectiveDeviceIds
EffectiveReport(s, ds) == IF ds = {} THEN {deviceOf[s]} ELSE ds

Report(s, ds) ==
    /\ conn[s] = "open"
    /\ deviceOf[s] # None
    /\ "loose" \in Moves \/ report[s] \subseteq EffectiveReport(s, ds)
    /\ "loose" \in Moves \/ EffectiveReport(s, ds) \subseteq rooms[s]
    /\ report' = [report EXCEPT ![s] = EffectiveReport(s, ds)]
    /\ UNCHANGED <<conn, verifying, deviceOf, rooms, status, present, leaving, http>>

\* buildActiveDevicesSnapshot: what print.devices.active.get answers.
Snapshot == {[socketId |-> s, deviceIds |-> report[s]] : s \in {x \in Socket : report[x] # {}}}

\* The setTimeout that disconnects the socket is a later Disconnect.
Logout(s) ==
    /\ "logout" \in Moves
    /\ conn[s] = "open"
    /\ deviceOf[s] # None
    /\ Forget(s)
    /\ UNCHANGED <<conn, verifying, rooms, status, present, leaving, http>>

-----------------------------------------------------------------------------
(* HTTP: the heartbeat (presentForTenant) and the operators' requests.     *)

HelperLookup(h) ==
    /\ http[h].at = "idle"
    /\ \/ /\ "helper" \in Moves
          /\ \E d \in Device : Exists(d) /\ Serving(h, "write", d, status[d])
       \/ Serving(h, "create", None, "unknown")
    /\ UNCHANGED <<conn, verifying, maps, status, present, leaving>>

HelperCreate(h, d) ==
    /\ http[h].at = "create"
    /\ status[d] = "absent"
    /\ status' = [status EXCEPT ![d] = "unknown"]
    /\ Serving(h, "write", d, "unknown")
    /\ UNCHANGED <<conn, verifying, maps, present, leaving>>

\* Variant: a heartbeat marks its device online, as a present does.
MarkedOnline(st) == "online"

\* preserveOnlineStatus, of the status that was read
Preserved(st) == IF st \in On THEN st ELSE "unknown"

HelperWrite(h) ==
    LET d == http[h].device IN
    /\ http[h].at = "write"
    /\ Exists(d)
    /\ status' = [status EXCEPT ![d] = Preserved(http[h].found)]
    /\ Serving(h, "invalidate", None, "unknown")
    /\ UNCHANGED <<conn, verifying, maps, present, leaving>>

\* The row is gone, or the identifier belongs to another row.
HelperRejected(h) ==
    /\ \/ http[h].at = "write" /\ ~Exists(http[h].device)
       \/ /\ http[h].at \in {"create", "write"}
          /\ \E d \in Device \ {http[h].device} : Exists(d)
    /\ Serving(h, "idle", None, "unknown")
    /\ UNCHANGED <<conn, verifying, maps, status, present, leaving>>

AdminCreate(h, d, st) ==
    /\ http[h].at = "idle"
    /\ status[d] = "absent"
    /\ status' = [status EXCEPT ![d] = st]
    /\ Serving(h, "invalidate", None, "unknown")
    /\ UNCHANGED <<conn, verifying, maps, present, leaving>>

\* PATCH, with the status or without it (a rename).
AdminPatch(h, d, st) ==
    /\ http[h].at = "idle"
    /\ Exists(d)
    /\ status' = [status EXCEPT ![d] = st]
    /\ Serving(h, "invalidate", None, "unknown")
    /\ UNCHANGED <<conn, verifying, maps, present, leaving>>

AdminDelete(h, d) ==
    /\ http[h].at = "idle"
    /\ Exists(d)
    /\ status' = [status EXCEPT ![d] = "deleted"]
    /\ Serving(h, "invalidate", None, "unknown")
    /\ UNCHANGED <<conn, verifying, maps, present, leaving>>

HttpInvalidate(h) ==
    /\ http[h].at = "invalidate"
    /\ Serving(h, "idle", None, "unknown")
    /\ UNCHANGED <<conn, verifying, maps, status, present, leaving>>

-----------------------------------------------------------------------------
(* Failures.                                                               *)

\* A database call rejects and its handler ends (handleDisconnect logs it).
PresentFails(s) ==
    /\ "db" \in Moves
    /\ present[s].at \in {"create", "write"}
    /\ Presenting(s, "idle", None)
    /\ UNCHANGED <<conn, verifying, maps, status, leaving, http>>

LeaveFails(s) ==
    /\ "db" \in Moves
    /\ leaving[s].at = "write"
    /\ Leaving(s, "idle", {})
    /\ UNCHANGED <<conn, verifying, maps, status, present, http>>

HttpFails(h) ==
    /\ "db" \in Moves
    /\ http[h].at \in {"create", "write"}
    /\ Serving(h, "idle", None, "unknown")
    /\ UNCHANGED <<conn, verifying, maps, status, present, leaving>>

\* Sockets, maps and handlers go with the process; rows stay, and nothing
\* resets them at start-up.
Crash ==
    /\ "crash" \in Moves
    /\ conn' = [s \in Socket |-> IF conn[s] = "new" THEN "new" ELSE "closed"]
    /\ verifying' = {}
    /\ deviceOf' = [s \in Socket |-> None]
    /\ report' = [s \in Socket |-> {}]
    /\ rooms' = [s \in Socket |-> {}]
    /\ present' = [s \in Socket |-> IdlePresent]
    /\ leaving' = [s \in Socket |-> IdleLeave]
    /\ http' = [h \in Http |-> IdleHttp]
    /\ UNCHANGED status

-----------------------------------------------------------------------------
\* What a handler of socket s does next once its await resolves.
Resume(s) ==
    \/ Authenticate(s)
    \/ Reject(s)
    \/ MarkOffline(s)
    \/ \E d \in Device : PresentCreate(s, d)
    \/ PresentCreateRejected(s)
    \/ PresentWrite(s)
    \/ PresentResume(s)

Message(s) ==
    \/ PresentLookup(s)
    \/ \E ds \in SUBSET Device : Report(s, ds)
    \/ Logout(s)

HttpStep(h) ==
    \/ HelperLookup(h)
    \/ \E d \in Device : HelperCreate(h, d)
    \/ HelperWrite(h)
    \/ HelperRejected(h)
    \/ \E d \in Device, st \in AdminStatus : AdminCreate(h, d, st)
    \/ \E d \in Device : \E st \in AdminStatus \cup {status[d]} : AdminPatch(h, d, st)
    \/ \E d \in Device : AdminDelete(h, d)

Fail ==
    \/ \E s \in Socket : PresentFails(s) \/ LeaveFails(s)
    \/ \E h \in Http : HttpFails(h)

Act ==
    \/ \E s \in Socket : Connect(s) \/ Disconnect(s) \/ Resume(s) \/ Message(s)
    \/ \E h \in Http : HttpStep(h)
    \/ Fail

\* The redis.del at the end of a handler that wrote a row.
Invalidate ==
    \/ \E s \in Socket : PresentInvalidate(s) \/ LeaveInvalidate(s)
    \/ \E h \in Http : HttpInvalidate(h)

Next == Act \/ Invalidate \/ Crash

Spec == Init /\ [][Next]_vars

\* A call that a handler awaits resolves.  A verified socket without an entry
\* has logged out, and the setTimeout of the logout disconnects it.
Fairness ==
    \A s \in Socket :
        /\ WF_vars(MarkOffline(s))
        /\ WF_vars(PresentWrite(s))
        /\ WF_vars(PresentResume(s))
        /\ WF_vars(PresentInvalidate(s))
        /\ WF_vars(s \notin verifying /\ deviceOf[s] = None /\ Disconnect(s))

FairSpec == Spec /\ Fairness

\* The same without the moves: the steps that Next has left when Moves = {}.
CalmNext ==
    \/ \E s \in Socket : Connect(s) \/ Disconnect(s) \/ Resume(s) \/ PresentLookup(s)
    \/ \E s \in Socket, ds \in SUBSET Device : Report(s, ds)
    \/ \E h \in Http : HttpStep(h)
    \/ Invalidate

CalmSpec == Init /\ [][CalmNext]_vars /\ Fairness

-----------------------------------------------------------------------------
(* Properties.                                                             *)

\* Every variable has its type, and a handler at its write has its devices.
TypeOK ==
    /\ conn \in [Socket -> {"new", "open", "closed"}]
    /\ verifying \subseteq Socket
    /\ deviceOf \in [Socket -> Device \cup {None}]
    /\ report \in [Socket -> SUBSET Device]
    /\ rooms \in [Socket -> SUBSET Device]
    /\ status \in [Device -> DeviceStatus \cup {"absent", "deleted"}]
    /\ present \in [Socket -> [at : Stage, device : Device \cup {None}]]
    /\ leaving \in [Socket -> [at : Stage, devices : SUBSET Device]]
    /\ http \in [Http -> [at : Stage, device : Device \cup {None}, found : DeviceStatus]]
    /\ \A s \in Socket : present[s].at \in {"write", "resume"} => present[s].device \in Device
    /\ \A h \in Http : http[h].at = "write" => http[h].device \in Device

\* An open, authenticated socket in the room of d that presented or reported it.
Serves(s, d) ==
    /\ conn[s] = "open"
    /\ deviceOf[s] # None
    /\ d \in rooms[s]
    /\ d \in report[s] \cup {deviceOf[s]}

\* With clients that report what they present, no heartbeats for devices that
\* have a row and no failures, a device that is listed as online has an open
\* socket in its room to deliver a job to, or a handler is about to mark it
\* offline or to finish presenting it.
OnlineIsServed ==
    (Moves = {} /\ AdminStatus \cap On = {}) =>
        \A d \in Device : status[d] \in On =>
            \E s \in Socket :
                \/ Serves(s, d)
                \/ leaving[s].at = "write" /\ d \in leaving[s].devices
                \/ present[s].at = "resume" /\ present[s].device = d

\* The snapshot that clients are given shows open, authenticated sockets only,
\* whatever happens: a report that outlived its socket would stay in it and
\* keep its devices online for ever, since every later disconnect would count
\* it as active.
ReportsAreLive ==
    \A entry \in Snapshot :
        conn[entry.socketId] = "open" /\ deviceOf[entry.socketId] # None

\* A socket that closes after its handlers are done leaves nothing behind.
NothingLeaks ==
    "hasty" \notin Moves =>
        \A s \in Socket : conn[s] = "closed" =>
            deviceOf[s] = None /\ report[s] = {} /\ rooms[s] = {}

Served(d) == \E s \in Socket : conn[s] = "open" /\ d \in report[s] \cup {deviceOf[s]}

\* A device listed as online that no open socket stands for is taken offline
\* (README.md:155, docs/ficha-tecnica/04-contratos-websocket.md:97,
\* docs/ficha-tecnica/08-pruebas-checklist.md:21).
DisconnectTakesOffline ==
    \A d \in Device :
        (status[d] \in On /\ ~Served(d)) ~> (status[d] \notin On \/ Served(d))

\* With clients that report what they present, wait for their handlers and do
\* not log out, no heartbeats for devices that have a row and no failures, it
\* is: the handler of the disconnect that leaves it alone knows it, from the
\* entry or from the report of its socket.
OrdinaryDisconnectTakesOffline == Moves = {} => DisconnectTakesOffline

\* A disconnect takes a device offline only if no other socket stands for it
\* (docs/ficha-tecnica/04-contratos-websocket.md:97).
OfflineOnlyIfLastSocket ==
    [][\A s \in Socket, d \in Device :
          MarkOffline(s) /\ status[d] \in On /\ Served(d) => status'[d] = status[d]]_vars

\* A heartbeat that found device d connected has yet to write that back.
Raising(h, d) == http[h].at = "write" /\ http[h].device = d /\ http[h].found \in On

SettledOff(d) == status[d] \notin On /\ \A h \in Http : ~Raising(h, d)

\* A socket's present or an operator brings device d online.
Revived(d) ==
    \/ \E s \in Socket : present[s].device = d /\ PresentWrite(s)
    \/ \E h \in Http, st \in AdminStatus \cap On : AdminCreate(h, d, st) \/ AdminPatch(h, d, st)

\* The HTTP heartbeat keeps a status, it never revives a device: once a device
\* is off, and no heartbeat that saw it on is still to write that back, only a
\* present or an operator brings it online, whatever overlaps or fails.
HeartbeatPreserves ==
    [][\A d \in Device : SettledOff(d) => SettledOff(d)' \/ Revived(d)]_vars
=============================================================================
