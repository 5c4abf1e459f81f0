# Verification of the Valnex Print Hub

This directory holds TLA+ specifications of the print hub's server (the NestJS
application under `src/src`), the TLC configurations that check them on small
instances, and TLAPS proofs of the properties that matter most. Every
definition that stands for code names its lines in `PROJECT.json` under `map`.

Contents: [1 the system](#1-the-system) · [2 plan](#2-plan) ·
[3 the print-job pipeline](#3-the-print-job-pipeline) ·
[4 device presence and identity](#4-device-presence-and-identity) ·
[5 the public device list](#5-the-public-device-list) ·
[6 device authentication](#6-device-authentication) ·
[7 token revocation](#7-token-revocation) · [8 proofs](#8-proofs) ·
[9 what is only model-checked](#9-what-is-only-model-checked) ·
[10 not modelled](#10-what-is-not-modelled) · [11 findings](#11-findings) ·
[12 running it](#12-running-it)

## 1 The system

The hub stands between points of sale, which submit print jobs over HTTP, and
*helpers*, which run next to the printers and hold a WebSocket to the server.
State lives in PostgreSQL (through Prisma), in Redis (caches, revoked tokens,
rate counters) and in the memory of the process (timers, socket maps).

| Component | State | Operations | Module |
|---|---|---|---|
| Print-job pipeline (`print-jobs.service.ts`, gateway `print.job.ack` / `print.job.result`) | rows of `print_jobs` and `print_job_logs`; one `setTimeout` per dispatch | create, dispatch, ACK timeout, ack, result, PATCH, DELETE | `PrintJobs`, `PrintContract` |
| Delivery (`emitJobDispatch`, `emitJobUpdated`, the rooms) | the sockets' rooms; messages on the wire | dispatch to every socket of two rooms, answers, updates to a watcher | `PrintDelivery` |
| Device presence (gateway connection handlers, `print-devices.service.ts`) | `socketAuthById`, `activeDevicesBySocket`, rooms; `status` of `print_devices` | connect, present, report, snapshot, subscribe, logout, disconnect, helper present over HTTP, PATCH, DELETE | `DevicePresence` |
| Device identity (`resolveOrCreateDeviceForActivation`, `handleDevicePresent`, `presentForTenant`) | `identifier` and `macAddress` of `print_devices` | find or create the row of a client, by three entry points | `DeviceIdentity` |
| Public API caches (`public-print.service.ts`) | Redis entries for tenants (300 s) and device lists (15 s) | list, submit, invalidations | `DeviceListing` |
| Device authentication (`auth.service.ts`) | activation requests, API keys, sessions, refresh tokens | request, approve, exchange, refresh, logout, revoke key | `DeviceAuth`, `CredentialContract` |
| Activation desk (`listPendingDeviceActivations`, `registerInitialAdmin`, `delByPattern`) | Redis lists of pending requests (10 s), `admin_users` | list, invalidate by SCAN, bootstrap | `DeviceActivation` |
| Token revocation (`token-revocation.service.ts`, guard, gateway) | map per process, Redis entry per `jti` | revoke, check at guard, handshake and message | `TokenRevocation` |
| Redis service | an external store | get, set, del, SCAN, incr | an unreliable store in its users; `delByPattern` batch by batch in `DeviceActivation` |
| Catalogue (tenants, locations, sources, routing rules, logs) | their rows | single-statement CRUD | not modelled |

### How the components interact

* `submitPrint` (public API) calls `create` and then `dispatch` of the job
  service; the administrators' controller calls each of them directly.
* `dispatch` emits `print.job.dispatch` to the rooms of the device, the tenant and
  the job, to the second without the payload; the helpers in them answer with `print.job.ack` and `print.job.result` on its socket. The gateway updates
  the same rows as the job service, without a lock or a transaction.
* The gateway tells watchers in the tenant's room of every change it makes.
* `dispatch` arms a timer in memory; the timer reads and writes the row.
* Presence writes `print_devices.status`, which the public device list reads
  through a cache that presence and the device service invalidate.
* Three entry points find a client's row in `print_devices` by MAC address or
  identifier, each with statements of its own.
* Requests for activation and their approval delete the lists of pending
  requests that administrators see, after their own writes.
* Logout on the socket and revocation over HTTP put the token's `jti` into the
  revocation service, which the guard and the gateway consult.

### What is hard

The server is one Node process: a handler runs until its next `await` and other
handlers run in between. Almost every handler reads a row, decides, and writes
at a later await without repeating the condition. Timers are never cancelled.
Process memory (timers, socket maps) dies with the process, the rows do not.
No handler opens a database transaction, so each may stop half way. The
`hazards` list of `PROJECT.json` gives each of these at the line where it bites
with the properties that speak of it.

### What makes each component correct

* Pipeline: a request makes one row; a printed job is not moved again, unless
  by an operator or by a handler that read it before it was printed; retries stay within `max_retries`; an unanswered job is eventually
  moved by its timeout; the audit trail explains the status and counts the
  dispatches; a job that is stuck shows in the monitor.
* Delivery: paper that came out is in the record; a job comes out twice only for
  a retry that is in the record or a second socket in its rooms; no job is left *processing* for ever; a
  watcher ends with the status of the row.
* Presence: a device that is listed as online has a socket that serves it; a
  device no open socket stands for goes offline (both for ordinary clients:
  [11](#11-findings) says what the others do); closed sockets leave nothing
  in memory, and above all no report, which would keep devices online for ever.
* Identity: machines that no call mixed up share no row, a machine's MAC address
  is in one row, and an installation keeps the row it was given first.
* Caches: a list is stale only for a reason that can be named, and not for
  longer than its time to live.
* Device authentication: one active key per device; an administrator who revokes
  a key ends its sessions; nothing revoked comes back; a rotated refresh token is dead; one
  initial administrator.
* Revocation: the process that answered a revocation keeps to it, and every
  process that can read Redis does.

## 2 Plan

| Step | State |
|---|---|
| 1 `PrintJobs`, `PrintContract`, `PrintJobsProofs` | done |
| 2 `DevicePresence`, `DevicePresenceProofs` | done |
| 3 `DeviceListing` on top of `DevicePresence`, `DeviceListingProofs` | done |
| 4 `DeviceAuth`, `DeviceAuthProofs` | done |
| 5 `TokenRevocation`, `TokenRevocationProofs` | done |
| 6 `DeviceActivation` on top of `DeviceAuth`, `DeviceActivationProofs` | done |
| 7 `PrintDelivery` on top of `PrintJobs`: a dispatch that reaches every socket of its rooms or nobody, and what comes back; `PrintDeliveryProofs` | done |
| 8 `DeviceIdentity`, `DeviceIdentityProofs` | done |
| 9 the step simulation behind the safety part of `ContractSpec` | done, in `PrintJobsProofs` |
| 10 `CredentialContract`, and `DeviceAuth` shown to implement it | done, in `DeviceAuthProofs` |
| 11 the composition of `DeviceListing` and `DevicePresence`: every step a step of the gateway, and what a listed device has | done, in `DeviceListingProofs` |
| 12 the rate limit on activation requests | left |

Three modules extend another one and add to its steps: `PrintDelivery` the two
ends of the WebSocket to `PrintJobs`, `DeviceListing` the cache to
`DevicePresence`, `DeviceActivation` the cache of lists and the bootstrap to
`DeviceAuth`. The rest share no state: jobs name a device but no handler of a
job reads its presence; presence finds a row in one step and `DeviceIdentity`
opens that step up; a session meets the revocation service only through the
`jti` of its access token. `PrintContract` is the abstract specification of the
pipeline, `CredentialContract` that of `DeviceAuth`; and each of the three
modules that extend another implements it.

## 3 The print-job pipeline

### State

`PrintJobs` models the rows of one tenant. `status`, `attempts`, `budget`
(`max_retries`), `assigned` (`printerId` is set), `processed` (`processedAt` is
set), `requestOf` and `hashOf` are columns; `logs[j][e]` counts the
`print_job_logs` rows of job `j` for event `e` (a count for `sent_to_printer` and
`retried`, one or none for the others, which no property counts); `timers[j]` is
the number of pending `setTimeout` handles of `scheduleAckTimeout`.

`task[t]` is a handler in flight, suspended at an `await`. A handler reaches its
first database call without touching shared state, so its arrival and its first
read are one step; from there every database call is one step, and what the code
does between two awaits happens within it. What a handler carries from its read
to its write (the row's id, the outcome it decided on) is in the record.

### Actions and code

| Action | Code |
|---|---|
| `Submit`, `FindByRequest`, `FindByHash`, `Insert`, `InsertRejected` | `submitPrint` → `create`, `findDuplicateJob`; the unique index of `schema.prisma` |
| `AnswerWith` | `create` returns; `submitPrint` goes on to `dispatch`, also for a duplicate |
| `AdminDispatch`, `DispatchRead`, `DispatchWrite`, `DispatchLog` | `dispatch`: read, `update`, log insert, then emit and `scheduleAckTimeout` |
| `Ack`, `AckWrite`; `Result`, `ResultWrite`; `HandlerLog` | `handlePrintJobAck`, `handlePrintJobResult` |
| `TimerFires`, `TimeoutWrite`, `HandlerLog` | the callback of `scheduleAckTimeout` |
| `PatchJob`, `RemoveJob` | `PATCH` (any status, printer, request key and content hash; the unique index guards the key) and `DELETE /print-jobs/:id` |
| `RowMissing` | the error path when the row was deleted under a handler |
| `Crash`, `DbError`, `TimerLost` | a restart; a rejected database call |

`requestId` and `externalId` are separate unique keys with the same treatment
(lookup, then unique index); one key stands for both. Messages of any client of
the tenant are accepted for any job, so `Ack` and `Result` are not tied to a
device; lost, repeated and reordered messages are all covered, since nothing
forces or orders them.

### Properties and runs

| Run | Instance | Shows |
|---|---|---|
| `jobs` | 1 row, 2 handlers, budgets 0 and 1, a content hash, operators who cancel and edit the hash, no dispatch begins beyond 2 attempts, fair, no failures | `TypeOK`, `SentIsWatched`, `DispatchesAudited`, `StatusExplained`, `StuckIsMonitored`, `PrintedIsFinal`, `AckTimeoutMovesJob`, `ContractSpec` |
| `jobs_requests` | 2 rows, 2 handlers, 1 request key, budget 1, 2 attempts, operators who move the key, crashes and failing calls | `UniqueRequest` and `RetriesWithinBudget` under racing submissions, a timer that outlives its attempt, and whatever fails |

`StuckIsMonitored` is about the list of stuck jobs in `GET /print-jobs/monitor`, which
holds only jobs whose `processedAt` is null: it can overlook a job in flight only
if that job was answered or given up before, since a `failed` job that is sent
again keeps its `processedAt`. The property says that this is the only way.

What the model also shows and no property states, because no document promises
otherwise:

* Timers die with the process and nothing re-arms them at start-up: with
  `"crash"` among the `Faults` of `jobs`, `AckTimeoutMovesJob` fails.
* A job moved to `retrying` waits for an operator or another submission.
* Two submissions of the same content at once, without a request id, may both
  miss in `FindByHash` and insert two rows: `contentHash` has no unique index.

`PrintContract` is what a caller may rely on. A job is *none*, *open*,
*awaiting* an answer, or *gone*; attempts only grow; a retry is granted only
while awaiting and only within the allowance; what is awaiting is settled.
`PrintJobs` is shown to implement it through the mapping at the end of the
module: safety with every fault, the liveness part when nothing fails.

### Bounds

* `Job`: one row is enough for everything that concerns a single row, since no
  handler touches two; two rows are used where rows compete for a key.
* `Task`: two handlers at once, for the pairs (a dispatch and an old timer, a
  result and a timeout, two dispatches). The proofs cover any number.
* `MaxAttempts`: guards on the arrival of a dispatch or a submission. Handlers
  already past the guard still increment, so `jobs` goes beyond two attempts
  and pending timers of different attempts coexist. In `jobs_requests` one retry
  makes room for the second attempt, whose timer meets an older one.
* `RetryBudget = {0, 1}` distinguishes no retry from one; the proofs cover all.
* Primary keys are not reused and may run out, which is the only way a run
  stops; deadlock checking is off for that reason.
* `OneRowDispatched` (state constraint in `jobs_requests`) leaves out states in
  which both rows are in dispatch: rows interact only through the lookups.

### Fairness

`WF(Resume(t))`: a database call resolves or rejects, so a handler in flight goes
on. `SF(TimerFires)`: Node runs an expired timer; the model makes it wait for a
free slot, and other handlers may take the slot again and again, so weak
fairness would let the model's own bound starve it. Nothing is assumed of
clients, printers or operators: none of them ever has to act.

### Delivery

`PrintDelivery` attaches the two ends of the WebSocket to the pipeline: agents,
the sockets of programs that acknowledge what they receive, print it or fail, and
answer; and a watcher in the tenant's room. `deviceRoom` and `jobRoom` are the
rooms that the agents are in, `inbox` and `answers` what is on its way, `working`
what an agent has acknowledged, `copies` the paper, `shown` what the watcher was
last sent. The agents are outside the repository and are modelled from what the
gateway sends them and accepts; Socket.IO delivers at most once, so what is in
transit when a socket closes may be lost. Messages of one socket arrive in order,
but the handlers' reads run on a pool of connections and may complete in any
order, so answers are a bag.

`emitJobDispatch` emits to `device:`, `tenant:` and `job:` one after the other,
and each emit reaches every socket of its room. The tenant's event has no
payload, so there is nothing in it to print; the other two have the whole of it.
`EmitJobDispatch` therefore sends `Recipients(j)` payloads, one for each member of
the device's room (`JoinDevice`: the handshake, `subscribe`, a present) and one
for each of the job's (`SubscribeToJob`: `subscribe` with a `jobId`), two to a
socket in both, none when they are empty. `extra` counts what one dispatch sent
beyond its first payload: nothing in the protocol keeps two agents, or one that
hears of a job twice, from printing each.

Each step of `PrintJobs` is a step here with what it emits (`Send`, `Finish`),
and each message that `PrintJobs` takes from nowhere must now have been sent
(`Deliver`). Operators' PATCH and DELETE and the failures stay in `PrintJobs`
(`NothingFails` is an assumption of the module: `Faults = {}`), and so does the
content key.

| Run | Instance | Shows |
|---|---|---|
| `delivery` | 1 request (and a key to spare), 2 handlers, budget 1, 2 attempts, 2 agents that join and leave the rooms | `DeliveryTypeOK`, `PaperIsRecorded`, `ReprintsHaveAReason`, `WatcherSeesLast`, `ProcessingEnds` |

`ReprintsHaveAReason` counts: each copy after the first takes a timeout that
granted a retry (`Granted`) or a payload sent to a further member of the rooms
(`extra`), unless the job failed meanwhile. `DeliveryTypeOK` counts too: messages
and copies never outnumber `attempts + extra`.

The invariants hold but for excuses that are named in them: `missed` (a dispatch
went to empty rooms or a payload was lost), `lost` (a result was lost), `raced`
(another handler was in flight over the row that was written). One of them is not
obvious: `print.job.ack` carries the job's id and not the attempt, so a late
acknowledgement of one dispatch moves a job whose *next* dispatch was lost to
`processing`, and nothing times that out. That is why `ProcessingEnds` excuses
`missed`.

Two agents are enough for two sockets of one device, and for a socket in the
job's room beside one in the device's. The constraint `Bounded` keeps `extra` at
one, so that one dispatch reaches two sockets, lets only sockets of the device
join the job's room, and keeps three messages of a job in transit; and it ends a
run where handlers raced, or where a job lost both a dispatch and a result, since
the properties but the types ask next to nothing of it from there on. The proofs
have none of these bounds.

## 4 Device presence and identity

### State and actions

`conn[s]` is the socket, `verifying` the sockets whose `handleConnection` awaits
the token's checks, `deviceOf[s]` the `deviceId` of the entry in
`socketAuthById`, `report[s]` the entry in `activeDevicesBySocket`, `rooms[s]`
the rooms of socket.io, `status[d]` the column of `print_devices`. `present[s]`,
`leaving[s]` and `http[h]` are handlers in flight. A socket never reconnects: a
client that does is another socket.

| Action | Code |
|---|---|
| `Connect`, `Authenticate`, `Reject` | `handleConnection` up to its awaits, and what follows a good or a bad token |
| `Disconnect`, `MarkOffline`, `LeaveInvalidate` | `handleDisconnect` up to `updateMany`, the update, the `redis.del` |
| `PresentLookup`, `PresentCreate`, `PresentCreateRejected`, `PresentWrite`, `PresentResume`, `PresentInvalidate` | `handleDevicePresent`, an action per await |
| `Report`, `Logout` | `handleActiveDevicesReport`, `handlePrinterLogout`, which await nothing |
| `Snapshot` (an operator: it writes nothing) | `buildActiveDevicesSnapshot` |
| `HelperLookup`, `HelperCreate`, `HelperWrite`, `HelperRejected` | `presentForTenant`, the HTTP heartbeat |
| `AdminCreate`, `AdminPatch`, `AdminDelete`, `HttpInvalidate` | the operators' requests of `print-devices.service.ts` |
| `PresentFails`, `LeaveFails`, `HttpFails`, `Crash` | a rejected database call; a restart |

`Moves` names what may happen beyond the ordinary: clients that close while one
of their handlers is suspended (`hasty`), that present without reporting
(`loose`), that log out, HTTP heartbeats for devices that have a row (`helper`;
one for a new machine creates its row and is always possible), failing calls,
restarts. With `Moves = {}` clients connect, present what they report, report
what they present and close when idle, and operators create, rename, patch and
delete.

### Properties and runs

| Run | Instance | Shows |
|---|---|---|
| `presence` | 2 sockets of one device, 2 devices, 1 request, fair, no moves | `TypeOK`, `OnlineIsServed`, `NothingLeaks`, `OrdinaryDisconnectTakesOffline` |
| `presence_two_sockets` | 2 sockets, 1 device, no moves | violation of `OfflineOnlyIfLastSocket` (finding) |
| `presence_logout` | 1 socket, 1 device, a client that logs out, fair | violation of `DisconnectTakesOffline` (finding) |

`presence` runs `CalmSpec`, which has the steps that are left without moves; the
theorem `CalmIsAll` says that they are all there are then. What holds under every
move is checked in `listing`, which has every step of the gateway among its own
(`PresenceStep`, `CrashListing`) and all moves: `ReportsAreLive` and
`HeartbeatPreserves` ([5](#5-the-public-device-list)). Each of them is about one
socket or one device and what is in flight over it, so one of each is enough
there; the proofs are about any number.

`OnlineIsServed` and `OrdinaryDisconnectTakesOffline` are the two halves of what
the status column promises: a device that is *on* has a socket to deliver to, and
one that no open socket stands for is taken off. Both are about ordinary clients
only, because the code does not keep them otherwise. `presence_two_sockets` shows
that even an ordinary client that has not yet sent its report is taken offline by
another socket's disconnect, and `presence_logout` that a device stays online
when its client logs out before it disconnects.

### What the code does with the awkward moves

`DisconnectTakesOffline` is what the documents promise, without conditions
(src `README.md:155`, `docs/ficha-tecnica/04-contratos-websocket.md:97`,
`docs/ficha-tecnica/08-pruebas-checklist.md:21`). Setting `Moves` of an instance
of `presence.cfg` to one move, with `DisconnectTakesOffline` as its property,
shows what each does to it: it fails.

* `logout`: `handlePrinterLogout` deletes the socket's entries, so the
  disconnect that follows finds no device to take offline. This needs no race
  and no fault: it is the run `presence_logout`;
* `hasty`: `handleDevicePresent` resumes after its socket closed, puts the entry
  back and leaves the device online;
* `loose`: a socket that presents two devices keeps the entry of the last one
  only, and the first stays online unless the socket reported it;
* `helper`: the HTTP heartbeat writes back the status it read an await earlier,
  over the `offline` written in between;
* `db`: the `updateMany` of a disconnect is logged when it fails and not retried;
* `crash`: a restart runs no disconnect handler and resets no row.

What does hold under all of them is `ReportsAreLive`: the harm of each of these
moves ends with the next disconnect of the device, since no report of a socket
that is gone can make a later disconnect count the device as still active; and
`HeartbeatPreserves`: the HTTP heartbeat can write back what it read, and no
more. A device that is off, and that no heartbeat in flight saw on, is brought
back by a socket's present or by an operator only.

### Bounds and fairness

Two sockets are the least that may stand for one device and disturb each other;
two devices the least that one socket may present in turn. One HTTP request at a
time is enough, since requests meet only in the row. Sockets are not reused, so
a run may stop (deadlock checking is off where no restart is possible).

`Fairness` says that the calls awaited by `MarkOffline`, `PresentWrite`,
`PresentResume` and `PresentInvalidate` resolve, and that the `setTimeout` of a
logout disconnects the socket. Nothing is assumed of clients or operators: a
client that stays connected never has to leave.

### Identity

`DeviceIdentity` opens up what presence does in one step: how a client finds its
row. `ident` and `mac` are the columns; `task[t]` a call in flight, by the
activation request, the socket or the HTTP helper.

| Action | Code |
|---|---|
| `Call` | the entry points, with `normalizeMacAddress`: any identifier with any MAC address, or none |
| `FindByMac`, `FindByIdentifier` | the two `findFirst` of each |
| `CreateRow`, `CreateRejected` | the insert; the unique index on the identifier |
| `Backfill` (socket) | `handleDevicePresent` gives a row without a MAC address the one of the call |
| `Rewrite`, `RewriteRejected` (HTTP helper) | `presentForTenant` writes both columns of the row it found |
| `Answer`, `RowMissing`, `RemoveDevice`, `HandlerFails` | the end of a call (an activation request writes nothing to a row that is there), a row deleted under it, `DELETE`, a rejected call |

A machine stands for its MAC address and an installation, a client on it, for its
identifier. `MachineOf` says which machine an installation was made on, and
nothing more: a call may carry any MAC address with any identifier, since both
come from the client and no entry point compares them, with each other or with
the row it found. `mixed` is the set of machines whose identifier and MAC address
came in one call with that of another (a copied disk, an adapter that was moved).
A call may leave its MAC address out (not the helper's); operators' edits of the
two columns are left out. `home`, `moved`, `shy`, `mixed` and `overlapped` are not
stored: they say which row an installation was given first, and what its machine
did.

| Run | Instance | Shows |
|---|---|---|
| `identity` | 2 rows, 2 calls at once, 3 installations on 2 machines, the MAC address of a third | `TypeOK`, `StrangersApart`, `OneRowPerMac`, `IdentityIsCanonical`, `HelperIsAccepted` |

Machines that a call mixed may share a row from then on: the code hands the row
with the MAC address of the call to whoever sent it. `StrangersApart` says that
this is the only way, and that it spreads no further: a machine that no call mixed
with another shares no row, whatever the others send and whatever overlaps or
fails. The other properties hold of a machine that no call mixed and that has one
installation, or several and then always sends its MAC address and never two
calls at once (`Astray` is the opposite); `macAddress` has no unique index, and two
installations that call at once get a row each with the same address.

The constraint `Bounded` of the run lets the machine of the single installation be
mixed with the third MAC address while it is orderly, keeps that of the two clean,
and keeps one of the two orderly: the properties ask nothing of mixed machines,
only that a clean one does not suffer from them.
The proofs are about any mixture.

## 5 The public device list

`DeviceListing` extends `DevicePresence` with the tenant's status (`active`), the
two entries in Redis (`tenantCached`, `cache`) and the requests of
`listAvailableDevices` in flight (`reader`). Each step of `DevicePresence`
is a step here (`PresenceStep`, `CrashListing`), and the `redis.del` that ends
its handlers (`Invalidate`) now deletes the list (`InvalidateList`).
`ListRequest`, `FindTenant`, `StoreTenant` are `findActiveTenantBySlug`;
`GetDevices`, `FindDevices`, `StoreDevices` the list itself; `ExpireDevices` and
`ExpireTenant` the ends of the entries' times to live; `SetTenantStatus` is
`PATCH /tenants/:id`. Time is abstract: an entry may expire at any moment, so
what holds does not depend on the 15 and 300 seconds.

Two fields are not in the code: `late` (a row changed between a request's
reading and its storing) and `excused` (the stored list was late, or a `del` of
it was lost). With them `ListIsFresh` says *exactly* why a list may be stale: an
invalidation under way, a late store, or a lost `del`, and nothing else.
`OffIsDelisted` and `SuspendedIsRefused` say that this ends: a device that stays
off leaves the list, and a suspended tenant ends up refused.

| Run | Instance | Shows |
|---|---|---|
| `listing` | 1 socket, 1 device, 1 request of each kind, all moves, Redis unreachable at any call, operators that pause | `ListIsFresh`, `ReportsAreLive`, `HeartbeatPreserves`, `OffIsDelisted`, `SuspendedIsRefused` |

Devices have a common list but no common step except a disconnect's, so one
device is enough; one list request at a time races every writer. The types of the
module (`ListingTypeOK`) are proved and need no run. The fairness is
that of Redis: entries expire. None is needed of the handlers.

## 6 Device authentication

`DeviceAuth` models one device of one active tenant: the status columns of its
activation requests (`activation`), API keys (`key`) and sessions (`session`,
with `keyOf` and `tokenOf`), what time has passed for (`overdue`, `lapsed`), the
Redis map from refresh tokens to sessions (`cached`) and the handlers in flight
(`task`, one stage per await). `superseded` is the set of the
revoked keys whose `revokedReason` says that another approval replaced them: their
status is *revoked* like that of any other. `approvedFor`, `issued`,
`crossed` and `missed` are not stored.

| Action | Code (`auth.service.ts`) |
|---|---|
| `RequestActivation`, `CreateActivation` | `requestDeviceActivation` |
| `Approve`, `SupersedeKeys`, `InsertKey`, `MarkApproved` | `approveDeviceActivation` |
| `Exchange`, `InsertSession`, `CacheToken` | `exchangeDeviceToken`, `issueDeviceSession` |
| `Refresh`, `FindSession`, `ExpireSession`, `RotateToken`, `UncacheToken`, `CacheToken` | `refreshDeviceToken` |
| `Logout`, `LogoutSession`, `UncacheToken` | `logoutDevice` |
| `Revoke`, `RevokeKey`, `ListSessions`, `RevokeSessions`, `UncacheListed` | `revokeDeviceApiKey` |
| `ActivationOverdue`, `SessionLapses`, `EntryExpires` | `expiresAt` and the time to live of the entries |
| `DbError`, `Crash` | a rejected call, a restart |

`CredentialContract` is what the credentials promise, without handlers, stages,
caches or failures. A key is issued and revoked, once each; a session is opened
with a key that was issued and belongs to it for good; a refresh token is
*accepted* while it is the token of a live session and only then replaced by one
never given out before; what is revoked stays revoked. The mapping takes
`accepted` from the handlers:
the pairs of session and token that refreshes at their `rotateToken` hold. That
`RotateToken` may replace a token of a session revoked since, or replace it twice
for two refreshes at once, is what the code does and what `accepted` makes room
for: the acceptance came while the session was live.

`DeviceActivation` adds what the administrators see of it: the lists of pending
requests in Redis (`list`), the requests that fill them (`reader`), their
deletion after each request and approval by a SCAN that returns some keys at a
time and a DEL of each batch (`scan`, `found`), and the bootstrap of the first
administrator (`admins`), without whom nobody lists or approves.

| Action | Code |
|---|---|
| `RequestByClient`, `ApproveByAdmin`, `LastWrite`, `KeyStep` | the steps of `DeviceAuth`; the last write goes on to the deletion |
| `ScanBatch`, `DelBatch`, `CleaningFails` | `delByPattern` of `redis.service.ts`, and its failure, which is swallowed |
| `ListPending`, `FindPending`, `StorePending`, `ExpireList` | `listPendingDeviceActivations` with its cache |
| `Register`, `InsertAdmin` | `registerInitialAdmin` |

| Run | Instance | Shows |
|---|---|---|
| `auth` | 2 handlers, 1 activation, 2 keys, 1 session, 2 refresh tokens, every fault | `TypeOK`, `OneActiveKey`, `RevokedKeyHasNoSession`, `ContractSpec`, `RotatedIsDead` |
| `activation` | 2 handlers, 1 activation, 1 key, 2 lists, 1 reader, every fault | `ActivationTypeOK`, `PendingListIsFresh`, `OneInitialAdmin` |

Three of these have excuses, which the code does give occasion for: two approvals
at once supersede the same keys and then insert one each (`crossed`); an exchange
that has read its key inserts a session after the key's sessions were revoked,
and a revocation that stops after its first write leaves the sessions, since its
repetition answers without looking at them again (`missed`); two bootstraps both
count no administrator (`raced`). `PendingListIsFresh` says exactly why a list
may show a request that is no longer pending: a handler that will still delete
it, a late store, or a lost deletion.

`RevokedKeyHasNoSession` has a third exception, the keys that an approval revoked
(`superseded`): `revokeDeviceApiKey` ends the sessions of its key and
`approveDeviceActivation` does not, although `prisma-reference.md:25` asks it of
every revoked key ([11](#11-findings)).

Two tokens are a token and the one it is rotated to; two keys an old one and the
one that supersedes it; two lists let a reader fill the one the SCAN has passed.

## 7 Token revocation

`TokenRevocation` models several server processes: the map `revokedByJti` of each
(`local`), the shared entries (`redis`), the `redis.set` calls nobody awaits
(`storing`), the sockets that a handshake admitted (`sockets`), and the checks
of the HTTP guard and of handshakes in flight (`check`). `answered` and `late` are not stored.

| Action | Code |
|---|---|
| `Revoke`, `Store`, `StoreLost` | `revoke`, and the outcome of its `redis.set` |
| `GuardRequest`, `Handshake`, `Refuse`, `Admit`, `AdmitUnasked` | `isRevokedAsync` of the guard and the handshake: the map, then the answer of Redis or its absence |
| `Message`, `CloseSocket` | `requireSocketAuth` with `isRevoked` |
| `Expire`, `Kept` | the token's `exp`, and `cleanup` |
| `Crash` | the restart of one process |

| Run | Instance | Shows |
|---|---|---|
| `revocation` | 2 processes, 2 tokens, 1 check, restarts, Redis unreachable at any call | `TypeOK`, `RevokedHere`, `StoredIsRefused` |
| `revocation_sockets` | 2 processes, 1 token, no faults | violation of `RevokedEverywhere` (finding) |

Two processes tell the one that answered from another; two tokens let `cleanup`
drop one and keep the other.

## 8 Proofs

Each theorem holds for every value of the constants that satisfies the
assumptions of its module.

| Module | Theorem | Says |
|---|---|---|
| `PrintJobsProofs` | `TypeCorrect` | `Spec => []TypeOK` |
| | `UniqueRequestHolds` | `Spec => []UniqueRequest` |
| | `PrintedIsFinalHolds` | `Spec => PrintedIsFinal` |
| | `SentIsWatchedHolds` | `Spec => []SentIsWatched` |
| | `RetriesWithinBudgetHolds` | `Spec => []RetriesWithinBudget` |
| | `DispatchesAuditedHolds` | `Spec => []DispatchesAudited` |
| | `NoPhantomDispatchHolds` | `Spec => []NoPhantomDispatch` |
| | `StatusExplainedHolds` | `Spec => []StatusExplained` |
| | `StuckIsMonitoredHolds` | `Spec => []StuckIsMonitored` |
| | `ImplementsContract` | `"sent" \notin AdminStatus => (Spec => Contract!SafeSpec)` |
| `PrintDeliveryProofs` | `RunsPrintJobs` | `DSpec => Spec` |
| | `DeliveryTypeCorrect` | `DSpec => []DeliveryTypeOK` |
| | `PaperIsRecordedHolds` | `DSpec => []PaperIsRecorded` |
| | `ReprintsHaveAReasonHolds` | `DSpec => []ReprintsHaveAReason` |
| | `CopiesWithinBudgetHolds` | `DSpec => []CopiesWithinBudget` |
| | `WatcherSeesLastHolds` | `DSpec => []WatcherSeesLast` |
| | `ProcessingEndsHolds` | `DSpec => []ProcessingEnds` |
| `DevicePresenceProofs` | `CalmIsAll` | `Moves = {} => (FairSpec <=> CalmSpec)` |
| | `TypeCorrect` | `Spec => []TypeOK` |
| | `ReportsAreLiveHolds` | `Spec => []ReportsAreLive` |
| | `NothingLeaksHolds` | `Spec => []NothingLeaks` |
| | `OnlineIsServedHolds` | `Spec => []OnlineIsServed` |
| | `HeartbeatNeverRevives` | `Spec => HeartbeatPreserves` |
| `DeviceListingProofs` | `ListingTypeCorrect` | `ListingSpec => []ListingTypeOK` |
| | `ListStaysFresh` | `ListingSpec => []ListIsFresh` |
| | `RunsDevicePresence` | `ListingSpec => Spec` |
| | `ListedIsServedHolds` | `ListingSpec => []ListedIsServed` |
| `DeviceAuthProofs` | `TypeCorrect` | `Spec => []TypeOK` |
| | `OneActiveKeyHolds` | `Spec => []OneActiveKey` |
| | `RevokedKeyIsOut` | `Spec => []RevokedKeyHasNoSession` |
| | `ImplementsContract` | `Spec => ContractSpec` |
| | `RevokedStaysRevoked` | `Spec => RevokedIsFinal` |
| | `RotatedStaysDead` | `Spec => RotatedIsDead` |
| | `ApprovalsHaveKeys` | `Spec => []ApprovedHasKey` |
| `DeviceActivationProofs` | `RunsDeviceAuth` | `ActivationSpec => Spec` |
| | `ActivationTypeCorrect` | `ActivationSpec => []ActivationTypeOK` |
| | `ListStaysFreshEnough` | `ActivationSpec => []PendingListIsFresh` |
| | `OneInitialAdminHolds` | `ActivationSpec => []OneInitialAdmin` |
| `DeviceIdentityProofs` | `TypeCorrect` | `Spec => []TypeOK` |
| | `StrangersStayApart` | `Spec => []StrangersApart` |
| | `MacIsInOneRow` | `Spec => []OneRowPerMac` |
| | `IdentityStays` | `Spec => []IdentityIsCanonical` |
| | `HelperWrites` | `Spec => []HelperIsAccepted` |
| `TokenRevocationProofs` | `TypeCorrect` | `Spec => []TypeOK` |
| | `RevokedHereHolds` | `Spec => []RevokedHere` |
| | `StoredIsRefusedHolds` | `Spec => StoredIsRefused` |

### Jobs

`TypeOK`, `UniqueRequest` and `SentIsWatched` are inductive (the last two relative
to `TypeOK`). `PrintedIsFinal` needs only `TypeOK`: a step that writes the row
comes from a handler at its write, and a settled row has none.

`RetriesWithinBudget` is not inductive: nothing in it bounds the timeouts still to
come. Every retry spends a timer and every timer was paid for by an attempt, so
`RetryInv` counts, for each row, the retries logged plus the *carriers* that may
yet turn into one (pending timers, dispatches about to arm a timer, timeouts in
flight) and bounds the sum by `attempts`; and it bounds the retries logged plus
the *deciders* (timeouts that have read the row and decided to retry) by the
budget. The proof has one step per action; the lemmas on `Cardinality` say what
becoming or leaving a carrier does to the count.

`DispatchesAudited` equates `attempts` with the logged dispatches plus the
handlers about to log one (`Senders`); it is inductive once the counting lemmas
say what becoming or leaving a sender does. What it needs the absence of failures for is
one direction: a log insert that fails loses an entry and invents none. So the
invariant is stated with an inequality that holds under every fault and an
equality that holds without (`Audited`), and `NoPhantomDispatch` is what every
fault leaves of it. `StatusExplained` is inductive
relative to `TypeOK`. `StuckIsMonitored` needs `ProcessedNoted`: a row whose
`processedAt` is set has a `printed` or `failed` entry in its log, or a handler
about to write it (`Noted`). These three say what holds while nothing fails
(`Faults = {}`), as a failed log insert breaks each.

`ImplementsContract` maps each step to one step of `PrintContract` or to a
stutter, whatever fails. A row update is `Send`, `Settle` or a stutter, the log
row of a timeout is `Grant`, and `RetryInv` gives `Grant` its two bounds. An
operator who writes `sent` by hand makes a job await an answer that nobody asked
for, hence the hypothesis.

The assumptions are those `PrintJobs` states: finitely many handlers in flight,
`None` outside the key sets, natural budgets, statuses of the enum.

### Delivery

`RunsPrintJobs` shows that agents and a watcher add nothing to the pipeline's
steps, so its invariants hold here. `DInv` adds the types and, of each job
(`JobInv`): every payload that was sent, one for each dispatch and `extra`, is on
its way, at work, printed, failed or lost (`SendsCounted`, which `Audited` then
bounds by `attempts + extra`); and, unless
handlers raced over it, one handler at a time records and what the others read is
still so (`OneWriter`), the watcher knows the status or is about to be told
(`WatcherKnows`), every dispatch after the first has a timeout
of its own that granted it, as long as the job has not failed (`WithinGrants`), a
printed copy is recorded or its answer is on the way
(`PaperFollows`), and so is the answer to what is *sent* or *processing*
(`AnswerFollows`). A handler that writes while another one is past its read makes
the job raced, which is why a single older reading never has to be tracked.

`WithinGrants` counts the retries in the log and those about to be logged, which
is what `RetryInv` of the pipeline bounds by the budget. `CopiesWithinBudget` puts
the two together: a job that has not failed comes out at most `max_retries` + 1
times, plus once for each payload that went to a further member of its rooms,
however often it is submitted and dispatched. That there are finitely many agents
(`FiniteAgents`) is what it takes to count the payloads of a dispatch.

### Presence

The type invariant is proved for its parts (`ConnOK`, `MapsOK`, ...), since a
step disturbs few of them. `ReportsAreLive` is inductive relative to `TypeOK`:
only `Report` adds a report, of an open, authenticated socket; what clears the
entry or closes the socket clears the report with it; and `PresentResume`, which
may put an entry back, never takes one away.

`NothingLeaks` is not: a handler that resumes after its socket closed would put
the entry back. `QuietInv` adds that a socket that is not open has no handler at
work, and that one whose token is being checked has no entry yet and presents nothing;
both hold as long as no client closes while a handler is suspended, which is the
property's hypothesis. Restarts, failing calls, logouts and the other moves are
allowed.

`OnlineIsServed` needs more of each socket (`Steady`): it is in the rooms of all it
presented and reports; what it presents next does not make it forget a device it
has not reported; and it has a disconnect in flight only once it is closed, so
that no disconnect overwrites another's list of devices. The step that matters is
a disconnect (`DisconnectServes`): a device the socket stood for is either on its
way to `offline` or reported by another socket, which then serves it.

`HeartbeatPreserves` follows from typing, since it is about one step, but about
every step: `HttpSettled` says that a heartbeat writes the status it holds or
leaves the row alone, and what an operator's request writes is the operator's;
`SocketSettled` that of a socket's steps only a present takes a device on.

### List

`IInv` of `DeviceListingProofs` adds to `ListIsFresh` that a list in a reader's
hands which no change overtook is what is available (`ReadersOK`), and that only
a closed socket has a disconnect handler (`LeftIsClosed`). A step that changes
what is available leaves an invalidation pending, and a pending invalidation
stays pending until it deletes the list: `Kept` says this of each step of
`DevicePresence`, whose type theorem is reused.

`RunsDevicePresence` shows that the caches only watch the gateway, so its
theorems hold here. `ListedIsServed` joins two of them: with ordinary clients and
no failures, a device on the cached list has a socket in its room, or the reason
why not is one that `OnlineIsServed` or `ListIsFresh` names.

### Device authentication

`KeyMade` adds to `ApprovedHasKey` that an approval about to mark its request has
inserted a key for it; `OneByOne` adds to `OneActiveKey` that approvals which did
not cross come one at a time and that no key is active between the revocation of
the old ones and the insert. `RevokedIsFinal` (defined in `DeviceAuthProofs`: no
key and no session leaves *revoked*) and `RotatedIsDead` follow from typing: the update of a refresh does not repeat the check made on the session it
read, but leaves `revokedAt` alone; and a token is issued once, so that none
that was rotated out comes back.

`ImplementsContract` maps each step to one of `CredentialContract` or to a stutter.
It needs `FoundInv`: an exchange and a revocation hold a key that was issued, and
a handler about to rotate or to end a session holds one that was opened. The
mapping's `accepted` is a set over handlers, so each lemma says what its step does
to that set: a handler that fails or dies gives up its acceptance (`GiveUp`), and a
rotation takes its pair away unless another handler holds the same.

`RunsDeviceAuth` shows that `DeviceActivation` implements `DeviceAuth` (every step
is one of its steps or leaves its variables alone), so `DeviceAuth`'s invariants
hold there and the new proofs are about the lists and the bootstrap alone. `AInv`
adds that a list a reader is about to store, and that no change overtook, holds
what is pending (`ReadersFresh`), and that bootstraps which do not overlap see
that there is no administrator (`OneByOneAdmin`).

### Identity

`RowsOK` says that a row's two columns agree, that identifiers are unique, that a
MAC address is in one row unless its machine was mixed or its calls overlapped,
and that a row lacks its address only if its machine was mixed or left one out;
`CallsOK` what a call in flight has seen and that it is alone unless calls
overlapped; `HomesOK` that the row an installation was given first is its
machine's. *Its machine's* is meant up to `Same`: what calls have mixed is told
apart no longer, so no invariant has to follow which of two mixed machines a row
has come to belong to. A mixed machine stays mixed, which is why a call that
mixes two more leaves the invariant of the rest alone. The conjunction is
inductive; each property follows.

### Revocation

`RevokedHere` is inductive: `cleanup` drops expired tokens only, and nothing else
takes a token out of the map but a restart, which forgets the answer too.
`StoredIsRefused` speaks of a check that began when the token's entry was in
Redis; `LateIsStored` says that the entry is still there when Redis is asked,
unless the token has expired, because no step but the expiry deletes one.

## 9 What is only model-checked

* Liveness (`AckTimeoutMovesJob`, the liveness part of `ContractSpec`,
  `OrdinaryDisconnectTakesOffline`, `OffIsDelisted`, `SuspendedIsRefused`): liveness under
  fairness is outside the prover's reach.
* Every invariant and every action property that a run checks is proved as well,
  so the bounds of the runs limit liveness only.

## 10 What is not modelled

* Tenant checks: every branch that finds another tenant returns without a
  write, so one tenant is modelled.
* The validation of escpos payloads, which happens before any state is touched.
* Log rows that administrators add or edit through `/print-job-logs`.
* Columns no property reads (document, payload, source, priority, raw answers).
* In `DevicePresence`, `subscribe`: it writes no map and no row. It joins the rooms
  of the tenant and of the token's device, which the handshake has joined, or of
  the device that the client names if its token has none; and with a `jobId` the
  room of that job. What this does to a dispatch is `JoinDevice` and
  `SubscribeToJob` of `PrintDelivery`.
* The rate limit on activation requests: a counter that nothing else depends on,
  and that is not enforced while Redis is away.
* The password log-in of administrators and users, which keeps no state.
* Operators' edits of a device's identifier and MAC address.
* The columns of a job that PATCH writes besides status, printer and keys.
* What deleting a device or a location does to other tables (foreign keys).
* The catalogue and the wiring of the application.

## 11 Findings

### What the runs show

Each of these is a run whose counterexample is the behaviour; `PROJECT.json`
quotes the document.

* `presence_two_sockets`: `handleDisconnect` takes a device offline under another
  open socket that has presented it and not sent its report, against *"En
  desconexion, backend marca `offline` si no hay otro socket activo del mismo
  device"* (`docs/ficha-tecnica/04-contratos-websocket.md:97`).
* `presence_logout`: `handlePrinterLogout` deletes the entries from which
  `handleDisconnect` knows the devices of a socket, so a client that logs out
  leaves its device online, against *"Desconexion WS (si no hay otro socket activo
  para el mismo device) -> `offline`"* (src `README.md:155`, and
  `docs/ficha-tecnica/08-pruebas-checklist.md:21`). The other moves of
  [4](#4-device-presence-and-identity) break the same promise in rarer ways.
* `revocation_sockets`: messages on an open socket are compared with the map of
  their own process only, so a socket outlives a revocation that another process
  answered (`docs/ficha-tecnica/08-pruebas-checklist.md:34`).

### What was met without a run

* `approveDeviceActivation` revokes the device's active keys
  (`auth.service.ts:492`) and leaves the sessions made with them live: they go on
  refreshing. `docs/database/prisma-reference.md:25` says *"Revocar sesiones al
  revocar API key"*, which the code does in `revokeDeviceApiKey` only. The model
  has this behaviour, and `RevokedKeyHasNoSession` names it as an exception
  (`keyOf[n] \in superseded`); without that conjunct the run `auth` fails.

## 12 Running it

```
tlc -workers 2 -config jobs.cfg MCPrintJobs
tlc -workers 2 -config jobs_requests.cfg MCPrintJobs
tlc -workers 2 -config delivery.cfg MCPrintDelivery
tlc -workers 2 -config presence.cfg MCDevicePresence
tlc -workers 2 -config presence_logout.cfg MCDevicePresence
tlc -workers 2 -config presence_two_sockets.cfg MCDevicePresence
tlc -workers 2 -config listing.cfg MCDeviceListing
tlc -workers 2 -config auth.cfg MCDeviceAuth
tlc -workers 2 -config activation.cfg MCDeviceActivation
tlc -workers 2 -config identity.cfg MCDeviceIdentity
tlc -workers 2 -config revocation.cfg MCTokenRevocation
tlc -workers 2 -config revocation_sockets.cfg MCTokenRevocation
tlapm PrintJobsProofs.tla
```

Each run takes from a few seconds to about three minutes with two workers, and each
proof module a few minutes. Every property of a passing run has a mutant in
`PROJECT.json`: a plausible mistake in one definition (the operators commented
`Variant:`) with which the same run finds the property violated.
