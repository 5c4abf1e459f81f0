---------------------------- MODULE PrintDelivery ----------------------------
(***************************************************************************)
(* The pipeline with both ends of its WebSocket attached: the sockets of   *)
(* the printer's agents, which receive print.job.dispatch, print and       *)
(* answer, and a watcher in the tenant's room, which follows               *)
(* print.job.updated.                                                      *)
(*                                                                         *)
(* A dispatch is emitted to three rooms one after the other and each emit  *)
(* reaches every socket of its room.  Two of them carry the payload: the   *)
(* device's room and the job's own, which subscribe joins when a jobId is  *)
(* given.  So one dispatch goes out as many times as those rooms have      *)
(* members, twice to a socket that is in both, and not at all when they    *)
(* are empty.  The tenant's event has the same name and no payload: there  *)
(* is nothing in it to print.                                              *)
(*                                                                         *)
(* The agents are programs outside this repository, modelled from what the *)
(* gateway sends them and accepts from them: an agent acknowledges every   *)
(* dispatch it receives, then prints it or fails, and answers either way.  *)
(* Nothing in the protocol asks it to recognise one it has had before.     *)
(*                                                                         *)
(* Socket.IO delivers at most once: what is in transit when a socket       *)
(* closes may be lost.  Messages of one socket arrive in order, but the    *)
(* reads of their handlers run on a pool of database connections and may   *)
(* complete in any order, hence a bag of answers and not a queue.          *)
(*                                                                         *)
(* One device; submissions carry a request key and no content key, and    *)
(* operators' PATCH and DELETE and the failures are left to PrintJobs.     *)
(***************************************************************************)
EXTENDS PrintJobs

CONSTANT Agent  \* sockets of programs that print the dispatches they receive

ASSUME FiniteAgents == IsFiniteSet(Agent)
ASSUME NothingFails == Faults = {}

VARIABLES
    deviceRoom,  \* the agents in device:<printerId>
    jobRoom,     \* jobRoom[j]: the agents in job:<j>
    inbox,       \* inbox[j]: payloads of j on their way to an agent
    working,     \* working[j]: payloads of j an agent has acknowledged
    answers,     \* answers[j][a]: messages about j on their way to the server
    copies,      \* copies[j]: how many times j came out of a printer
    shown,       \* shown[j]: the last status of j the watcher was sent, or None
    \* What happened, for the properties:
    extra,       \* extra[j]: payloads sent beyond the first of each dispatch
    missed,      \* jobs one of whose payloads never reached its agent
    lost,        \* jobs one of whose results was lost on its way
    raced        \* jobs a handler wrote while another one was in flight over them

rooms == <<deviceRoom, jobRoom>>
agent == <<rooms, inbox, working, answers, copies, extra, missed, lost>>
dvars == <<vars, agent, shown, raced>>

\* print.job.ack, and print.job.result with success or error, by the log
\* event each leads to.
Answer == {"validated", "printed", "failed"}

DInit ==
    /\ Init
    /\ deviceRoom = {}
    /\ jobRoom = [j \in Job |-> {}]
    /\ inbox = [j \in Job |-> 0]
    /\ working = [j \in Job |-> 0]
    /\ answers = [j \in Job |-> [a \in Answer |-> 0]]
    /\ copies = [j \in Job |-> 0]
    /\ shown = [j \in Job |-> None]
    /\ extra = [j \in Job |-> 0]
    /\ missed = {}
    /\ lost = {}
    /\ raced = {}

-----------------------------------------------------------------------------
(* What the gateway sends.                                                 *)

\* One event for each socket in each of the two rooms.
Recipients(j) == Cardinality(deviceRoom) + Cardinality(jobRoom[j])

\* n payloads of j go out for one dispatch; nobody keeps it when n = 0.
SendPayloads(j, n) ==
    /\ inbox' = [inbox EXCEPT ![j] = @ + n]
    /\ extra' = IF n > 1 THEN [extra EXCEPT ![j] = @ + (n - 1)] ELSE extra
    /\ missed' = IF n = 0 THEN missed \cup {j} ELSE missed

\* Variant of EmitJobDispatch: the tenant's event has the payload as well, and
\* the device's sockets are in that room too.
EmitPayloadToTenant(j) ==
    /\ inbox' = [inbox EXCEPT ![j] = @ + Recipients(j) + Cardinality(deviceRoom)]
    /\ extra' = IF Recipients(j) > 1 THEN [extra EXCEPT ![j] = @ + (Recipients(j) - 1)] ELSE extra
    /\ missed' = IF Recipients(j) = 0 THEN missed \cup {j} ELSE missed

\* emitJobDispatch: the rooms of the row's printer and of the job.
EmitJobDispatch(j) == SendPayloads(j, Recipients(j))

\* emitJobUpdated: the status of the row the handler's own update returned.
EmitJobUpdated(j, s) == shown' = [shown EXCEPT ![j] = s]

\* The status a handler has written when it records the event out.
Written(out) == CASE out = "validated" -> "processing"
                  [] out = "retried"   -> NextStatus(TRUE)
                  [] OTHER             -> out

\* Variant of Announce: the timeout changes the row without a word.
AnnounceAnswers(t) ==
    IF task[t].op = "timeout" THEN UNCHANGED shown
    ELSE EmitJobUpdated(task[t].job, Written(task[t].out))

\* ack, result and timeout announce what they wrote.
Announce(t) == EmitJobUpdated(task[t].job, Written(task[t].out))

-----------------------------------------------------------------------------
(* The server.                                                             *)

\* A handler writes the row; another one may have read or written it and not
\* be done.
Write(t) ==
    /\ DispatchWrite(t) \/ AckWrite(t) \/ ResultWrite(t) \/ TimeoutWrite(t)
    /\ raced' = raced \cup {j \in {task[t].job} :
                   \E u \in Task \ {t} : /\ task[u].at \in {"write", "log"}
                                         /\ task[u].job = j}
    /\ UNCHANGED <<agent, shown>>

Send(t) ==
    /\ DispatchLog(t)
    /\ EmitJobDispatch(task[t].job)
    /\ EmitJobUpdated(task[t].job, "sent")
    /\ UNCHANGED <<rooms, working, answers, copies, lost, raced>>

Finish(t) ==
    /\ HandlerLog(t)
    /\ Announce(t)
    /\ UNCHANGED <<agent, raced>>

\* create() emits print.job.created, after which a watcher shows the job in
\* the status it was created with.
Create(t) ==
    /\ \E j \in Job, b \in RetryBudget :
          /\ Insert(t, j, "queued", TRUE, b)
          /\ EmitJobUpdated(j, "queued")
    /\ UNCHANGED <<agent, raced>>

\* The steps that neither send nor write.
Proceed(t) ==
    /\ \/ \E op \in {"public", "admin"}, r \in Request : Submit(t, op, r, None)
       \/ FindByRequest(t)
       \/ InsertRejected(t)
       \/ DispatchRead(t)
       \/ \E j \in Job : AdminDispatch(t, j) \/ TimerFires(t, j)
    /\ UNCHANGED <<agent, shown, raced>>

\* The check each message must pass on the row its handler reads.
Accepts(j, a) ==
    IF a = "validated" THEN status[j] = "sent" ELSE status[j] \in AllowedStatesForResult

\* A message reaches its handler, which reads the row and goes on or answers
\* "ignored".
Deliver(t, j, a) ==
    /\ answers[j][a] > 0
    /\ IsIdle(t)
    /\ answers' = [answers EXCEPT ![j][a] = @ - 1]
    /\ IF ~Accepts(j, a) THEN UNCHANGED vars
       ELSE IF a = "validated" THEN Ack(t, j) ELSE Result(t, j, a)
    /\ UNCHANGED <<rooms, inbox, working, copies, extra, missed, lost, shown, raced>>

-----------------------------------------------------------------------------
(* The agents.                                                             *)

\* The handshake joins the room of the token's device, and so do subscribe and
\* print.device.present.
JoinDevice(a) ==
    /\ a \notin deviceRoom
    /\ deviceRoom' = deviceRoom \cup {a}
    /\ UNCHANGED <<vars, jobRoom, inbox, working, answers, copies, extra, missed, lost,
                   shown, raced>>

\* subscribe with a jobId.
SubscribeToJob(a, j) ==
    /\ Exists(j)
    /\ a \notin jobRoom[j]
    /\ jobRoom' = [jobRoom EXCEPT ![j] = @ \cup {a}]
    /\ UNCHANGED <<vars, deviceRoom, inbox, working, answers, copies, extra, missed, lost,
                   shown, raced>>

\* The socket closes and leaves its rooms.
Disconnect(a) ==
    /\ a \in deviceRoom \/ \E j \in Job : a \in jobRoom[j]
    /\ deviceRoom' = deviceRoom \ {a}
    /\ jobRoom' = [j \in Job |-> jobRoom[j] \ {a}]
    /\ UNCHANGED <<vars, inbox, working, answers, copies, extra, missed, lost, shown, raced>>

\* A payload, or a message about j, was in transit on a socket that closed.
\* (It may be in its rooms again by now, so this asks nothing of them.)
LoseDispatch(j) ==
    /\ inbox[j] > 0
    /\ inbox' = [inbox EXCEPT ![j] = @ - 1]
    /\ missed' = missed \cup {j}
    /\ UNCHANGED <<vars, rooms, working, answers, copies, extra, lost, shown, raced>>

LoseAnswer(j, a) ==
    /\ answers[j][a] > 0
    /\ answers' = [answers EXCEPT ![j][a] = @ - 1]
    /\ lost' = IF a = "validated" THEN lost ELSE lost \cup {j}
    /\ UNCHANGED <<vars, rooms, inbox, working, copies, extra, missed, shown, raced>>

Take(j) ==
    /\ inbox[j] > 0
    /\ inbox' = [inbox EXCEPT ![j] = @ - 1]
    /\ working' = [working EXCEPT ![j] = @ + 1]
    /\ answers' = [answers EXCEPT ![j]["validated"] = @ + 1]
    /\ UNCHANGED <<vars, rooms, copies, extra, missed, lost, shown, raced>>

\* The agent prints, or fails to, and answers.  While it is offline it keeps
\* the answer for its next connection.
Report(j, a) ==
    /\ working[j] > 0
    /\ working' = [working EXCEPT ![j] = @ - 1]
    /\ copies' = IF a = "printed" THEN [copies EXCEPT ![j] = @ + 1] ELSE copies
    /\ answers' = [answers EXCEPT ![j][a] = @ + 1]
    /\ UNCHANGED <<vars, rooms, inbox, extra, missed, lost, shown, raced>>

-----------------------------------------------------------------------------
Serve(t) == Write(t) \/ Send(t) \/ Finish(t) \/ Create(t) \/ Proceed(t)

Work(j) == Take(j) \/ \E a \in {"printed", "failed"} : Report(j, a)

Lose(j) == LoseDispatch(j) \/ \E a \in Answer : LoseAnswer(j, a)

Move(a) == JoinDevice(a) \/ (\E j \in Job : SubscribeToJob(a, j)) \/ Disconnect(a)

DNext ==
    \/ \E t \in Task : Serve(t)
    \/ \E t \in Task, j \in Job, a \in Answer : Deliver(t, j, a)
    \/ \E a \in Agent : Move(a)
    \/ \E j \in Job : Work(j) \/ Lose(j)

DSpec == DInit /\ [][DNext]_dvars

-----------------------------------------------------------------------------
(* Properties.                                                             *)

\* No more messages and copies than payloads, one for each dispatch and those
\* sent beyond it: a payload is printed at most once and answered at most once,
\* whatever is lost.
DeliveryTypeOK ==
    /\ deviceRoom \subseteq Agent
    /\ jobRoom \in [Job -> SUBSET Agent]
    /\ shown \in [Job -> JobStatus \cup {None}]
    /\ extra \in [Job -> Nat]
    /\ missed \subseteq Job
    /\ lost \subseteq Job
    /\ raced \subseteq Job
    /\ \A j \in Job :
          /\ copies[j] + inbox[j] + working[j] \in 0..(attempts[j] + extra[j])
          /\ copies[j] + answers[j]["failed"] \in 0..(attempts[j] + extra[j])
          /\ answers[j]["validated"] + inbox[j] \in 0..(attempts[j] + extra[j])
          /\ answers[j]["printed"] \in 0..copies[j]

\* Nothing about j is under way, at the server or on the wire.
AtRest(j) ==
    /\ \A t \in Task : task[t].job # j
    /\ inbox[j] = 0 /\ working[j] = 0
    /\ \A a \in Answer : answers[j][a] = 0

\* Paper that came out is in the record.  A job that was printed ends printed,
\* even when its result comes after its acknowledgement timed out, unless the
\* result was lost, the job had failed before, or two handlers raced over it.
PaperIsRecorded ==
    \A j \in Job : copies[j] > 0 /\ AtRest(j) =>
        \/ status[j] = "printed"
        \/ logs[j]["failed"] > 0
        \/ j \in lost \cup raced

\* The retries timeouts granted j, the one about to be logged included.
Granted(j) ==
    logs[j]["retried"]
        + Cardinality({t \in InFlight("timeout", {"log"}, j) : task[t].out = "retried"})

\* Each copy after the first has a timeout of its own behind it, or a payload
\* sent beyond the first of its dispatch (to a second socket of the device, or
\* one subscribed to the job), unless the job failed or two handlers raced over
\* it: neither resubmission nor a lost connection prints it again, and one
\* timeout grants one more dispatch.
ReprintsHaveAReason ==
    \A j \in Job : copies[j] > 1 + Granted(j) + extra[j] =>
        \/ logs[j]["failed"] > 0
        \/ \E t \in Task : task[t].job = j /\ task[t].at = "log" /\ task[t].out = "failed"
        \/ j \in raced

\* The watcher is never left with an old status: once nothing is under way at
\* the server it was last sent the status of the row, unless handlers raced.
WatcherSeesLast ==
    \A j \in Job : Exists(j) /\ (\A t \in Task : task[t].job # j) =>
        shown[j] = status[j] \/ j \in raced

\* Nothing times out a job in 'processing', so it must not be left there: once
\* nothing is under way it is not, unless a message about it was lost (a late
\* acknowledgement of one dispatch stands for another that never arrived), or
\* handlers raced.
ProcessingEnds ==
    \A j \in Job : status[j] = "processing" /\ AtRest(j) =>
        j \in missed \cup lost \cup raced
=============================================================================
