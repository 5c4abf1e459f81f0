-------------------------- MODULE PrintDeliveryProofs --------------------------
(***************************************************************************)
(* Theorems about PrintDelivery, for every set of rows, handler slots and  *)
(* budgets and any number of messages in transit.                          *)
(*                                                                         *)
(* PrintDelivery runs PrintJobs, so the theorems about the pipeline hold   *)
(* here; what is added says, of each job, where its last dispatch and its  *)
(* last answer are, as long as no two handlers raced over it.              *)
(***************************************************************************)
EXTENDS PrintDelivery, PrintJobsProofs

-----------------------------------------------------------------------------
(* PrintDelivery runs PrintJobs.                                           *)

LEMMA StepOfJobs == [DNext]_dvars => [Next]_vars
<1> SUFFICES ASSUME [DNext]_dvars PROVE [Next]_vars
  OBVIOUS
<1>1. ASSUME NEW t \in Task, Write(t) \/ Send(t) \/ Finish(t) PROVE Next
  BY <1>1 DEF Write, Send, Finish, Next, Resume
<1>2. ASSUME NEW t \in Task, Create(t) PROVE Next
  <2>1. PICK j \in Job, b \in RetryBudget : Insert(t, j, "queued", TRUE, b)
    BY <1>2 DEF Create
  <2>2. Resume(t)
    BY <2>1 DEF Resume
  <2> QED
    BY <2>2 DEF Next
<1>3. ASSUME NEW t \in Task, Proceed(t) PROVE Next
  BY <1>3 DEF Proceed, Next, Resume, Arrive
<1>4. ASSUME NEW t \in Task, NEW j \in Job, NEW a \in Answer, Deliver(t, j, a)
      PROVE  [Next]_vars
  <2>1. UNCHANGED vars \/ Ack(t, j) \/ (a \in {"printed", "failed"} /\ Result(t, j, a))
    BY <1>4 DEF Deliver, Answer
  <2> QED
    BY <2>1 DEF Next, Arrive
<1>5. CASE \/ \E a \in Agent : Move(a)
           \/ \E j \in Job : Work(j) \/ Lose(j)
           \/ UNCHANGED dvars
  BY <1>5 DEF Move, JoinDevice, SubscribeToJob, Disconnect, Work, Take, Report, Lose,
              LoseDispatch, LoseAnswer, dvars
<1> QED
  BY <1>1, <1>2, <1>3, <1>4, <1>5 DEF DNext, Serve

\* Delivery adds to the pipeline and changes nothing in it: its theorems hold
\* with an agent and a watcher attached (PrintEventsGateway).
THEOREM RunsPrintJobs == DSpec => Spec
<1>1. DInit => Init
  BY DEF DInit
<1> QED
  BY <1>1, StepOfJobs, PTL DEF DSpec, Spec

-----------------------------------------------------------------------------
(* What the steps do.                                                      *)

AtLog(t, k) == task[t].at = "log" /\ task[t].job = k
AtWrite(t, k) == task[t].at = "write" /\ task[t].job = k

\* The slot t is taken over by x, a handler that has just read its row, or
\* one that has no row.
JustRead(x) ==
    \/ x.op = "dispatch" /\ status[x.job] \in JobStatus \ SentOrDone
    \/ x.op \in {"ack", "timeout"} /\ status[x.job] = "sent"
    \/ x.op = "result" /\ status[x.job] \in AllowedStatesForResult

Fresh(x) ==
    \/ x.at \notin {"read", "write", "log"}
    \/ x.at = "read" /\ status[x.job] # "absent"
    \/ x.at = "write" /\ JustRead(x)

\* A timeout that has granted a retry and is about to record it.
Granter(x, k) == x.op = "timeout" /\ x.at = "log" /\ x.job = k /\ x.out = "retried"

Granters(k) == {t \in InFlight("timeout", {"log"}, k) : task[t].out = "retried"}

LEMMA GrantsOf ==
    ASSUME NEW k \in Job
    PROVE  /\ Granted(k) = logs[k]["retried"] + Cardinality(Granters(k))
           /\ Granters(k) = {t \in Task : Granter(task[t], k)}
           /\ Cardinality(Granters(k)) \in Nat
<1>1. Granters(k) \subseteq Task
  BY DEF Granters, InFlight
<1>2. Cardinality(Granters(k)) \in Nat
  BY <1>1, FiniteTasks, FS_Subset, FS_CardinalityType
<1> QED
  BY <1>2 DEF Granted, Granters, InFlight, Granter

\* A step that moves no granter of k leaves its grants alone ...
LEMMA GrantFrame ==
    ASSUME NEW k \in Job, logs'[k] = logs[k],
           \A u \in Task : \/ task'[u] = task[u]
                           \/ ~Granter(task[u], k) /\ ~Granter(task'[u], k)
    PROVE  Granted(k)' = Granted(k)
<1>1. {t \in Task : Granter(task'[t], k)} = {t \in Task : Granter(task[t], k)}
  OBVIOUS
<1>2. Granters(k)' = Granters(k)
  BY <1>1 DEF Granters, InFlight, Granter
<1> QED
  BY <1>2 DEF Granted, Granters

\* ... and one that moves slot t alone moves their number by what t is.
LEMMA GrantStep ==
    ASSUME NEW k \in Job, NEW t \in Task, \A u \in Task \ {t} : task'[u] = task[u]
    PROVE  Cardinality(Granters(k))' = Cardinality(Granters(k))
                 - Bit(Granter(task[t], k)) + Bit(Granter(task'[t], k))
<1>1. Granters(k) \in SUBSET Task /\ Granters(k)' \in SUBSET Task
  BY DEF Granters, InFlight
<1>2. \A u \in Task : u # t => (u \in Granters(k) <=> u \in Granters(k)')
  BY DEF Granters, InFlight
<1>3. (t \in Granters(k) <=> Granter(task[t], k)) /\ (t \in Granters(k)' <=> Granter(task'[t], k))
  BY DEF Granters, InFlight, Granter
<1>4. Cardinality(Granters(k)') = Cardinality(Granters(k))
          - Bit(t \in Granters(k)) + Bit(t \in Granters(k)')
  BY <1>1, <1>2, CountOne
<1> QED
  BY <1>3, <1>4 DEF Bit

LEMMA Becomes ==
    ASSUME TypeOK, NEW t \in Task, NEW x, Become(t, x)
    PROVE  \A u \in Task : task'[u] = IF u = t THEN x ELSE task[u]
BY DEF Become, TypeOK

LEMMA WriteEffects ==
    ASSUME TypeOK, NEW t \in Task, Write(t)
    PROVE  \E j \in Job : \E x :
              /\ j = task[t].job /\ task[t].at = "write" /\ Exists(j)
              /\ task[t].out \in OutcomesOf(task[t].op)
              /\ x.at = "log" /\ x.op = task[t].op /\ x.job = j /\ x.out = task[t].out
              /\ \A u \in Task : task'[u] = IF u = t THEN x ELSE task[u]
              /\ status'[j] \in WrittenStatus /\ Explains(status'[j]) = task[t].out
              /\ attempts'[j] = attempts[j] + (IF task[t].op = "dispatch" THEN 1 ELSE 0)
              /\ \A k \in Job \ {j} : status'[k] = status[k] /\ attempts'[k] = attempts[k]
              /\ UNCHANGED <<logs, agent, shown>>
              /\ raced \subseteq raced' /\ raced' \subseteq raced \cup {j}
              /\ j \notin raced' =>
                    \A u \in Task \ {t} : ~AtWrite(u, j) /\ ~AtLog(u, j)
<1>0. DispatchWrite(t) \/ AckWrite(t) \/ ResultWrite(t) \/ TimeoutWrite(t)
  BY DEF Write
<1>1. Writes(t) /\ status'[task[t].job] \in WrittenStatus
      /\ Explains(status'[task[t].job]) = task[t].out
  BY <1>0, WriteSteps DEF WrittenStatus
<1>2. PICK j \in Job : j = task[t].job
  BY <1>1 DEF Writes
<1>3. PICK x : Become(t, x) /\ x.at = "log" /\ x.op = task[t].op /\ x.job = j /\ x.out = task[t].out
  BY <1>1, <1>2 DEF Writes
<1>4. attempts'[j] = attempts[j] + (IF task[t].op = "dispatch" THEN 1 ELSE 0)
      /\ \A k \in Job \ {j} : attempts'[k] = attempts[k]
  <2>1. CASE DispatchWrite(t)
    BY <1>2, <2>1 DEF DispatchWrite, Waiting, TypeOK
  <2>2. CASE AckWrite(t) \/ ResultWrite(t) \/ TimeoutWrite(t)
    BY <1>2, <2>2 DEF AckWrite, ResultWrite, TimeoutWrite, Waiting, TypeOK
  <2> QED
    BY <1>0, <2>1, <2>2
<1>5. \A k \in Job \ {j} : status'[k] = status[k]
  BY <1>1, <1>2 DEF Writes, TypeOK
<1>6. /\ UNCHANGED <<agent, shown>> /\ raced \subseteq raced' /\ raced' \subseteq raced \cup {j}
      /\ j \notin raced' => \A u \in Task \ {t} : ~AtWrite(u, j) /\ ~AtLog(u, j)
  BY <1>2 DEF Write, AtWrite, AtLog
<1> QED
  BY <1>1, <1>2, <1>3, <1>4, <1>5, <1>6, Becomes DEF Writes

\* What a watcher is told when the event out is recorded.
Told(out) == IF out = "sent_to_printer" THEN "sent" ELSE Written(out)

LEMMA ToldTheStatus == \A s \in WrittenStatus : Told(Explains(s)) = s
BY DEF WrittenStatus, Told, Explains, Written, NextStatus

LEMMA RecordEffects ==
    ASSUME TypeOK, NEW t \in Task, Send(t) \/ Finish(t)
    PROVE  \E j \in Job :
              /\ AtLog(t, j) /\ Exists(j)
              /\ task[t].out \in OutcomesOf(task[t].op)
              /\ \A u \in Task : task'[u] = IF u = t THEN Idle ELSE task[u]
              /\ UNCHANGED <<row, raced>>
              /\ \A k \in Job \ {j} : logs'[k] = logs[k]
              /\ shown' = [shown EXCEPT ![j] = Told(task[t].out)]
              /\ logs'[j]["sent_to_printer"] = logs[j]["sent_to_printer"] +
                    (IF task[t].op = "dispatch" THEN 1 ELSE 0)
              /\ logs'[j]["retried"] = logs[j]["retried"] + Bit(Granter(task[t], j))
<1>0. (DispatchLog(t) \/ HandlerLog(t)) /\ UNCHANGED raced
  BY DEF Send, Finish
<1>1. Records(t) /\ Exists(task[t].job)
  BY <1>0, RecordSteps DEF DispatchLog, HandlerLog
<1>2. PICK j \in Job : j = task[t].job
  BY <1>1 DEF Records
<1>3. AtLog(t, j) /\ Exists(j) /\ task[t].out \in OutcomesOf(task[t].op)
  BY <1>1, <1>2 DEF Records, AtLog, TypeOK
<1>4. shown' = [shown EXCEPT ![j] = Told(task[t].out)]
  <2>1. CASE Send(t)
    BY <1>2, <1>3, <2>1 DEF Send, DispatchLog, Waiting, EmitJobUpdated, OutcomesOf, Told
  <2>2. CASE Finish(t)
    BY <1>2, <1>3, <2>2 DEF Finish, HandlerLog, Announce, EmitJobUpdated, OutcomesOf, Told
  <2> QED
    BY <2>1, <2>2
<1>5. logs'[j]["sent_to_printer"] = logs[j]["sent_to_printer"] +
                    (IF task[t].op = "dispatch" THEN 1 ELSE 0)
      /\ logs'[j]["retried"] = logs[j]["retried"] + Bit(Granter(task[t], j))
      /\ \A k \in Job \ {j} : logs'[k] = logs[k]
  <2>1. task[t].op = "dispatch" <=> task[t].out = "sent_to_printer"
    BY <1>3 DEF OutcomesOf
  <2>2. logs \in [Job -> [LogEvent -> Nat]] /\ {"sent_to_printer", "retried"} \subseteq LogEvent
        /\ task[t].out \in LogEvent
    BY <1>1 DEF Records, TypeOK, LogEvent
  <2>3. Granter(task[t], j) <=> task[t].out = "retried"
    BY <1>3 DEF Granter, AtLog, OutcomesOf
  <2> QED
    BY <1>1, <1>2, <2>1, <2>2, <2>3 DEF Records, Record, Counted, Bit
<1> QED
  BY <1>0, <1>1, <1>2, <1>3, <1>4, <1>5, Becomes DEF Records, Done

LEMMA CreateEffects ==
    ASSUME TypeOK, NEW t \in Task, Create(t)
    PROVE  \E j \in Job : \E x :
              /\ status[j] = "absent" /\ task[t].at = "insert"
              /\ status' = [status EXCEPT ![j] = "queued"]
              /\ shown' = [shown EXCEPT ![j] = "queued"]
              /\ \/ x.at \notin {"read", "write", "log"}
                 \/ x.at = "read" /\ x.job = j
              /\ \A u \in Task : task'[u] = IF u = t THEN x ELSE task[u]
              /\ UNCHANGED <<attempts, logs, agent, raced>>
<1>1. PICK j \in Job, b \in RetryBudget : /\ Insert(t, j, "queued", TRUE, b)
                                         /\ EmitJobUpdated(j, "queued")
  BY DEF Create
<1>2. PICK x : Become(t, x) /\ \/ x.at \notin {"read", "write", "log"}
                               \/ x.at = "read" /\ x.job = j
  <2>1. CASE Done(t)
    BY <2>1, IdleType DEF Done
  <2>2. CASE Become(t, Holding("dispatch", "read", j, None))
    BY <2>2, HoldingType DEF Op
  <2> QED
    BY <1>1, <2>1, <2>2 DEF Insert, AnswerWith
<1>3. \A u \in Task : task'[u] = IF u = t THEN x ELSE task[u]
  BY <1>2, Becomes
<1>4. /\ status[j] = "absent" /\ task[t].at = "insert"
      /\ status' = [status EXCEPT ![j] = "queued"]
      /\ shown' = [shown EXCEPT ![j] = "queued"]
      /\ UNCHANGED <<attempts, logs, agent, raced>>
  BY <1>1 DEF Insert, EmitJobUpdated, Create
<1> QED
  BY <1>2, <1>3, <1>4

\* A handler reads, or begins, or ends with nothing to do.
Gathers(t) ==
    /\ task[t].at \notin {"write", "log"}
    /\ \E x : Fresh(x) /\ \A u \in Task : task'[u] = IF u = t THEN x ELSE task[u]

LEMMA AnswerGathers ==
    ASSUME TypeOK, NEW t \in Task, NEW j \in Job, Exists(j), AnswerWith(t, j),
           task[t].at \notin {"write", "log"}
    PROVE  Gathers(t)
<1>1. CASE Done(t)
  BY <1>1, IdleType, Becomes DEF Done, Gathers, Fresh
<1>2. CASE Become(t, Holding("dispatch", "read", j, None))
  <2>1. Fresh(Holding("dispatch", "read", j, None))
    BY HoldingType DEF Op, Fresh, Exists, JobStatus
  <2> QED
    BY <1>2, <2>1, Becomes DEF Gathers
<1> QED
  BY <1>1, <1>2 DEF AnswerWith

LEMMA HoldingGathers ==
    ASSUME TypeOK, NEW t \in Task, NEW j \in Job, task[t].at \notin {"write", "log"},
           NEW op \in {"dispatch", "ack", "timeout", "result"}, NEW out \in LogEvent,
           Become(t, Holding(op, "write", j, out)),
           \/ op = "dispatch" /\ Dispatchable(j)
           \/ op \in {"ack", "timeout"} /\ status[j] = "sent"
           \/ op = "result" /\ status[j] \in AllowedStatesForResult
    PROVE  Gathers(t)
<1> DEFINE x == Holding(op, "write", j, out)
<1>1. x.at = "write" /\ x.op = op /\ x.job = j
  BY HoldingType DEF Op
<1>2. Become(t, x)
  OBVIOUS
<1> HIDE DEF x
<1>3. Fresh(x)
  BY <1>1 DEF Fresh, JustRead, Dispatchable, Exists
<1> QED
  BY <1>2, <1>3, Becomes DEF Gathers

LEMMA ProceedGathers ==
    ASSUME TypeOK, NEW t \in Task, Proceed(t)
    PROVE  Gathers(t) /\ UNCHANGED <<row, logs, agent, shown, raced>>
<1>0. UNCHANGED <<row, logs, agent, shown, raced>>
  BY DEF Proceed, Submit, FindByRequest, InsertRejected, DispatchRead, AdminDispatch, TimerFires
<1> SUFFICES Gathers(t)
  BY <1>0
<1>1. ASSUME NEW op \in {"public", "admin"}, NEW r \in Request, Submit(t, op, r, None)
      PROVE  Gathers(t)
  <2> DEFINE x == [Idle EXCEPT !.op = op, !.request = r, !.hash = None,
                     !.at = IF r # None THEN "request" ELSE IF None # None THEN "hash" ELSE "insert"]
  <2>1. Become(t, x) /\ x.at \notin {"read", "write", "log"}
    BY <1>1 DEF Submit, Idle
  <2> HIDE DEF x
  <2> QED
    BY <1>1, <2>1, Becomes DEF Submit, IsIdle, Gathers, Fresh
<1>2. CASE FindByRequest(t)
  <2>1. CASE \E j \in Job : Exists(j) /\ AnswerWith(t, j)
    BY <1>2, <2>1, AnswerGathers DEF FindByRequest
  <2>2. CASE Goto(t, AfterRequest(task[t].hash))
    <3> DEFINE x == [task[t] EXCEPT !.at = AfterRequest(task[t].hash)]
    <3>1. x.at \notin {"read", "write", "log"} /\ Become(t, x)
      BY <2>2, GotoFields DEF Goto, AfterRequest
    <3> HIDE DEF x
    <3> QED
      BY <1>2, <3>1, Becomes DEF FindByRequest, Gathers, Fresh
  <2> QED
    BY <1>2, <2>1, <2>2 DEF FindByRequest
<1>3. CASE InsertRejected(t)
  BY <1>3, IdleType, Becomes DEF InsertRejected, Done, Gathers, Fresh
<1>4. CASE DispatchRead(t)
  <2>1. task[t].job \in Job
    BY <1>4 DEF DispatchRead, Waiting, TypeOK
  <2>2. CASE Done(t)
    BY <1>4, <2>2, IdleType, Becomes DEF DispatchRead, Waiting, Done, Gathers, Fresh
  <2>3. CASE ~Done(t)
    BY <1>4, <2>1, <2>3, HoldingGathers DEF DispatchRead, Waiting, LogEvent
  <2> QED
    BY <2>2, <2>3
<1>5. ASSUME NEW j \in Job, AdminDispatch(t, j) PROVE Gathers(t)
  BY <1>5, HoldingGathers DEF AdminDispatch, IsIdle, LogEvent
<1>6. ASSUME NEW j \in Job, TimerFires(t, j) PROVE Gathers(t)
  <2>1. CASE Unanswered(j)
    BY <1>6, <2>1, HoldingGathers DEF TimerFires, Unanswered, IsIdle, LogEvent
  <2>2. CASE ~Unanswered(j)
    BY <1>6, <2>2 DEF TimerFires, IsIdle, Gathers, Fresh
  <2> QED
    BY <2>1, <2>2
<1> QED
  BY <1>1, <1>2, <1>3, <1>4, <1>5, <1>6 DEF Proceed

\* A message that is accepted has a handler; one that is not leaves the slots.
LEMMA DeliverGathers ==
    ASSUME TypeOK, NEW t \in Task, NEW j \in Job, NEW a \in Answer, Deliver(t, j, a)
    PROVE  /\ UNCHANGED <<row, logs, shown, raced, rooms, inbox, working, copies,
                        extra, missed, lost>>
           /\ \/ UNCHANGED task /\ ~Accepts(j, a)
              \/ /\ Gathers(t)
                 /\ a # "validated" => /\ AtWrite(t, j)'
                                       /\ task'[t].op = "result" /\ task'[t].out = a
<1>1. CASE ~Accepts(j, a)
  BY <1>1 DEF Deliver, vars, row
<1>2. CASE Accepts(j, a) /\ a = "validated"
  BY <1>2, HoldingGathers DEF Deliver, Accepts, Ack, IsIdle, LogEvent
<1>3. CASE Accepts(j, a) /\ a # "validated"
  <2>1. Result(t, j, a) /\ a \in LogEvent
    BY <1>3 DEF Deliver, Answer, LogEvent
  <2>2. Gathers(t)
    BY <2>1, HoldingGathers DEF Result, IsIdle
  <2>3. task'[t] = Holding("result", "write", j, a)
    BY <2>1, Becomes DEF Result
  <2>4. task'[t].op = "result" /\ task'[t].at = "write" /\ task'[t].job = j /\ task'[t].out = a
    BY <2>1, <2>3, HoldingType DEF Op
  <2> QED
    BY <2>1, <2>2, <2>4 DEF Deliver, Result, AtWrite
<1> QED
  BY <1>1, <1>2, <1>3

-----------------------------------------------------------------------------
(* The invariant, job by job.                                              *)

AgentTypes ==
    /\ deviceRoom \subseteq Agent /\ jobRoom \in [Job -> SUBSET Agent]
    /\ extra \in [Job -> Nat]
    /\ inbox \in [Job -> Nat] /\ working \in [Job -> Nat] /\ copies \in [Job -> Nat]
    /\ answers \in [Job -> [Answer -> Nat]]
    /\ shown \in [Job -> JobStatus \cup {None}]
    /\ missed \subseteq Job /\ lost \subseteq Job /\ raced \subseteq Job

Sends(k) == logs[k]["sent_to_printer"]

\* Only the pipeline writes a status, and a handler with a row has one.
RowKept(k) ==
    /\ status[k] \in {"absent", "queued"} \cup WrittenStatus
    /\ attempts[k] > 0 <=> status[k] \in WrittenStatus
    /\ status[k] = "failed" => Noted(k, "failed")
    /\ \A t \in Task :
          task[t].at \in {"read", "write", "log"} /\ task[t].job = k =>
              /\ status[k] # "absent"
              /\ task[t].at # "read" /\ (task[t].op # "dispatch" \/ task[t].at = "log") =>
                    status[k] \in WrittenStatus

\* Each payload that was sent is in the inbox, at work, printed, failed or lost;
\* beyond one for each dispatch there are only the extra ones.
SendsCounted(k) ==
    /\ copies[k] + inbox[k] + working[k] + answers[k]["failed"] <= Sends(k) + extra[k]
    /\ answers[k]["validated"] + inbox[k] <= Sends(k) + extra[k]
    /\ answers[k]["printed"] <= copies[k]
    /\ extra[k] > 0 => Sends(k) > 0

\* Without races one handler at a time records, and what the others read of the
\* job is still so.
OneWriter(k) ==
    k \notin raced =>
        /\ \A t, u \in Task : AtLog(t, k) /\ AtLog(u, k) => t = u
        /\ \A t \in Task : AtLog(t, k) => Explains(status[k]) = task[t].out
        /\ \A t \in Task : AtWrite(t, k) => JustRead(task[t])

\* The watcher knows the status unless a handler is about to tell.
WatcherKnows(k) ==
    k \notin raced /\ status[k] # "absent" /\ (\A t \in Task : ~AtLog(t, k)) =>
        shown[k] = status[k]

\* Only a timeout gives a job that has not failed another attempt: one each,
\* and a job that waits for it has not had it.
WithinGrants(k) ==
    k \notin raced /\ ~Noted(k, "failed") =>
        /\ attempts[k] <= 1 + Granted(k)
        /\ status[k] = "retrying" => attempts[k] <= Granted(k)

\* Paper that came out is recorded or its answer is on the way.
PaperFollows(k) ==
    k \notin lost \cup raced /\ ~Noted(k, "failed") /\ copies[k] > 0 =>
        \/ status[k] = "printed"
        \/ answers[k]["printed"] > 0
        \/ \E t \in Task : AtWrite(t, k) /\ task[t].op = "result" /\ task[t].out = "printed"

\* A job that awaits an answer is about to be sent, with the agent, or answered.
AnswerFollows(k) ==
    k \notin missed \cup lost \cup raced /\ status[k] \in {"sent", "processing"} =>
        \/ inbox[k] + working[k] + answers[k]["printed"] + answers[k]["failed"] > 0
        \/ \E t \in Task : AtLog(t, k) /\ task[t].op = "dispatch"
        \/ \E t \in Task : AtWrite(t, k) /\ task[t].op = "result"

JobInv(k) ==
    /\ RowKept(k) /\ SendsCounted(k) /\ OneWriter(k) /\ WatcherKnows(k)
    /\ WithinGrants(k) /\ PaperFollows(k) /\ AnswerFollows(k)

DInv == TypeOK /\ AgentTypes /\ Audited /\ \A k \in Job : JobInv(k)

-----------------------------------------------------------------------------
(* The agent's steps change no row and no handler.                         *)

LEMMA AgentFrame ==
    ASSUME UNCHANGED <<row, logs, task, shown, raced>>, NEW k \in Job, RowKept(k), OneWriter(k),
           WatcherKnows(k), WithinGrants(k)
    PROVE  RowKept(k)' /\ OneWriter(k)' /\ WatcherKnows(k)' /\ WithinGrants(k)'
<1>1. Granted(k)' = Granted(k)
  BY GrantFrame
<1> QED
  BY <1>1 DEF row, RowKept, OneWriter, WatcherKnows, WithinGrants, AtLog, AtWrite, Noted, JustRead

LEMMA JobTypes ==
    ASSUME TypeOK, AgentTypes, NEW k \in Job
    PROVE  /\ inbox[k] \in Nat /\ working[k] \in Nat /\ copies[k] \in Nat /\ extra[k] \in Nat
           /\ answers[k] \in [Answer -> Nat]
           /\ answers[k]["validated"] \in Nat /\ answers[k]["printed"] \in Nat
           /\ answers[k]["failed"] \in Nat
           /\ Sends(k) \in Nat /\ attempts[k] \in Nat
           /\ status[k] \in JobStatus \cup {"absent", "deleted"}
BY DEF AgentTypes, Answer, Sends, TypeOK, LogEvent

\* A socket that joins or leaves changes who is sent the next dispatch.
LEMMA MoveKeeps ==
    ASSUME DInv, NEW a \in Agent, Move(a)
    PROVE  AgentTypes' /\ \A k \in Job : JobInv(k)'
<1>0. UNCHANGED <<vars, shown, raced, inbox, working, answers, copies, extra, missed, lost>>
  BY DEF Move, JoinDevice, SubscribeToJob, Disconnect
<1>1. AgentTypes'
  <2>1. deviceRoom \subseteq Agent /\ jobRoom \in [Job -> SUBSET Agent]
    BY DEF DInv, AgentTypes
  <2>2. deviceRoom' \subseteq Agent /\ jobRoom' \in [Job -> SUBSET Agent]
    <3>1. CASE JoinDevice(a)
      BY <2>1, <3>1 DEF JoinDevice
    <3>2. ASSUME NEW j \in Job, SubscribeToJob(a, j)
          PROVE  deviceRoom' \subseteq Agent /\ jobRoom' \in [Job -> SUBSET Agent]
      BY <2>1, <3>2 DEF SubscribeToJob
    <3>3. CASE Disconnect(a)
      BY <2>1, <3>3 DEF Disconnect
    <3> QED
      BY <3>1, <3>2, <3>3 DEF Move
  <2> QED
    BY <1>0, <2>2 DEF DInv, AgentTypes
<1>2. ASSUME NEW k \in Job PROVE JobInv(k)'
  <2>1. JobInv(k) /\ UNCHANGED <<row, logs, task, shown, raced>>
    BY <1>0 DEF DInv, vars, row
  <2>2. RowKept(k)' /\ OneWriter(k)' /\ WatcherKnows(k)' /\ WithinGrants(k)'
    BY <2>1, AgentFrame DEF JobInv
  <2>3. SendsCounted(k)' /\ PaperFollows(k)' /\ AnswerFollows(k)'
    BY <1>0, <2>1 DEF JobInv, SendsCounted, PaperFollows, AnswerFollows, vars, Sends, AtWrite, AtLog, Noted
  <2> QED
    BY <2>2, <2>3 DEF JobInv
<1> QED
  BY <1>1, <1>2

LEMMA LoseKeeps ==
    ASSUME DInv, NEW j \in Job, Lose(j)
    PROVE  AgentTypes' /\ \A k \in Job : JobInv(k)'
<1>0. /\ TypeOK /\ AgentTypes /\ UNCHANGED <<vars, shown, raced, rooms, working, copies, extra>>
  BY DEF DInv, Lose, LoseDispatch, LoseAnswer
<1>1. LoseDispatch(j) \/ \E a \in Answer : LoseAnswer(j, a)
  BY DEF Lose
<1>2. AgentTypes'
  <2>1. CASE LoseDispatch(j)
    BY <1>0, <2>1 DEF LoseDispatch, AgentTypes, rooms
  <2>2. ASSUME NEW a \in Answer, LoseAnswer(j, a) PROVE AgentTypes'
    <3>1. answers' \in [Job -> [Answer -> Nat]]
      BY <1>0, <2>2 DEF LoseAnswer, AgentTypes
    <3> QED
      BY <1>0, <2>2, <3>1 DEF LoseAnswer, AgentTypes, rooms
  <2> QED
    BY <1>1, <2>1, <2>2
<1>3. ASSUME NEW k \in Job PROVE JobInv(k)'
  <2>0. JobInv(k)
    BY DEF DInv
  <2>1. RowKept(k)' /\ OneWriter(k)' /\ WatcherKnows(k)' /\ WithinGrants(k)'
    <3>1. UNCHANGED <<row, logs, task, shown, raced>>
      BY <1>0 DEF vars, row
    <3> QED
      BY <2>0, <3>1, AgentFrame DEF JobInv
  <2>2. UNCHANGED <<status, task, logs, raced, working, copies, extra>> /\ Sends(k)' = Sends(k)
    BY <1>0 DEF vars, Sends
  <2>3. /\ k \notin missed' => k \notin missed /\ inbox'[k] = inbox[k]
        /\ k \notin lost' => /\ k \notin lost
                             /\ answers'[k]["printed"] = answers[k]["printed"]
                             /\ answers'[k]["failed"] = answers[k]["failed"]
        /\ inbox'[k] \in Nat /\ inbox'[k] <= inbox[k]
        /\ \A b \in {"validated", "printed", "failed"} :
              answers'[k][b] \in Nat /\ answers'[k][b] <= answers[k][b]
    <3>1. CASE LoseDispatch(j)
      BY <1>0, <3>1 DEF LoseDispatch, AgentTypes, Answer
    <3>2. ASSUME NEW a \in Answer, LoseAnswer(j, a)
          PROVE  /\ k \notin missed' => k \notin missed /\ inbox'[k] = inbox[k]
                 /\ k \notin lost' => /\ k \notin lost
                                      /\ answers'[k]["printed"] = answers[k]["printed"]
                                      /\ answers'[k]["failed"] = answers[k]["failed"]
                 /\ inbox'[k] \in Nat /\ inbox'[k] <= inbox[k]
                 /\ \A b \in {"validated", "printed", "failed"} :
                       answers'[k][b] \in Nat /\ answers'[k][b] <= answers[k][b]
      <4>1. /\ inbox' = inbox /\ missed' = missed /\ inbox[k] \in Nat
            /\ lost' = IF a = "validated" THEN lost ELSE lost \cup {j}
        BY <1>0, <3>2 DEF LoseAnswer, AgentTypes
      <4>2. \A b \in Answer :
               /\ answers[k][b] \in Nat /\ answers'[k][b] \in Nat
               /\ answers'[k][b] <= answers[k][b]
               /\ ~(k = j /\ b = a) => answers'[k][b] = answers[k][b]
        BY <1>0, <3>2 DEF LoseAnswer, AgentTypes
      <4>3. {"validated", "printed", "failed"} \subseteq Answer
        BY DEF Answer
      <4>4. k \notin lost' => k \notin lost /\ ~(k = j /\ a \in {"printed", "failed"})
        BY <4>1, <4>3
      <4>5. k \notin lost' => /\ k \notin lost
                             /\ answers'[k]["printed"] = answers[k]["printed"]
                             /\ answers'[k]["failed"] = answers[k]["failed"]
        <5>1. ASSUME NEW b \in {"printed", "failed"}, k \notin lost'
              PROVE  answers'[k][b] = answers[k][b]
          BY <4>2, <4>4, <5>1 DEF Answer
        <5> QED
          BY <4>4, <5>1
      <4>6. \A b \in {"validated", "printed", "failed"} :
               answers'[k][b] \in Nat /\ answers'[k][b] <= answers[k][b]
        BY <4>2 DEF Answer
      <4>7. /\ k \notin missed' => k \notin missed /\ inbox'[k] = inbox[k]
            /\ inbox'[k] \in Nat /\ inbox'[k] <= inbox[k]
        BY <4>1
      <4> QED
        BY <4>5, <4>6, <4>7
    <3> QED
      BY <1>1, <3>1, <3>2
  <2>4. SendsCounted(k)'
    BY <1>0, <2>0, <2>2, <2>3, JobTypes DEF JobInv, SendsCounted
  <2>5. PaperFollows(k)'
    BY <1>0, <2>0, <2>2, <2>3, JobTypes DEF JobInv, PaperFollows, AtWrite, Noted
  <2>6. AnswerFollows(k)'
    BY <1>0, <2>0, <2>2, <2>3, JobTypes DEF JobInv, AnswerFollows, AtWrite, AtLog
  <2> QED
    BY <2>1, <2>4, <2>5, <2>6 DEF JobInv
<1> QED
  BY <1>2, <1>3

\* What Take and Report do to the job they are about, and to another one.
LEMMA WorkKeeps ==
    ASSUME DInv, NEW j \in Job, Work(j)
    PROVE  AgentTypes' /\ \A k \in Job : JobInv(k)'
<1>0. /\ TypeOK /\ AgentTypes /\ UNCHANGED <<vars, shown, raced, rooms, extra, missed, lost>>
  BY DEF DInv, Work, Take, Report
<1>1. \/ Take(j)
      \/ \E a \in {"printed", "failed"} : Report(j, a)
  BY DEF Work
<1>2. AgentTypes'
  <2>1. CASE Take(j)
    BY <1>0, <2>1 DEF Take, AgentTypes, Answer, rooms
  <2>2. ASSUME NEW a \in {"printed", "failed"}, Report(j, a) PROVE AgentTypes'
    BY <1>0, <2>2 DEF Report, AgentTypes, Answer, rooms
  <2> QED
    BY <1>1, <2>1, <2>2
<1>3. ASSUME NEW k \in Job PROVE JobInv(k)'
  <2>0. JobInv(k)
    BY DEF DInv
  <2>1. RowKept(k)' /\ OneWriter(k)' /\ WatcherKnows(k)' /\ WithinGrants(k)'
    <3>1. UNCHANGED <<row, logs, task, shown, raced>> /\ JobInv(k)
      BY <1>0, <2>0 DEF vars, row
    <3> QED
      BY <3>1, AgentFrame DEF JobInv
  <2>2. UNCHANGED <<status, task, logs, raced, extra, missed, lost>> /\ Sends(k)' = Sends(k)
    BY <1>0 DEF vars, Sends
  <2>3. \/ /\ inbox'[k] = inbox[k] /\ working'[k] = working[k]
           /\ answers'[k] = answers[k] /\ copies'[k] = copies[k]
        \/ /\ inbox[k] > 0 /\ inbox'[k] = inbox[k] - 1 /\ working'[k] = working[k] + 1
           /\ answers'[k]["validated"] = answers[k]["validated"] + 1
           /\ answers'[k]["printed"] = answers[k]["printed"]
           /\ answers'[k]["failed"] = answers[k]["failed"]
           /\ copies'[k] = copies[k]
        \/ /\ working[k] > 0 /\ inbox'[k] = inbox[k] /\ working'[k] = working[k] - 1
           /\ answers'[k]["validated"] = answers[k]["validated"]
           /\ \/ /\ answers'[k]["printed"] = answers[k]["printed"] + 1
                 /\ answers'[k]["failed"] = answers[k]["failed"]
                 /\ copies'[k] = copies[k] + 1
              \/ /\ answers'[k]["printed"] = answers[k]["printed"]
                 /\ answers'[k]["failed"] = answers[k]["failed"] + 1
                 /\ copies'[k] = copies[k]
    <3>1. CASE Take(j)
      BY <1>0, <3>1 DEF Take, AgentTypes, Answer
    <3>2. CASE Report(j, "printed")
      BY <1>0, <3>2 DEF Report, AgentTypes, Answer
    <3>3. CASE Report(j, "failed")
      BY <1>0, <3>3 DEF Report, AgentTypes, Answer
    <3> QED
      BY <1>1, <3>1, <3>2, <3>3
  <2>4. SendsCounted(k)'
    BY <1>0, <2>0, <2>2, <2>3, JobTypes DEF JobInv, SendsCounted
  <2>5. PaperFollows(k)'
    BY <1>0, <2>0, <2>2, <2>3, JobTypes DEF JobInv, PaperFollows, SendsCounted, AtWrite, Noted
  <2>6. AnswerFollows(k)'
    BY <1>0, <2>0, <2>2, <2>3, JobTypes DEF JobInv, AnswerFollows, AtWrite, AtLog
  <2> QED
    BY <2>1, <2>4, <2>5, <2>6 DEF JobInv
<1> QED
  BY <1>2, <1>3

-----------------------------------------------------------------------------
(* The server's steps.                                                     *)

Holds(x, k) == x.at \in {"read", "write", "log"} /\ x.job = k

\* A step that leaves a job's row, handlers and messages alone.
LEMMA OtherJob ==
    ASSUME NEW k \in Job, JobInv(k), UNCHANGED <<status[k], attempts[k], logs[k], shown[k]>>,
           UNCHANGED <<inbox[k], extra[k], working, answers, copies, lost>>,
           k \in raced' <=> k \in raced, k \in missed' <=> k \in missed,
           \A u \in Task : task'[u] = task[u] \/ (~Holds(task[u], k) /\ ~Holds(task'[u], k))
    PROVE  JobInv(k)'
<1>1. \A u \in Task : \/ task'[u] = task[u]
                      \/ /\ ~(task[u].at \in {"read", "write", "log"} /\ task[u].job = k)
                         /\ ~(task'[u].at \in {"read", "write", "log"} /\ task'[u].job = k)
  BY DEF Holds
<1>2. \A e : Noted(k, e)' <=> Noted(k, e)
  BY <1>1 DEF Noted
<1>3. \A u \in Task : (AtLog(u, k)' <=> AtLog(u, k)) /\ (AtWrite(u, k)' <=> AtWrite(u, k))
                      /\ (AtLog(u, k) \/ AtWrite(u, k) => task'[u] = task[u])
  BY <1>1 DEF AtLog, AtWrite
<1>4. RowKept(k)'
  BY <1>1, <1>2 DEF JobInv, RowKept
<1>5. SendsCounted(k)'
  BY DEF JobInv, SendsCounted, Sends
<1>6. OneWriter(k)'
  BY <1>3 DEF JobInv, OneWriter, JustRead, AtWrite
<1>7. WatcherKnows(k)'
  BY <1>3 DEF JobInv, WatcherKnows
<1>8. WithinGrants(k)'
  <2>1. Granted(k)' = Granted(k)
    BY GrantFrame DEF Granter, Holds
  <2> QED
    BY <1>2, <2>1 DEF JobInv, WithinGrants
<1>9. PaperFollows(k)'
  BY <1>2, <1>3 DEF JobInv, PaperFollows
<1>10. AnswerFollows(k)'
  BY <1>3 DEF JobInv, AnswerFollows
<1> QED
  BY <1>4, <1>5, <1>6, <1>7, <1>8, <1>9, <1>10 DEF JobInv

LEMMA WriteKeeps ==
    ASSUME DInv, NEW t \in Task, Write(t), [Next]_vars
    PROVE  AgentTypes' /\ \A k \in Job : JobInv(k)'
<1>0. TypeOK /\ AgentTypes /\ Faults = {}
  BY NothingFails DEF DInv
<1>1. PICK j \in Job : \E x :
              /\ j = task[t].job /\ task[t].at = "write" /\ Exists(j)
              /\ task[t].out \in OutcomesOf(task[t].op)
              /\ x.at = "log" /\ x.op = task[t].op /\ x.job = j /\ x.out = task[t].out
              /\ \A u \in Task : task'[u] = IF u = t THEN x ELSE task[u]
              /\ status'[j] \in WrittenStatus /\ Explains(status'[j]) = task[t].out
              /\ attempts'[j] = attempts[j] + (IF task[t].op = "dispatch" THEN 1 ELSE 0)
              /\ \A k \in Job \ {j} : status'[k] = status[k] /\ attempts'[k] = attempts[k]
              /\ UNCHANGED <<logs, agent, shown>>
              /\ raced \subseteq raced' /\ raced' \subseteq raced \cup {j}
              /\ j \notin raced' =>
                    \A u \in Task \ {t} : ~AtWrite(u, j) /\ ~AtLog(u, j)
  BY <1>0, WriteEffects
<1>2. /\ j = task[t].job /\ task[t].at = "write" /\ Exists(j)
      /\ task[t].out \in OutcomesOf(task[t].op)
      /\ task'[t].at = "log" /\ task'[t].op = task[t].op /\ task'[t].job = j
      /\ task'[t].out = task[t].out
      /\ \A u \in Task \ {t} : task'[u] = task[u]
      /\ status'[j] \in WrittenStatus /\ Explains(status'[j]) = task[t].out
      /\ attempts'[j] = attempts[j] + (IF task[t].op = "dispatch" THEN 1 ELSE 0)
      /\ \A k \in Job \ {j} : status'[k] = status[k] /\ attempts'[k] = attempts[k]
      /\ UNCHANGED <<logs, agent, shown>>
      /\ raced \subseteq raced' /\ raced' \subseteq raced \cup {j}
  BY <1>1
<1>3. j \notin raced' => \A u \in Task \ {t} : ~AtWrite(u, j) /\ ~AtLog(u, j)
  BY <1>1
<1>4. AgentTypes'
  BY <1>0, <1>2 DEF AgentTypes, agent, rooms
<1>5. ASSUME NEW k \in Job, k # j PROVE JobInv(k)'
  <2>1. JobInv(k) /\ (k \in raced' <=> k \in raced)
        /\ UNCHANGED <<agent, status[k], attempts[k], logs[k], shown[k]>>
    BY <1>2, <1>5 DEF DInv
  <2>2. \A u \in Task : task'[u] = task[u] \/ (~Holds(task[u], k) /\ ~Holds(task'[u], k))
    BY <1>2, <1>5 DEF Holds
  <2> QED
    BY <2>1, <2>2, OtherJob DEF agent, rooms
<1>6. JobInv(j)'
  <2>0. JobInv(j) /\ UNCHANGED <<logs, agent, shown>> /\ AtWrite(t, j)
        /\ status'[j] \in JobStatus /\ attempts[j] \in Nat /\ attempts'[j] \in Nat
        /\ (j \notin raced' => j \notin raced)
    BY <1>0, <1>2, ExplainsType, JobTypes DEF DInv, AtWrite
  <2>1. ASSUME j \notin raced'
        PROVE  \A u \in Task : (AtLog(u, j)' <=> u = t) /\ ~AtWrite(u, j)'
    BY <1>2, <1>3, <2>1 DEF AtLog, AtWrite
  <2>2. \A e \in LogEvent : e = task[t].out => Noted(j, e)'
    BY <1>2 DEF Noted
  <2>3. \A e \in LogEvent : Noted(j, e) => Noted(j, e)'
    <3>1. status'[j] # "deleted"
      BY <2>0 DEF JobStatus
    <3> QED
      BY <1>0, <1>2, <3>1, NotedStep
  <2>4. \A s \in WrittenStatus : /\ Explains(s) = "failed" => s = "failed"
                                 /\ s = "failed" => Explains(s) = "failed"
                                 /\ Explains(s) = "printed" => s = "printed"
                                 /\ Explains(s) = "retried" <=> s = "retrying"
                                 /\ Explains(s) = "validated" <=> s = "processing"
                                 /\ Explains(s) = "sent_to_printer" <=> s = "sent"
    BY DEF WrittenStatus, Explains
  <2>5. RowKept(j)'
    <3>1. attempts'[j] > 0
      <4>1. CASE task[t].op = "dispatch"
        BY <1>2, <2>0, <4>1
      <4>2. CASE task[t].op # "dispatch"
        <5>1. attempts[j] > 0
          BY <1>2, <2>0, <4>2 DEF JobInv, RowKept
        <5> QED
          BY <1>2, <2>0, <4>2, <5>1
      <4> QED
        BY <4>1, <4>2
    <3>2. status'[j] = "failed" => Noted(j, "failed")'
      BY <1>2, <2>2, <2>4 DEF LogEvent
    <3>3. status'[j] # "absent"
      BY <2>0 DEF JobStatus
    <3> QED
      BY <1>2, <3>1, <3>2, <3>3 DEF RowKept
  <2>6. SendsCounted(j)'
    BY <2>0 DEF JobInv, SendsCounted, Sends, agent, rooms
  <2>7. OneWriter(j)'
    BY <1>2, <2>1 DEF OneWriter
  <2>8. WatcherKnows(j)'
    BY <2>1 DEF WatcherKnows
  <2>9. WithinGrants(j)'
    <3>1. SUFFICES ASSUME j \notin raced', ~Noted(j, "failed")'
                   PROVE  /\ attempts'[j] <= 1 + Granted(j)'
                          /\ status'[j] = "retrying" => attempts'[j] <= Granted(j)'
      BY DEF WithinGrants
    <3>2. /\ attempts[j] <= 1 + Granted(j)
          /\ status[j] = "retrying" => attempts[j] <= Granted(j)
      BY <2>0, <2>3, <3>1 DEF JobInv, WithinGrants, LogEvent
    <3>3. JustRead(task[t])
      BY <2>0, <3>1 DEF JobInv, OneWriter
    <3>4. /\ Granted(j)' = Granted(j) + Bit(task[t].out = "retried")
          /\ Granted(j) \in Nat
      <4>1. Granter(task'[t], j) <=> task[t].out = "retried"
        BY <1>2 DEF Granter, OutcomesOf
      <4>2. ~Granter(task[t], j)
        BY <1>2 DEF Granter
      <4>3. Cardinality(Granters(j))' = Cardinality(Granters(j)) + Bit(task[t].out = "retried")
        BY <1>2, <4>1, <4>2, GrantStep, GrantsOf DEF Bit
      <4>4. Granted(j)' = logs[j]["retried"] + Cardinality(Granters(j))'
        BY <1>2, GrantsOf DEF Granted, Granters
      <4>5. logs[j]["retried"] \in Nat
        BY <1>0 DEF TypeOK, LogEvent
      <4> QED
        BY <4>3, <4>4, <4>5, GrantsOf DEF Bit
    <3>5. CASE task[t].op = "dispatch"
      <4>1. status[j] \in {"queued", "retrying", "failed"}
        BY <1>2, <2>0, <3>3, <3>5 DEF JustRead, SentOrDone, JobInv, RowKept, WrittenStatus, JobStatus
      <4>2. status[j] # "failed"
        BY <2>0, <2>3, <3>1 DEF JobInv, RowKept, LogEvent
      <4>3. status[j] = "queued" => ~(attempts[j] > 0)
        BY <2>0 DEF JobInv, RowKept, WrittenStatus
      <4>4. task[t].out = "sent_to_printer" /\ status'[j] # "retrying"
        BY <1>2, <2>4, <3>5 DEF OutcomesOf
      <4> QED
        BY <1>2, <2>0, <3>2, <3>4, <3>5, <4>1, <4>2, <4>3, <4>4 DEF Bit
    <3>6. CASE task[t].op # "dispatch"
      <4>1. attempts'[j] = attempts[j]
        BY <1>2, <2>0, <3>6
      <4>2. status'[j] = "retrying" => task[t].out = "retried"
        BY <1>2, <2>4
      <4> QED
        BY <2>0, <3>2, <3>4, <4>1, <4>2 DEF Bit
    <3> QED
      BY <3>5, <3>6
  <2>10. PaperFollows(j)'
    <3>1. SUFFICES ASSUME j \notin lost' \cup raced', ~Noted(j, "failed")', copies'[j] > 0
                   PROVE  status'[j] = "printed" \/ answers'[j]["printed"] > 0
      BY DEF PaperFollows
    <3>2. j \notin lost \cup raced /\ ~Noted(j, "failed") /\ copies[j] > 0
      BY <2>0, <2>3, <3>1 DEF LogEvent, agent, rooms
    <3>3. status[j] # "printed"
      BY <1>2, <2>0, <3>2 DEF JobInv, OneWriter, JustRead, SentOrDone, AllowedStatesForResult
    <3>4. \A u \in Task : AtWrite(u, j) => u = t
      BY <1>3, <3>1
    <3> QED
      BY <1>2, <2>0, <2>4, <3>2, <3>3, <3>4 DEF JobInv, PaperFollows, agent, rooms
  <2>11. AnswerFollows(j)'
    <3>1. SUFFICES ASSUME j \notin missed' \cup lost' \cup raced', status'[j] \in {"sent", "processing"}
                   PROVE  \/ inbox'[j] + working'[j] + answers'[j]["printed"] + answers'[j]["failed"] > 0
                          \/ AtLog(t, j)' /\ task'[t].op = "dispatch"
      BY DEF AnswerFollows
    <3>2. j \notin missed \cup lost \cup raced
      BY <2>0, <3>1 DEF agent, rooms
    <3>3. CASE task[t].op = "dispatch"
      BY <1>2, <3>3 DEF AtLog
    <3>4. CASE task[t].op # "dispatch"
      <4>1. task[t].out \in {"sent_to_printer", "validated"}
        BY <1>2, <2>4, <3>1
      <4>2. task[t].op = "ack"
        BY <1>2, <3>4, <4>1 DEF OutcomesOf
      <4>3. status[j] = "sent"
        BY <1>2, <2>0, <3>2, <4>2 DEF JobInv, OneWriter, JustRead
      <4>4. \A u \in Task : ~AtLog(u, j) /\ (AtWrite(u, j) => u = t)
        BY <1>2, <1>3, <3>1 DEF AtLog
      <4> QED
        BY <2>0, <3>2, <4>2, <4>3, <4>4 DEF JobInv, AnswerFollows, agent, rooms
    <3> QED
      BY <3>3, <3>4
  <2> QED
    BY <2>5, <2>6, <2>7, <2>8, <2>9, <2>10, <2>11 DEF JobInv
<1> QED
  BY <1>4, <1>5, <1>6

\* The rooms of a dispatch have finitely many members.
LEMMA RecipientsType ==
    ASSUME AgentTypes, NEW j \in Job
    PROVE  Recipients(j) \in Nat
<1>1. deviceRoom \subseteq Agent /\ jobRoom[j] \subseteq Agent
  BY DEF AgentTypes
<1>2. Cardinality(deviceRoom) \in Nat /\ Cardinality(jobRoom[j]) \in Nat
  BY <1>1, FiniteAgents, FS_Subset, FS_CardinalityType
<1> QED
  BY <1>2 DEF Recipients

LEMMA RecordKeeps ==
    ASSUME DInv, NEW t \in Task, Send(t) \/ Finish(t), [Next]_vars
    PROVE  AgentTypes' /\ \A k \in Job : JobInv(k)'
<1>0. TypeOK /\ AgentTypes /\ Faults = {}
  BY NothingFails DEF DInv
<1>1. PICK j \in Job :
              /\ AtLog(t, j) /\ Exists(j)
              /\ task[t].out \in OutcomesOf(task[t].op)
              /\ \A u \in Task : task'[u] = IF u = t THEN Idle ELSE task[u]
              /\ UNCHANGED <<row, raced>>
              /\ \A k \in Job \ {j} : logs'[k] = logs[k]
              /\ shown' = [shown EXCEPT ![j] = Told(task[t].out)]
              /\ logs'[j]["sent_to_printer"] = logs[j]["sent_to_printer"] +
                    (IF task[t].op = "dispatch" THEN 1 ELSE 0)
              /\ logs'[j]["retried"] = logs[j]["retried"] + Bit(Granter(task[t], j))
  BY <1>0, RecordEffects
<1>2. /\ UNCHANGED <<status, attempts, raced, working, answers, copies, lost, rooms>>
      /\ missed \subseteq missed'
      /\ \/ /\ task[t].op = "dispatch"
            /\ inbox'[j] \in Nat /\ extra'[j] \in Nat
            /\ extra'[j] >= extra[j] /\ inbox'[j] >= inbox[j]
            /\ inbox'[j] + extra[j] <= inbox[j] + extra'[j] + 1
            /\ j \notin missed' => inbox'[j] > inbox[j]
         \/ /\ task[t].op # "dispatch" /\ UNCHANGED <<inbox, extra, missed>>
      /\ \A k \in Job \ {j} : /\ inbox'[k] = inbox[k] /\ extra'[k] = extra[k]
                              /\ k \in missed' <=> k \in missed
      /\ inbox' \in [Job -> Nat] /\ extra' \in [Job -> Nat] /\ missed' \subseteq Job
  <2>1. UNCHANGED <<status, attempts, raced>> /\ task[t].job = j
        /\ inbox \in [Job -> Nat] /\ extra \in [Job -> Nat] /\ missed \subseteq Job
    BY <1>0, <1>1 DEF row, AtLog, AgentTypes
  <2>2. CASE Send(t)
    <3>1. PICK n \in Nat : SendPayloads(j, n)
      BY <1>0, <2>1, <2>2, RecipientsType DEF Send, EmitJobDispatch
    <3>2. inbox' = [inbox EXCEPT ![j] = @ + n] /\ inbox[j] \in Nat /\ extra[j] \in Nat
      BY <2>1, <3>1 DEF SendPayloads
    <3>3. CASE n > 1
      <4>1. extra' = [extra EXCEPT ![j] = @ + (n - 1)] /\ missed' = missed
        BY <3>1, <3>3 DEF SendPayloads
      <4> QED
        BY <2>1, <2>2, <3>2, <3>3, <4>1 DEF Send, DispatchLog, Waiting
    <3>4. CASE n = 1
      <4>1. extra' = extra /\ missed' = missed
        BY <3>1, <3>4 DEF SendPayloads
      <4> QED
        BY <2>1, <2>2, <3>2, <3>4, <4>1 DEF Send, DispatchLog, Waiting
    <3>5. CASE n = 0
      <4>1. extra' = extra /\ missed' = missed \cup {j}
        BY <3>1, <3>5 DEF SendPayloads
      <4> QED
        BY <2>1, <2>2, <3>2, <3>5, <4>1 DEF Send, DispatchLog, Waiting
    <3> QED
      BY <3>3, <3>4, <3>5
  <2>3. CASE Finish(t)
    BY <2>1, <2>3 DEF Finish, HandlerLog, agent, rooms
  <2> QED
    BY <2>2, <2>3
<1>3. AtLog(t, j) /\ \A u \in Task \ {t} : task'[u] = task[u]
  BY <1>1
<1>4. task'[t] = Idle /\ Idle.at = "idle"
  BY <1>1, IdleType
<1>5. \A u \in Task : /\ AtLog(u, j)' => AtLog(u, j) /\ u # t
                      /\ AtWrite(u, j)' <=> AtWrite(u, j)
                      /\ u # t => AtLog(u, j)' = AtLog(u, j)
  BY <1>3, <1>4 DEF AtLog, AtWrite
<1>6. status[j] \in WrittenStatus /\ status[j] \in JobStatus
  BY <1>1, ExplainsType DEF DInv, JobInv, RowKept, AtLog
<1>7. AgentTypes'
  <2>1. Told(task[t].out) \in JobStatus
    BY <1>1 DEF OutcomesOf, Told, Written, NextStatus, JobStatus
  <2> QED
    BY <1>0, <1>1, <1>2, <2>1 DEF AgentTypes, rooms
<1>8. ASSUME NEW k \in Job, k # j PROVE JobInv(k)'
  <2>1. JobInv(k) /\ UNCHANGED <<status[k], attempts[k], logs[k], shown[k], inbox[k], extra[k]>>
        /\ UNCHANGED <<working, answers, copies, lost, raced>> /\ (k \in missed' <=> k \in missed)
    BY <1>0, <1>1, <1>2, <1>8 DEF DInv, AgentTypes
  <2>2. \A u \in Task : task'[u] = task[u] \/ (~Holds(task[u], k) /\ ~Holds(task'[u], k))
    BY <1>3, <1>4, <1>8 DEF Holds, AtLog
  <2> QED
    BY <2>1, <2>2, OtherJob
<1>9. JobInv(j)'
  <2>0. JobInv(j)
    BY DEF DInv
  <2>1. \A e \in LogEvent : Noted(j, e) => Noted(j, e)'
    <3>1. status'[j] # "deleted"
      BY <1>2, <1>6 DEF JobStatus
    <3> QED
      BY <1>0, <1>1, <3>1, NotedStep
  <2>2. RowKept(j)'
    <3>1. \A u \in Task : task'[u].at \in {"read", "write", "log"} => u # t
      BY <1>4
    <3>2. status[j] = "failed" => Noted(j, "failed")'
      BY <2>0, <2>1 DEF JobInv, RowKept, LogEvent
    <3> QED
      BY <1>2, <1>3, <2>0, <3>1, <3>2 DEF JobInv, RowKept
  <2>3. SendsCounted(j)'
    <3>1. \/ /\ Sends(j)' = Sends(j) + 1
             /\ inbox'[j] \in Nat /\ extra'[j] \in Nat
             /\ inbox'[j] + extra[j] <= inbox[j] + extra'[j] + 1
             /\ extra'[j] >= extra[j]
          \/ Sends(j)' = Sends(j) /\ inbox'[j] = inbox[j] /\ extra'[j] = extra[j]
      BY <1>0, <1>1, <1>2, JobTypes DEF Sends
    <3>2. UNCHANGED <<working[j], answers[j], copies[j]>>
      BY <1>2
    <3> QED
      BY <1>0, <2>0, <3>1, <3>2, JobTypes DEF JobInv, SendsCounted
  <2>4. OneWriter(j)'
    <3>1. SUFFICES ASSUME j \notin raced PROVE OneWriter(j)'
      BY <1>2 DEF OneWriter
    <3>2. \A u \in Task : ~AtLog(u, j)'
      BY <1>3, <1>5, <2>0, <3>1 DEF JobInv, OneWriter
    <3> QED
      BY <1>2, <1>3, <1>4, <1>5, <2>0, <3>2 DEF JobInv, OneWriter, AtWrite, JustRead
  <2>5. WatcherKnows(j)'
    <3>1. shown'[j] = Told(task[t].out)
      BY <1>0, <1>1 DEF AgentTypes
    <3>2. j \notin raced => Explains(status[j]) = task[t].out
      BY <1>3, <2>0 DEF JobInv, OneWriter
    <3>3. j \notin raced => shown'[j] = status[j]
      BY <1>6, <3>1, <3>2, ToldTheStatus
    <3> QED
      BY <1>2, <3>3 DEF WatcherKnows
  <2>6. WithinGrants(j)'
    <3>1. Noted(j, "failed") => Noted(j, "failed")'
      BY <2>1 DEF LogEvent
    <3>2. Cardinality(Granters(j))' = Cardinality(Granters(j)) - Bit(Granter(task[t], j))
      <4>1. ~Granter(task'[t], j)
        BY <1>4 DEF Granter
      <4> QED
        BY <1>3, <4>1, GrantStep, GrantsOf DEF Bit
    <3>3. Granted(j)' = logs'[j]["retried"] + Cardinality(Granters(j))'
      BY DEF Granted, Granters
    <3>4. logs[j]["retried"] \in Nat
      BY <1>0 DEF TypeOK, LogEvent
    <3>5. Granted(j)' = Granted(j)
      BY <1>1, <3>2, <3>3, <3>4, GrantsOf DEF Bit
    <3> QED
      BY <1>2, <2>0, <3>1, <3>5 DEF JobInv, WithinGrants
  <2>7. PaperFollows(j)'
    <3>1. Noted(j, "failed") => Noted(j, "failed")'
      BY <2>1 DEF LogEvent
    <3>2. \A u \in Task : AtWrite(u, j) => AtWrite(u, j)' /\ task'[u] = task[u]
      BY <1>3, <1>5 DEF AtWrite, AtLog
    <3> QED
      BY <1>2, <2>0, <3>1, <3>2 DEF JobInv, PaperFollows
  <2>8. AnswerFollows(j)'
    <3>1. \A u \in Task : AtWrite(u, j) => AtWrite(u, j)' /\ task'[u] = task[u]
      BY <1>3, <1>5 DEF AtWrite, AtLog
    <3>2. CASE task[t].op = "dispatch"
      <4>1. j \notin missed' => inbox'[j] > inbox[j] /\ inbox'[j] \in Nat
        BY <1>2, <3>2
      <4>2. j \notin missed' =>
              inbox'[j] + working'[j] + answers'[j]["printed"] + answers'[j]["failed"] > 0
        <5>1. inbox[j] \in Nat /\ working[j] \in Nat /\ answers[j]["printed"] \in Nat
              /\ answers[j]["failed"] \in Nat
          BY <1>0, JobTypes
        <5> QED
          BY <1>2, <4>1, <5>1
      <4> QED
        BY <4>2 DEF AnswerFollows
    <3>3. CASE task[t].op # "dispatch"
      <4>1. UNCHANGED <<inbox, working, answers, status, missed, lost, raced>>
        BY <1>2, <3>3
      <4>2. \A u \in Task : AtLog(u, j) /\ task[u].op = "dispatch" =>
                               AtLog(u, j)' /\ task'[u].op = "dispatch"
        BY <1>3, <3>3 DEF AtLog
      <4> QED
        BY <2>0, <3>1, <4>1, <4>2 DEF JobInv, AnswerFollows
    <3> QED
      BY <3>2, <3>3
  <2> QED
    BY <2>2, <2>3, <2>4, <2>5, <2>6, <2>7, <2>8 DEF JobInv
<1> QED
  BY <1>7, <1>8, <1>9

\* No log row without its attempt: what the record counts, attempts bounds.
LEMMA SendsBounded ==
    ASSUME DInv, NEW k \in Job
    PROVE  Sends(k) <= attempts[k]
<1>1. status[k] # "deleted"
  BY DEF DInv, JobInv, RowKept, WrittenStatus
<1>2. attempts[k] = Sends(k) + Cardinality(Senders(k))
  BY <1>1, NothingFails DEF DInv, Audited, AuditedAt, Sends
<1>3. Cardinality(Senders(k)) \in Nat /\ Sends(k) \in Nat
  BY SenderCount, JobTypes DEF DInv
<1> QED
  BY <1>2, <1>3

\* A job that came out of the printer, or whose dispatches were sent, has a
\* status the pipeline wrote.
LEMMA PrintedWasSent ==
    ASSUME DInv, NEW k \in Job, copies[k] > 0
    PROVE  status[k] \in WrittenStatus
<1>1. /\ inbox[k] \in Nat /\ working[k] \in Nat /\ copies[k] \in Nat /\ answers[k]["failed"] \in Nat
      /\ attempts[k] \in Nat /\ Sends(k) \in Nat
      /\ extra[k] \in Nat
  BY JobTypes DEF DInv
<1>2. /\ copies[k] + inbox[k] + working[k] + answers[k]["failed"] <= Sends(k) + extra[k]
      /\ extra[k] > 0 => Sends(k) > 0
  BY DEF DInv, JobInv, SendsCounted
<1>3. attempts[k] > 0
  BY <1>1, <1>2, SendsBounded
<1> QED
  BY <1>3 DEF DInv, JobInv, RowKept

LEMMA CreateKeeps ==
    ASSUME DInv, NEW t \in Task, Create(t)
    PROVE  AgentTypes' /\ \A k \in Job : JobInv(k)'
<1>0. TypeOK /\ AgentTypes
  BY DEF DInv
<1>1. PICK j \in Job : \E x :
              /\ status[j] = "absent" /\ task[t].at = "insert"
              /\ status' = [status EXCEPT ![j] = "queued"]
              /\ shown' = [shown EXCEPT ![j] = "queued"]
              /\ \/ x.at \notin {"read", "write", "log"}
                 \/ x.at = "read" /\ x.job = j
              /\ \A u \in Task : task'[u] = IF u = t THEN x ELSE task[u]
              /\ UNCHANGED <<attempts, logs, agent, raced>>
  BY <1>0, CreateEffects
<1>2. /\ status[j] = "absent" /\ task[t].at = "insert"
      /\ status' = [status EXCEPT ![j] = "queued"]
      /\ shown' = [shown EXCEPT ![j] = "queued"]
      /\ UNCHANGED <<attempts, logs, agent, raced>>
      /\ \A u \in Task \ {t} : task'[u] = task[u]
  BY <1>1
<1>3. \/ task'[t].at \notin {"read", "write", "log"}
      \/ task'[t].at = "read" /\ task'[t].job = j
  BY <1>1
<1>4. AgentTypes'
  BY <1>0, <1>2 DEF AgentTypes, agent, rooms, JobStatus
<1>5. ASSUME NEW k \in Job, k # j PROVE JobInv(k)'
  <2>1. JobInv(k) /\ UNCHANGED <<status[k], attempts[k], logs[k], shown[k], agent, raced>>
    BY <1>0, <1>2, <1>5 DEF DInv, AgentTypes, TypeOK
  <2>2. \A u \in Task : task'[u] = task[u] \/ (~Holds(task[u], k) /\ ~Holds(task'[u], k))
    BY <1>2, <1>3, <1>5 DEF Holds
  <2> QED
    BY <2>1, <2>2, OtherJob DEF agent, rooms
<1>6. JobInv(j)'
  <2>0. JobInv(j) /\ UNCHANGED <<attempts, logs, agent, raced>>
        /\ status'[j] = "queued" /\ shown'[j] = "queued"
    BY <1>0, <1>2 DEF DInv, TypeOK, AgentTypes
  <2>1. \A u \in Task \ {t} : ~(task[u].at \in {"read", "write", "log"} /\ task[u].job = j)
    BY <1>2, <2>0 DEF JobInv, RowKept
  <2>2. \A u \in Task : ~AtLog(u, j)' /\ ~AtWrite(u, j)'
    BY <1>2, <1>3, <2>1 DEF AtLog, AtWrite
  <2>3. ~(attempts[j] > 0)
    BY <1>2, <2>0 DEF JobInv, RowKept, WrittenStatus
  <2>4. ~(copies[j] > 0)
    BY <1>2, PrintedWasSent DEF WrittenStatus
  <2>5. RowKept(j)'
    <3>1. \A u \in Task : task'[u].at \in {"read", "write", "log"} /\ task'[u].job = j =>
                             task'[u].at = "read"
      BY <1>2, <1>3, <2>1
    <3> QED
      BY <2>0, <2>3, <3>1 DEF RowKept, WrittenStatus
  <2>6. SendsCounted(j)'
    BY <2>0 DEF JobInv, SendsCounted, Sends, agent, rooms
  <2>7. OneWriter(j)' /\ WatcherKnows(j)'
    BY <2>0, <2>2 DEF OneWriter, WatcherKnows
  <2>9. WithinGrants(j)'
    <3>1. \A u \in Task : \/ task'[u] = task[u]
                          \/ ~Granter(task[u], j) /\ ~Granter(task'[u], j)
      BY <1>2, <1>3 DEF Granter
    <3>2. Granted(j)' = Granted(j)
      BY <2>0, <3>1, GrantFrame
    <3>3. Granted(j) \in Nat /\ attempts[j] \in Nat
      BY <1>0, GrantsOf DEF TypeOK, LogEvent
    <3> QED
      BY <2>0, <2>3, <3>2, <3>3 DEF WithinGrants
  <2>8. PaperFollows(j)' /\ AnswerFollows(j)'
    BY <2>0, <2>4 DEF PaperFollows, AnswerFollows, agent, rooms
  <2> QED
    BY <2>5, <2>6, <2>7, <2>8, <2>9 DEF JobInv
<1> QED
  BY <1>4, <1>5, <1>6

\* A handler that reads takes over nothing and finds what JobInv says of it.
LEMMA GatherKeeps ==
    ASSUME DInv, NEW t \in Task, Gathers(t), UNCHANGED <<row, logs, shown, raced>>, NEW k \in Job
    PROVE  /\ RowKept(k)' /\ OneWriter(k)' /\ WatcherKnows(k)' /\ WithinGrants(k)'
           /\ Sends(k)' = Sends(k)
           /\ Noted(k, "failed")' <=> Noted(k, "failed")
           /\ \A u \in Task : AtLog(u, k) \/ AtWrite(u, k) => u # t /\ task'[u] = task[u]
<1>0. JobInv(k) /\ UNCHANGED <<status, attempts, logs, shown, raced>>
  BY DEF DInv, row
<1>1. PICK x : Fresh(x) /\ \A u \in Task : task'[u] = IF u = t THEN x ELSE task[u]
  BY DEF Gathers
<1>2. /\ task[t].at \notin {"write", "log"}
      /\ \A u \in Task \ {t} : task'[u] = task[u]
      /\ task'[t] = x
  BY <1>1 DEF Gathers
<1>3. x.at # "log" /\ (x.at = "read" => status[x.job] # "absent") /\ (x.at = "write" => JustRead(x))
  BY <1>1 DEF Fresh
<1>4. \A u \in Task : (AtLog(u, k)' <=> AtLog(u, k)) /\ (AtLog(u, k) => task'[u] = task[u])
  BY <1>2, <1>3 DEF AtLog
<1>5. \A u \in Task : AtLog(u, k) \/ AtWrite(u, k) => u # t /\ task'[u] = task[u]
  BY <1>2 DEF AtLog, AtWrite
<1>6. \A u \in Task : AtWrite(u, k)' =>
                       \/ AtWrite(u, k) /\ task'[u] = task[u]
                       \/ u = t /\ task'[t].at = "write" /\ task'[t].job = k
  BY <1>2 DEF AtWrite
<1>7. task'[t].at = "write" /\ task'[t].job = k =>
        \/ task'[t].op = "dispatch" /\ status[k] \in JobStatus \ SentOrDone
        \/ task'[t].op \in {"ack", "timeout"} /\ status[k] = "sent"
        \/ task'[t].op = "result" /\ status[k] \in AllowedStatesForResult
  BY <1>2, <1>3 DEF JustRead
<1>8. \A e : Noted(k, e)' <=> Noted(k, e)
  <2>1. \A u \in Task : (task'[u].at = "log" \/ task[u].at = "log") => task'[u] = task[u]
    BY <1>2, <1>3
  <2> QED
    BY <1>0, <2>1 DEF Noted
<1>9. RowKept(k)'
  <2>1. ASSUME NEW u \in Task, task'[u].at \in {"read", "write", "log"}, task'[u].job = k
        PROVE  /\ status[k] # "absent"
               /\ task'[u].at # "read" /\ (task'[u].op # "dispatch" \/ task'[u].at = "log") =>
                     status[k] \in WrittenStatus
    <3>1. CASE u # t
      BY <1>0, <1>2, <2>1, <3>1 DEF JobInv, RowKept
    <3>2. CASE u = t /\ task'[u].at = "read"
      BY <1>2, <1>3, <2>1, <3>2
    <3>3. CASE u = t /\ task'[u].at = "write"
      BY <1>7, <2>1, <3>3 DEF JobStatus, SentOrDone, AllowedStatesForResult, WrittenStatus
    <3> QED
      BY <1>2, <1>3, <2>1, <3>1, <3>2, <3>3
  <2> QED
    BY <1>0, <1>8, <2>1 DEF JobInv, RowKept
<1>10. OneWriter(k)'
  <2>1. SUFFICES ASSUME k \notin raced PROVE OneWriter(k)'
    BY <1>0 DEF OneWriter
  <2>2. \A u \in Task : AtWrite(u, k)' => JustRead(task'[u])
    BY <1>0, <1>2, <1>3, <1>6, <2>1 DEF JobInv, OneWriter
  <2>3. \A u \in Task : JustRead(task'[u]) => JustRead(task[u])'
    BY <1>0 DEF JustRead
  <2> QED
    BY <1>0, <1>4, <2>1, <2>2, <2>3 DEF JobInv, OneWriter
<1>11. WatcherKnows(k)'
  BY <1>0, <1>4 DEF JobInv, WatcherKnows
<1>12. WithinGrants(k)'
  <2>1. Granted(k)' = Granted(k)
    BY <1>0, <1>2, <1>3, GrantFrame DEF Granter
  <2> QED
    BY <1>0, <1>8, <2>1 DEF JobInv, WithinGrants
<1> QED
  BY <1>0, <1>5, <1>8, <1>9, <1>10, <1>11, <1>12 DEF Sends

LEMMA ProceedKeeps ==
    ASSUME DInv, NEW t \in Task, Proceed(t)
    PROVE  AgentTypes' /\ \A k \in Job : JobInv(k)'
<1>1. Gathers(t) /\ UNCHANGED <<row, logs, agent, shown, raced>>
  BY ProceedGathers DEF DInv
<1>2. AgentTypes'
  BY <1>1 DEF DInv, AgentTypes, agent, rooms
<1>3. ASSUME NEW k \in Job PROVE JobInv(k)'
  <2>1. /\ RowKept(k)' /\ OneWriter(k)' /\ WatcherKnows(k)' /\ WithinGrants(k)'
        /\ Sends(k)' = Sends(k) /\ (Noted(k, "failed")' <=> Noted(k, "failed"))
        /\ \A u \in Task : AtLog(u, k) \/ AtWrite(u, k) => task'[u] = task[u]
    BY <1>1, GatherKeeps
  <2>2. JobInv(k) /\ UNCHANGED <<status, raced, inbox, working, answers, copies, extra, missed, lost>>
    BY <1>1 DEF DInv, row, agent, rooms
  <2>3. \A u \in Task : /\ AtLog(u, k) => AtLog(u, k)' /\ task'[u] = task[u]
                        /\ AtWrite(u, k) => AtWrite(u, k)' /\ task'[u] = task[u]
    BY <2>1 DEF AtLog, AtWrite
  <2>4. SendsCounted(k)'
    BY <2>1, <2>2 DEF JobInv, SendsCounted
  <2>5. PaperFollows(k)'
    BY <2>1, <2>2, <2>3 DEF JobInv, PaperFollows
  <2>6. AnswerFollows(k)'
    BY <2>2, <2>3 DEF JobInv, AnswerFollows
  <2> QED
    BY <2>1, <2>4, <2>5, <2>6 DEF JobInv
<1> QED
  BY <1>2, <1>3

LEMMA DeliverKeeps ==
    ASSUME DInv, NEW t \in Task, NEW j \in Job, NEW a \in Answer, Deliver(t, j, a)
    PROVE  AgentTypes' /\ \A k \in Job : JobInv(k)'
<1>0. TypeOK /\ AgentTypes
  BY DEF DInv
<1>1. /\ UNCHANGED <<row, logs, shown, raced, rooms, inbox, working, copies,
                        extra, missed, lost>>
      /\ \/ UNCHANGED task /\ ~Accepts(j, a)
         \/ /\ Gathers(t)
            /\ a # "validated" => /\ AtWrite(t, j)'
                                  /\ task'[t].op = "result" /\ task'[t].out = a
  BY <1>0, DeliverGathers
<1>2. answers[j][a] > 0 /\ answers' = [answers EXCEPT ![j][a] = @ - 1]
  BY DEF Deliver
<1>3. \A k \in Job : /\ answers[k] \in [Answer -> Nat]
                     /\ k # j => answers'[k] = answers[k]
                     /\ \A b \in Answer \ {a} : answers'[k][b] = answers[k][b]
  BY <1>0, <1>2 DEF AgentTypes
<1>4. answers'[j][a] = answers[j][a] - 1 /\ answers[j][a] \in Nat /\ answers'[j][a] \in Nat
  BY <1>0, <1>2 DEF AgentTypes
<1>5. AgentTypes'
  BY <1>0, <1>1, <1>2, <1>4 DEF AgentTypes, rooms
<1>6. ASSUME NEW k \in Job PROVE JobInv(k)'
  <2>0. JobInv(k) /\ UNCHANGED <<status, raced, inbox, working, copies, extra, missed, lost>>
    BY <1>1 DEF DInv, row
  <2>1. /\ RowKept(k)' /\ OneWriter(k)' /\ WatcherKnows(k)' /\ WithinGrants(k)'
        /\ Sends(k)' = Sends(k) /\ (Noted(k, "failed")' <=> Noted(k, "failed"))
        /\ \A u \in Task : AtLog(u, k) \/ AtWrite(u, k) => task'[u] = task[u]
    <3>1. CASE Gathers(t)
      BY <1>1, <3>1, GatherKeeps
    <3>2. CASE UNCHANGED task
      BY <1>1, <2>0, <3>2, AgentFrame DEF JobInv, Sends, Noted, AtLog, AtWrite
    <3> QED
      BY <1>1, <3>1, <3>2
  <2>2. \A u \in Task : /\ AtLog(u, k) => AtLog(u, k)' /\ task'[u] = task[u]
                        /\ AtWrite(u, k) => AtWrite(u, k)' /\ task'[u] = task[u]
    BY <2>1 DEF AtLog, AtWrite
  <2>3. \A b \in {"validated", "printed", "failed"} :
           /\ answers[k][b] \in Nat /\ answers'[k][b] \in Nat
           /\ answers'[k][b] <= answers[k][b]
           /\ ~(k = j /\ b = a) => answers'[k][b] = answers[k][b]
    BY <1>3, <1>4 DEF Answer
  <2>4. /\ inbox[k] \in Nat /\ working[k] \in Nat /\ copies[k] \in Nat /\ Sends(k) \in Nat
        /\ extra[k] \in Nat
    BY <1>0, JobTypes
  <2>5. SendsCounted(k)'
    <3>1. /\ copies[k] + inbox[k] + working[k] + answers[k]["failed"] <= Sends(k) + extra[k]
          /\ answers[k]["validated"] + inbox[k] <= Sends(k) + extra[k]
          /\ answers[k]["printed"] <= copies[k]
          /\ extra[k] > 0 => Sends(k) > 0
      BY <2>0 DEF JobInv, SendsCounted
    <3>2. /\ copies[k] + inbox[k] + working[k] + answers'[k]["failed"] <= Sends(k) + extra[k]
          /\ answers'[k]["validated"] + inbox[k] <= Sends(k) + extra[k]
          /\ answers'[k]["printed"] <= copies[k]
      BY <2>3, <2>4, <3>1
    <3> QED
      BY <2>0, <2>1, <3>1, <3>2 DEF SendsCounted
  <2>6. PaperFollows(k)'
    <3>1. SUFFICES ASSUME k \notin lost \cup raced, ~Noted(k, "failed"), copies[k] > 0
                   PROVE  \/ status[k] = "printed"
                          \/ answers'[k]["printed"] > 0
                          \/ \E u \in Task : AtWrite(u, k)' /\ task'[u].op = "result"
                                                            /\ task'[u].out = "printed"
      BY <2>0, <2>1 DEF PaperFollows
    <3>2. \/ status[k] = "printed"
          \/ answers[k]["printed"] > 0
          \/ \E u \in Task : AtWrite(u, k) /\ task[u].op = "result" /\ task[u].out = "printed"
      BY <2>0, <3>1 DEF JobInv, PaperFollows
    <3>3. CASE ~(k = j /\ a = "printed")
      BY <2>2, <2>3, <3>2, <3>3
    <3>4. CASE k = j /\ a = "printed"
      <4>1. ~Accepts(j, a) => status[k] = "printed"
        <5>1. status[k] \in WrittenStatus /\ status[k] # "failed"
          BY <2>0, <3>1, PrintedWasSent DEF JobInv, RowKept
        <5> QED
          BY <3>4, <5>1 DEF Accepts, AllowedStatesForResult, WrittenStatus
      <4> QED
        BY <1>1, <3>4, <4>1
    <3> QED
      BY <3>3, <3>4
  <2>7. AnswerFollows(k)'
    <3>1. SUFFICES ASSUME k \notin missed \cup lost \cup raced, status[k] \in {"sent", "processing"}
                   PROVE  AnswerFollows(k)'
      BY <2>0 DEF AnswerFollows
    <3>2. CASE k = j /\ a # "validated"
      <4>1. Accepts(j, a)
        BY <3>1, <3>2 DEF Accepts, AllowedStatesForResult
      <4>2. AtWrite(t, k)' /\ task'[t].op = "result"
        BY <1>1, <3>2, <4>1
      <4> QED
        BY <4>2 DEF AnswerFollows
    <3>3. CASE ~(k = j /\ a # "validated")
      <4>1. answers'[k]["printed"] = answers[k]["printed"] /\ answers'[k]["failed"] = answers[k]["failed"]
        BY <2>3, <3>3
      <4> QED
        BY <2>0, <2>2, <4>1 DEF JobInv, AnswerFollows
    <3> QED
      BY <3>2, <3>3
  <2> QED
    BY <2>1, <2>5, <2>6, <2>7 DEF JobInv
<1> QED
  BY <1>5, <1>6

-----------------------------------------------------------------------------
(* The theorems.                                                           *)

LEMMA DInvInit == DInit => DInv
<1> SUFFICES ASSUME DInit PROVE DInv
  OBVIOUS
<1>1. TypeOK /\ Audited
  BY TypeInit, AuditedInit DEF DInit
<1>2. AgentTypes
  BY DEF DInit, AgentTypes
<1>3. ASSUME NEW k \in Job PROVE JobInv(k)
  <2>1. /\ status[k] = "absent" /\ attempts[k] = 0 /\ \A u \in Task : task[u].at = "idle"
        /\ Sends(k) = 0
    BY IdleType DEF DInit, Init, Sends, LogEvent
  <2>2. inbox[k] = 0 /\ working[k] = 0 /\ copies[k] = 0 /\ extra[k] = 0 /\ answers[k] = [a \in Answer |-> 0]
    BY DEF DInit
  <2>3. answers[k]["validated"] = 0 /\ answers[k]["printed"] = 0 /\ answers[k]["failed"] = 0
    BY <2>2 DEF Answer
  <2>4. RowKept(k) /\ OneWriter(k) /\ WatcherKnows(k)
    BY <2>1 DEF RowKept, OneWriter, WatcherKnows, AtLog, AtWrite, WrittenStatus
  <2>6. WithinGrants(k)
    <3>1. Granted(k) \in Nat
      BY <1>1, GrantsOf DEF TypeOK, LogEvent
    <3> QED
      BY <2>1, <3>1 DEF WithinGrants
  <2>5. SendsCounted(k) /\ PaperFollows(k) /\ AnswerFollows(k)
    BY <2>1, <2>2, <2>3 DEF SendsCounted, PaperFollows, AnswerFollows
  <2> QED
    BY <2>4, <2>5, <2>6 DEF JobInv
<1> QED
  BY <1>1, <1>2, <1>3 DEF DInv

LEMMA DInvStep == DInv /\ [DNext]_dvars => DInv'
<1> SUFFICES ASSUME DInv, [DNext]_dvars PROVE DInv'
  OBVIOUS
<1>1. [Next]_vars
  BY StepOfJobs
<1>2. TypeOK' /\ Audited'
  BY <1>1, TypeStep, AuditedStep DEF DInv
<1>3. ASSUME NEW t \in Task, Serve(t) PROVE AgentTypes' /\ \A k \in Job : JobInv(k)'
  BY <1>1, <1>3, WriteKeeps, RecordKeeps, CreateKeeps, ProceedKeeps DEF Serve
<1>4. ASSUME NEW t \in Task, NEW j \in Job, NEW a \in Answer, Deliver(t, j, a)
      PROVE  AgentTypes' /\ \A k \in Job : JobInv(k)'
  BY <1>4, DeliverKeeps
<1>5. ASSUME NEW a \in Agent, Move(a) PROVE AgentTypes' /\ \A k \in Job : JobInv(k)'
  BY <1>5, MoveKeeps
<1>6. ASSUME NEW j \in Job, Lose(j) PROVE AgentTypes' /\ \A k \in Job : JobInv(k)'
  BY <1>6, LoseKeeps
<1>7. ASSUME NEW j \in Job, Work(j) PROVE AgentTypes' /\ \A k \in Job : JobInv(k)'
  BY <1>7, WorkKeeps
<1>8. ASSUME UNCHANGED dvars PROVE AgentTypes' /\ \A k \in Job : JobInv(k)'
  <2>1. AgentTypes'
    BY <1>8 DEF DInv, AgentTypes, dvars, agent, rooms
  <2>2. ASSUME NEW k \in Job PROVE JobInv(k)'
    BY <1>8, OtherJob DEF DInv, dvars, vars, agent, rooms
  <2> QED
    BY <2>1, <2>2
<1> QED
  BY <1>2, <1>3, <1>4, <1>5, <1>6, <1>7, <1>8 DEF DInv, DNext

LEMMA DInvAlways == DSpec => []DInv
BY DInvInit, DInvStep, PTL DEF DSpec

\* However messages are lost and sockets come and go, there are never more
\* messages about a job and copies of it than payloads sent: one for each
\* dispatch and those to further members of its rooms (emitJobDispatch).
THEOREM DeliveryTypeCorrect == DSpec => []DeliveryTypeOK
<1>1. DInv => DeliveryTypeOK
  <2> SUFFICES ASSUME DInv PROVE DeliveryTypeOK
    OBVIOUS
  <2>1. ASSUME NEW j \in Job
        PROVE  /\ copies[j] + inbox[j] + working[j] \in 0..(attempts[j] + extra[j])
               /\ copies[j] + answers[j]["failed"] \in 0..(attempts[j] + extra[j])
               /\ answers[j]["validated"] + inbox[j] \in 0..(attempts[j] + extra[j])
               /\ answers[j]["printed"] \in 0..copies[j]
    <3>1. /\ inbox[j] \in Nat /\ working[j] \in Nat /\ copies[j] \in Nat
          /\ answers[j]["validated"] \in Nat /\ answers[j]["printed"] \in Nat
          /\ answers[j]["failed"] \in Nat /\ Sends(j) \in Nat /\ attempts[j] \in Nat
          /\ extra[j] \in Nat
      BY JobTypes DEF DInv
    <3>2. /\ copies[j] + inbox[j] + working[j] + answers[j]["failed"] <= Sends(j) + extra[j]
          /\ answers[j]["validated"] + inbox[j] <= Sends(j) + extra[j]
          /\ answers[j]["printed"] <= copies[j]
      BY DEF DInv, JobInv, SendsCounted
    <3> QED
      BY <3>1, <3>2, SendsBounded
  <2> QED
    BY <2>1 DEF DInv, AgentTypes, DeliveryTypeOK
<1> QED
  BY <1>1, DInvAlways, PTL

\* At rest nothing holds the job and nothing about it is on its way.
LEMMA NothingHolds ==
    ASSUME NEW k \in Job, \A t \in Task : task[t].job # k
    PROVE  \A t \in Task : ~AtLog(t, k) /\ ~AtWrite(t, k)
BY DEF AtLog, AtWrite

LEMMA NothingMoves ==
    ASSUME NEW k \in Job, AtRest(k)
    PROVE  /\ \A t \in Task : ~AtLog(t, k) /\ ~AtWrite(t, k)
           /\ inbox[k] = 0 /\ working[k] = 0
           /\ answers[k]["printed"] = 0 /\ answers[k]["failed"] = 0
BY NothingHolds DEF AtRest, Answer

\* Paper that came out ends in the record, whatever order the answer and the
\* timeout come in (handleResult, handleAckTimeout).
THEOREM PaperIsRecordedHolds == DSpec => []PaperIsRecorded
<1>1. DInv => PaperIsRecorded
  <2> SUFFICES ASSUME DInv, NEW j \in Job, copies[j] > 0, AtRest(j), j \notin lost \cup raced,
                      ~(logs[j]["failed"] > 0)
               PROVE  status[j] = "printed"
    BY DEF PaperIsRecorded
  <2>1. /\ \A t \in Task : ~AtLog(t, j) /\ ~AtWrite(t, j)
        /\ answers[j]["printed"] = 0
    BY NothingMoves
  <2>2. ~Noted(j, "failed")
    BY <2>1 DEF Noted, AtLog
  <2> QED
    BY <2>1, <2>2 DEF DInv, JobInv, PaperFollows
<1> QED
  BY <1>1, DInvAlways, PTL

\* As long as a job has not failed and no handlers raced, it comes out once,
\* once more for every retry a timeout granted, and once more for every payload
\* sent beyond the first of a dispatch.
LEMMA CopiesWithinGrants ==
    ASSUME DInv, NEW j \in Job, j \notin raced, ~Noted(j, "failed")
    PROVE  copies[j] <= 1 + Granted(j) + extra[j]
<1>1. /\ inbox[j] \in Nat /\ working[j] \in Nat /\ copies[j] \in Nat
      /\ answers[j]["failed"] \in Nat /\ Sends(j) \in Nat /\ attempts[j] \in Nat
      /\ extra[j] \in Nat
  BY JobTypes DEF DInv
<1>2. copies[j] + inbox[j] + working[j] + answers[j]["failed"] <= Sends(j) + extra[j]
  BY DEF DInv, JobInv, SendsCounted
<1>3. attempts[j] <= 1 + Granted(j) /\ Granted(j) \in Nat
  BY GrantsOf DEF DInv, JobInv, WithinGrants, TypeOK, LogEvent
<1> QED
  BY <1>1, <1>2, <1>3, SendsBounded

\* Every copy after the first has a timeout of its own behind it, or a second
\* member of the rooms its dispatch was sent to, or the job a failure or a
\* race: resubmission and reconnection alone never print it again (dispatch,
\* create, emitJobDispatch).
THEOREM ReprintsHaveAReasonHolds == DSpec => []ReprintsHaveAReason
<1>1. DInv => ReprintsHaveAReason
  <2> SUFFICES ASSUME DInv, NEW j \in Job, copies[j] > 1 + Granted(j) + extra[j], j \notin raced
               PROVE  Noted(j, "failed")
    BY DEF ReprintsHaveAReason, Noted, DInv, TypeOK, LogEvent
  <2>1. copies[j] \in Nat /\ Granted(j) \in Nat /\ extra[j] \in Nat
    BY JobTypes, GrantsOf DEF DInv, TypeOK, LogEvent
  <2> QED
    BY <2>1, CopiesWithinGrants
<1> QED
  BY <1>1, DInvAlways, PTL

\* Paper is bounded by the budget: a job that has not failed comes out at most
\* max_retries + 1 times, and once more for each payload sent beyond the first
\* of a dispatch, however often it is submitted, dispatched and timed out,
\* unless handlers raced over it (dispatch, handleAckTimeout, emitJobDispatch).
CopiesWithinBudget ==
    \A j \in Job : Exists(j) /\ copies[j] > 1 + budget[j] + extra[j] =>
        Noted(j, "failed") \/ j \in raced

THEOREM CopiesWithinBudgetHolds == DSpec => []CopiesWithinBudget
<1>1. DInv /\ RetryInv => CopiesWithinBudget
  <2> SUFFICES ASSUME DInv, RetryInv, NEW j \in Job, Exists(j),
                      ~Noted(j, "failed"), j \notin raced
               PROVE  ~(copies[j] > 1 + budget[j] + extra[j])
    BY DEF CopiesWithinBudget
  <2>1. Retried(j) + Cardinality(Deciders(j)) <= budget[j]
    BY DEF RetryInv, RetryInvAt, Exists, JobStatus
  <2>2. Cardinality(Granters(j)) <= Cardinality(Deciders(j))
    <3>1. Granters(j) \subseteq Deciders(j) /\ Deciders(j) \subseteq Task
      BY DEF Granters, InFlight, Deciders, Decider
    <3> QED
      BY <3>1, FiniteTasks, FS_Subset
  <2>3. /\ budget[j] \in Nat /\ Retried(j) \in Nat /\ copies[j] \in Nat /\ extra[j] \in Nat
        /\ Cardinality(Deciders(j)) \in Nat
    BY JobTypes, CountType DEF DInv, TypeOK, LogEvent, Retried
  <2>4. Granted(j) = Retried(j) + Cardinality(Granters(j)) /\ Cardinality(Granters(j)) \in Nat
    BY GrantsOf DEF Retried
  <2> QED
    BY <2>1, <2>2, <2>3, <2>4, CopiesWithinGrants
<1>2. Spec => []RetryInv
  BY RetryInit, RetryStep, TypeCorrect, PTL DEF Spec
<1> QED
  BY <1>1, <1>2, DInvAlways, RunsPrintJobs, PTL

\* Once no handler holds the job the watcher was last sent the status of its
\* row, unless handlers raced (emitJobUpdated).
THEOREM WatcherSeesLastHolds == DSpec => []WatcherSeesLast
<1>1. DInv => WatcherSeesLast
  BY NothingHolds DEF DInv, JobInv, WatcherKnows, WatcherSeesLast, Exists, JobStatus
<1> QED
  BY <1>1, DInvAlways, PTL

\* No job is left in 'processing' unless a message about it was lost or
\* handlers raced (handleAck, handleResult).
THEOREM ProcessingEndsHolds == DSpec => []ProcessingEnds
<1>1. DInv => ProcessingEnds
  BY NothingMoves DEF DInv, JobInv, AnswerFollows, ProcessingEnds
<1> QED
  BY <1>1, DInvAlways, PTL
=============================================================================
