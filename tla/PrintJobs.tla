------------------------------ MODULE PrintJobs ------------------------------
(***************************************************************************)
(* The print-job pipeline: the rows of print_jobs and print_job_logs, the  *)
(* acknowledgement timers of PrintJobsService, and the handlers that write *)
(* them (public submit, admin create / dispatch / patch / delete, the      *)
(* device's print.job.ack and print.job.result messages, the ACK timeout). *)
(*                                                                         *)
(* Node runs one callback at a time and a handler gives way at each await, *)
(* so a handler in flight is a task and each of its database calls is one  *)
(* step.  No handler opens a transaction.  A handler's arrival and its     *)
(* first read are one step: it does nothing visible before that read.      *)
(*                                                                         *)
(* One tenant: every tenant-mismatch branch returns without a write.       *)
(* Log rows that administrators add, edit or delete by hand through        *)
(* /print-job-logs are left out: logs holds the rows the handlers write.   *)
(***************************************************************************)
EXTENDS Integers, FiniteSets

CONSTANTS
    Job,          \* primary keys print_jobs may ever use (bound)
    Task,         \* slots for handlers in flight (bound)
    Request,      \* unique keys of a submission (requestId, externalId)
    Hash,         \* content hashes
    None,         \* absent key, job or outcome
    RetryBudget,  \* values of the max_retries column
    AdminStatus,  \* statuses operators write through POST and PATCH
    Faults,       \* subset of {"crash", "db"}: failures that may happen
    MaxAttempts   \* no dispatch of a row begins at this many attempts (bound)

JobStatus == {"queued", "routing", "sent", "processing",
              "printed", "failed", "retrying", "cancelled"}

\* The statuses that make a row with the same contentHash a duplicate.
IdempotentActiveStatuses == {"queued", "routing", "sent", "processing", "printed"}

LogEvent == {"sent_to_printer", "validated", "printed", "failed", "retried"}

\* The events whose number of log rows matters; for the others, whether there
\* is one.
Counted == {"sent_to_printer", "retried"}

ASSUME FiniteTasks == IsFiniteSet(Task)
ASSUME NoneIsNoKey == None \notin Job \cup Request \cup Hash \cup LogEvent
ASSUME BudgetsAreNat == RetryBudget \subseteq Nat
ASSUME AdminStatusOK == AdminStatus \subseteq JobStatus
ASSUME BoundIsNat == MaxAttempts \in Nat

VARIABLES
    status,     \* status[j]: the status column, or "absent" / "deleted"
    attempts,   \* attempts[j]: the attempts column
    budget,     \* budget[j]: the max_retries column
    assigned,   \* rows whose printerId is not null
    processed,  \* rows whose processedAt is not null
    requestOf,  \* requestOf[j]: the unique key of the row, or None
    hashOf,     \* hashOf[j]: its contentHash, or None
    logs,       \* logs[j][e]: print_job_logs rows of job j with event e
                \*   (counted for the Counted events, else 0 or 1 for some)
    timers,     \* timers[j]: pending setTimeout handles of scheduleAckTimeout
    task        \* task[t]: the handler in slot t and where it waits

row == <<status, attempts, budget, assigned, processed, requestOf, hashOf>>
vars == <<status, attempts, budget, assigned, processed, requestOf, hashOf,
          logs, timers, task>>

-----------------------------------------------------------------------------
(* Handlers in flight.                                                     *)

Op == {"none", "public", "admin", "dispatch", "ack", "result", "timeout"}

\* The await a handler is suspended at: one of create's lookups or its
\* insert, dispatch's read, the row update, the log insert.
Stage == {"idle", "request", "hash", "insert", "read", "write", "log"}

TaskState == [op : Op, at : Stage, job : Job \cup {None},
              out : LogEvent \cup {None},
              request : Request \cup {None}, hash : Hash \cup {None}]

Idle == [op |-> "none", at |-> "idle", job |-> None, out |-> None,
         request |-> None, hash |-> None]

\* A handler that has read row j and is about to write it; out is the log
\* event that its write will be recorded under.
Holding(op, at, j, out) ==
    [Idle EXCEPT !.op = op, !.at = at, !.job = j, !.out = out]

\* The log events a handler of kind op may end with.
OutcomesOf(op) == CASE op = "dispatch" -> {"sent_to_printer"}
                    [] op = "ack"      -> {"validated"}
                    [] op = "result"   -> {"printed", "failed"}
                    [] op = "timeout"  -> {"retried", "failed"}
                    [] OTHER           -> {}

IsIdle(t) == task[t].at = "idle"
Become(t, s) == task' = [task EXCEPT ![t] = s]
Goto(t, stage) == Become(t, [task[t] EXCEPT !.at = stage])
Done(t) == Become(t, Idle)

Exists(j) == status[j] \in JobStatus

\* Handlers of kind op suspended at one of the given stages over job j.
InFlight(op, stages, j) ==
    {t \in Task : task[t].op = op /\ task[t].at \in stages /\ task[t].job = j}

Waiting(t, op, stage) == task[t].op = op /\ task[t].at = stage

-----------------------------------------------------------------------------
Init ==
    /\ status = [j \in Job |-> "absent"]
    /\ attempts = [j \in Job |-> 0]
    /\ budget = [j \in Job |-> 0]
    /\ assigned = {}
    /\ processed = {}
    /\ requestOf = [j \in Job |-> None]
    /\ hashOf = [j \in Job |-> None]
    /\ logs = [j \in Job |-> [e \in LogEvent |-> 0]]
    /\ timers = [j \in Job |-> 0]
    /\ task = [t \in Task |-> Idle]

-----------------------------------------------------------------------------
(* Submission: submitPrint and POST /print-jobs both run create().          *)

\* Bounds: a free primary key for each submission in flight, and no row at
\* its last attempt (a duplicate is dispatched again).
SubmissionFits ==
    /\ Cardinality({j \in Job : status[j] = "absent"})
         > Cardinality({t \in Task : task[t].op \in {"public", "admin"}})
    /\ \A j \in Job : attempts[j] < MaxAttempts

\* create() with the keys the caller gave; the first lookup is the first key
\* that is present.
Submit(t, op, r, h) ==
    /\ IsIdle(t)
    /\ SubmissionFits
    /\ Become(t, [Idle EXCEPT !.op = op, !.request = r, !.hash = h,
                     !.at = IF r # None THEN "request"
                            ELSE IF h # None THEN "hash" ELSE "insert"])
    /\ UNCHANGED <<row, logs, timers>>

\* Variant of AnswerWith: the id of the submission, not of the duplicate, is
\* dispatched, and a submission has none.
AnswerWithoutId(t, j) ==
    IF task[t].op = "public" THEN Become(t, Holding("dispatch", "read", None, None))
                             ELSE Done(t)

\* create() returns the duplicate; submitPrint goes on to dispatch it.
AnswerWith(t, j) ==
    IF task[t].op = "public" THEN Become(t, Holding("dispatch", "read", j, None))
                             ELSE Done(t)

\* Where create() goes on when no row has the request key.
AfterRequest(h) == IF h # None THEN "hash" ELSE "insert"

FindByRequest(t) ==
    /\ task[t].at = "request"
    /\ LET found == {j \in Job : Exists(j) /\ requestOf[j] = task[t].request}
       IN  \/ \E j \in found : AnswerWith(t, j)
           \/ /\ found = {}
              /\ Goto(t, AfterRequest(task[t].hash))
    /\ UNCHANGED <<row, logs, timers>>

FindByHash(t) ==
    /\ task[t].at = "hash"
    /\ LET found == {j \in Job : /\ status[j] \in IdempotentActiveStatuses
                                 /\ hashOf[j] = task[t].hash}
       IN  \/ \E j \in found : AnswerWith(t, j)
           \/ found = {} /\ Goto(t, "insert")
    /\ UNCHANGED <<row, logs, timers>>

\* Variant: no unique index on the request key.
NeverTaken(r) == FALSE

\* uq_print_jobs_tenant_request_id already holds the key r.
Taken(r) == r # None /\ \E k \in Job : Exists(k) /\ requestOf[k] = r

\* The insert of create().  The public API always has a printer and leaves
\* the status to the column's default; the admin API may give either.
Insert(t, j, s, withPrinter, b) ==
    /\ task[t].at = "insert"
    /\ status[j] = "absent"
    /\ task[t].op = "public" => s = "queued" /\ withPrinter
    /\ ~Taken(task[t].request)
    /\ status' = [status EXCEPT ![j] = s]
    /\ budget' = [budget EXCEPT ![j] = b]
    /\ assigned' = IF withPrinter THEN assigned \cup {j} ELSE assigned
    /\ requestOf' = [requestOf EXCEPT ![j] = task[t].request]
    /\ hashOf' = [hashOf EXCEPT ![j] = task[t].hash]
    /\ AnswerWith(t, j)
    /\ UNCHANGED <<attempts, processed, logs, timers>>

\* The unique index rejects the insert that lost the race.
InsertRejected(t) ==
    /\ task[t].at = "insert"
    /\ Taken(task[t].request)
    /\ Done(t)
    /\ UNCHANGED <<row, logs, timers>>

-----------------------------------------------------------------------------
(* Dispatch.                                                               *)

\* Variant: a printed job may be sent again; a result after a timeout is refused.
BeingSent == {"sent", "processing"}

\* The statuses on which dispatch returns the row as it is.
SentOrDone == {"sent", "processing", "printed"}

Dispatchable(j) ==
    /\ Exists(j)
    /\ status[j] \notin SentOrDone
    /\ j \in assigned

\* POST /print-jobs/:id/dispatch, up to the end of its read.
AdminDispatch(t, j) ==
    /\ IsIdle(t)
    /\ Dispatchable(j)
    /\ attempts[j] < MaxAttempts
    /\ Become(t, Holding("dispatch", "write", j, "sent_to_printer"))
    /\ UNCHANGED <<row, logs, timers>>

\* The same read when submitPrint calls dispatch; it returns the row as it
\* is, or throws, when there is nothing to send.
DispatchRead(t) ==
    /\ Waiting(t, "dispatch", "read")
    /\ IF Dispatchable(task[t].job)
       THEN Become(t, Holding("dispatch", "write", task[t].job, "sent_to_printer"))
       ELSE Done(t)
    /\ UNCHANGED <<row, logs, timers>>

DispatchWrite(t) ==
    LET j == task[t].job IN
    /\ Waiting(t, "dispatch", "write")
    /\ Exists(j)
    /\ status' = [status EXCEPT ![j] = "sent"]
    /\ attempts' = [attempts EXCEPT ![j] = @ + 1]
    /\ Goto(t, "log")
    /\ UNCHANGED <<budget, assigned, processed, requestOf, hashOf, logs, timers>>

\* Variant: one log row per job and event, inserted if missing.
RecordOnce(t) == logs' = [logs EXCEPT ![task[t].job][task[t].out] = 1]

\* Variant: successes are not recorded.
RecordUnlessPrinted(t) ==
    logs' = [logs EXCEPT ![task[t].job][task[t].out] =
                 IF task[t].out = "printed" THEN @ ELSE @ + 1]

\* One more row of print_job_logs.
Record(t) ==
    logs' = [logs EXCEPT ![task[t].job][task[t].out] =
                 IF task[t].out \in Counted THEN @ + 1 ELSE 1]

\* Variant: the timeout is never scheduled.
ScheduleNothing(j) == UNCHANGED timers

ScheduleAckTimeout(j) == timers' = [timers EXCEPT ![j] = @ + 1]

\* The log row, then emitJobDispatch and scheduleAckTimeout with no await
\* between them.
DispatchLog(t) ==
    LET j == task[t].job IN
    /\ Waiting(t, "dispatch", "log")
    /\ Exists(j)
    /\ Record(t)
    /\ ScheduleAckTimeout(j)
    /\ Done(t)
    /\ UNCHANGED row

-----------------------------------------------------------------------------
(* The device's messages.  Any client of the tenant may send either for    *)
(* any job at any time; the server reads the row and decides.              *)

Ack(t, j) ==
    /\ IsIdle(t)
    /\ status[j] = "sent"
    /\ Become(t, Holding("ack", "write", j, "validated"))
    /\ UNCHANGED <<row, logs, timers>>

\* The update does not repeat the check made on the row that was read.
AckWrite(t) ==
    LET j == task[t].job IN
    /\ Waiting(t, "ack", "write")
    /\ Exists(j)
    /\ status' = [status EXCEPT ![j] = "processing"]
    /\ Goto(t, "log")
    /\ UNCHANGED <<attempts, budget, assigned, processed, requestOf, hashOf,
                   logs, timers>>

\* Variant: a second answer is accepted.
AllowedOnceMore == {"sent", "processing", "retrying", "printed"}

\* Variant: a result after the acknowledgement is refused.
AllowedUnlessAcknowledged == {"sent", "retrying"}

AllowedStatesForResult == {"sent", "processing", "retrying"}

\* out is "printed" for success and warning, "failed" for error.
Result(t, j, out) ==
    /\ IsIdle(t)
    /\ status[j] \in AllowedStatesForResult
    /\ Become(t, Holding("result", "write", j, out))
    /\ UNCHANGED <<row, logs, timers>>

ResultWrite(t) ==
    LET j == task[t].job IN
    /\ Waiting(t, "result", "write")
    /\ Exists(j)
    /\ status' = [status EXCEPT ![j] = task[t].out]
    /\ processed' = processed \cup {j}
    /\ Goto(t, "log")
    /\ UNCHANGED <<attempts, budget, assigned, requestOf, hashOf, logs, timers>>

-----------------------------------------------------------------------------
(* The ACK timeout.  A timer is never cancelled and carries only the job's *)
(* id, so a timer of an earlier attempt acts on the row as it finds it.    *)

\* Variant of CanRetry: off by one.
CanRetryOnceMore(j) == attempts[j] <= budget[j] + 1

CanRetry(j) == attempts[j] <= budget[j]

\* Variant: any job that has not failed times out.
UnlessFailed(j) == Exists(j) /\ status[j] # "failed"

Unanswered(j) == status[j] = "sent"

TimerFires(t, j) ==
    /\ IsIdle(t)
    /\ timers[j] > 0
    /\ timers' = [timers EXCEPT ![j] = @ - 1]
    /\ IF Unanswered(j)
       THEN Become(t, Holding("timeout", "write", j,
                              IF CanRetry(j) THEN "retried" ELSE "failed"))
       ELSE UNCHANGED task
    /\ UNCHANGED <<row, logs>>

\* Variant: a retry leaves the job sent.
NextStatusResent(retry) == IF retry THEN "sent" ELSE "failed"

NextStatus(retry) == IF retry THEN "retrying" ELSE "failed"

\* Variant: a retry closes the job as well.
ClosedAnyway(retry, j) == processed \cup {j}

\* processedAt after a timeout: a retry leaves it as it is.
Closed(retry, j) == IF retry THEN processed ELSE processed \cup {j}

TimeoutWrite(t) ==
    LET j == task[t].job
        retry == task[t].out = "retried"
    IN
    /\ Waiting(t, "timeout", "write")
    /\ Exists(j)
    /\ status' = [status EXCEPT ![j] = NextStatus(retry)]
    /\ processed' = Closed(retry, j)
    /\ Goto(t, "log")
    /\ UNCHANGED <<attempts, budget, assigned, requestOf, hashOf, logs, timers>>

\* The last await of ack, result and timeout: the log row, then the emits.
HandlerLog(t) ==
    /\ task[t].op \in {"ack", "result", "timeout"}
    /\ task[t].at = "log"
    /\ Exists(task[t].job)
    /\ Record(t)
    /\ Done(t)
    /\ UNCHANGED <<row, timers>>

\* The row was deleted under the handler: the update finds no record, the
\* log insert violates its foreign key, and the handler ends with an error.
RowMissing(t) ==
    /\ task[t].at \in {"write", "log"}
    /\ ~Exists(task[t].job)
    /\ Done(t)
    /\ UNCHANGED <<row, logs, timers>>

-----------------------------------------------------------------------------
(* Operators.                                                              *)

\* PATCH /print-jobs/:id: any status, printer and keys, with no check but the
\* unique index's.  (Deleting a device also sets printerId to null.)
PatchJob(j, s, withPrinter, r, h) ==
    /\ Exists(j)
    /\ r = requestOf[j] \/ ~Taken(r)
    /\ status' = [status EXCEPT ![j] = s]
    /\ assigned' = IF withPrinter THEN assigned \cup {j} ELSE assigned \ {j}
    /\ requestOf' = [requestOf EXCEPT ![j] = r]
    /\ hashOf' = [hashOf EXCEPT ![j] = h]
    /\ UNCHANGED <<attempts, budget, processed, logs, timers, task>>

\* Any PATCH of row j.
Patched(j) ==
    \E s \in AdminStatus \cup {status[j]}, p \in BOOLEAN,
      r \in Request \cup {None}, h \in Hash \cup {None} : PatchJob(j, s, p, r, h)

\* DELETE /print-jobs/:id: the log rows cascade, the timers stay.
RemoveJob(j) ==
    /\ Exists(j)
    /\ status' = [status EXCEPT ![j] = "deleted"]
    /\ attempts' = [attempts EXCEPT ![j] = 0]
    /\ budget' = [budget EXCEPT ![j] = 0]
    /\ assigned' = assigned \ {j}
    /\ processed' = processed \ {j}
    /\ requestOf' = [requestOf EXCEPT ![j] = None]
    /\ hashOf' = [hashOf EXCEPT ![j] = None]
    /\ logs' = [logs EXCEPT ![j] = [e \in LogEvent |-> 0]]
    /\ UNCHANGED <<timers, task>>

\* getMonitor: the jobs it may report as stuck once they are old enough.
\* (Sending a job again does not clear its processedAt.)
StaleInFlight == {j \in Job : status[j] \in {"sent", "processing"}} \ processed

-----------------------------------------------------------------------------
(* Failures.                                                               *)

\* The process stops: handlers and timers live in memory, rows do not.
Crash ==
    /\ "crash" \in Faults
    /\ task' = [t \in Task |-> Idle]
    /\ timers' = [j \in Job |-> 0]
    /\ UNCHANGED <<row, logs>>

\* A database call rejects: the handler ends where it is (the timeout
\* handler catches the error and only logs it).
DbError(t) ==
    /\ "db" \in Faults
    /\ ~IsIdle(t)
    /\ Done(t)
    /\ UNCHANGED <<row, logs, timers>>

\* The same for the first read of the timeout handler: the timer is spent.
TimerLost(j) ==
    /\ "db" \in Faults
    /\ timers[j] > 0
    /\ timers' = [timers EXCEPT ![j] = @ - 1]
    /\ UNCHANGED <<row, logs, task>>

-----------------------------------------------------------------------------
\* What a handler in flight does next once its await resolves.
Resume(t) ==
    \/ FindByRequest(t)
    \/ FindByHash(t)
    \/ \E j \in Job, s \in AdminStatus \cup {"queued"}, p \in BOOLEAN, b \in RetryBudget :
          Insert(t, j, s, p, b)
    \/ InsertRejected(t)
    \/ DispatchRead(t)
    \/ DispatchWrite(t)
    \/ DispatchLog(t)
    \/ AckWrite(t)
    \/ ResultWrite(t)
    \/ TimeoutWrite(t)
    \/ HandlerLog(t)
    \/ RowMissing(t)

Arrive(t) ==
    \/ \E op \in {"public", "admin"}, r \in Request \cup {None}, h \in Hash \cup {None} :
          Submit(t, op, r, h)
    \/ \E j \in Job : AdminDispatch(t, j)
    \/ \E j \in Job : Ack(t, j)
    \/ \E j \in Job, out \in {"printed", "failed"} : Result(t, j, out)

Operate ==
    \E j \in Job : Patched(j) \/ RemoveJob(j)

Fail ==
    \/ Crash
    \/ \E t \in Task : DbError(t)
    \/ \E j \in Job : TimerLost(j)

Next ==
    \/ \E t \in Task : Resume(t) \/ Arrive(t)
    \/ \E t \in Task, j \in Job : TimerFires(t, j)
    \/ Operate
    \/ Fail

\* An await resolves, so a handler in flight goes on.  setTimeout fires; the
\* slot it needs may be taken again and again (slots are a bound of the
\* model, not of the code), hence strong fairness.
Fairness ==
    /\ \A t \in Task : WF_vars(Resume(t))
    /\ \A j \in Job : SF_vars(\E t \in Task : TimerFires(t, j))

Spec == Init /\ [][Next]_vars
FairSpec == Spec /\ Fairness

-----------------------------------------------------------------------------
(* Properties.                                                             *)

\* Every variable has its type; a handler past its first read has a job and
\* an outcome of its own kind.
TypeOK ==
    /\ status \in [Job -> JobStatus \cup {"absent", "deleted"}]
    /\ attempts \in [Job -> Nat]
    /\ budget \in [Job -> Nat]
    /\ assigned \subseteq Job
    /\ processed \subseteq Job
    /\ requestOf \in [Job -> Request \cup {None}]
    /\ hashOf \in [Job -> Hash \cup {None}]
    /\ logs \in [Job -> [LogEvent -> Nat]]
    /\ timers \in [Job -> Nat]
    /\ task \in [Task -> TaskState]
    /\ \A t \in Task :
          task[t].at \in {"read", "write", "log"} => task[t].job \in Job
    /\ \A t \in Task :
          task[t].at \in {"write", "log"} => task[t].out \in OutcomesOf(task[t].op)

\* While nothing fails and no operator writes "sent" by hand, a job that is
\* waiting for its acknowledgement is always watched: a timer is pending, or
\* the dispatch that sent it has yet to arm one, or a timeout has read it and
\* will write it.  (dispatch arms the timer two awaits after its update.)
SentIsWatched ==
    (Faults = {} /\ "sent" \notin AdminStatus) =>
        \A j \in Job : status[j] = "sent" =>
            \/ timers[j] > 0
            \/ InFlight("dispatch", {"log"}, j) # {}
            \/ InFlight("timeout", {"write"}, j) # {}

\* Timeouts grant a job no more retries than max_retries, however many
\* timers of earlier attempts are still pending when a later one is sent.
RetriesWithinBudget ==
    \A j \in Job : Exists(j) => logs[j]["retried"] <= budget[j]

\* While nothing fails, attempts counts exactly the sent_to_printer entries
\* written, plus the dispatches between their update and their log row.
DispatchesAudited ==
    Faults = {} => \A j \in Job : Exists(j) =>
        attempts[j] = logs[j]["sent_to_printer"]
                        + Cardinality(InFlight("dispatch", {"log"}, j))

\* The event that explains a status the pipeline itself writes.
Explains(s) ==
    CASE s = "sent"       -> "sent_to_printer"
      [] s = "processing" -> "validated"
      [] s = "printed"    -> "printed"
      [] s = "failed"     -> "failed"
      [] s = "retrying"   -> "retried"

\* While nothing fails, a status no operator writes by hand is explained by
\* the audit trail: its log row is there or its handler is about to write it.
StatusExplained ==
    Faults = {} => \A j \in Job :
        status[j] \in {"sent", "processing", "printed", "failed", "retrying"} \ AdminStatus =>
            \/ logs[j][Explains(status[j])] > 0
            \/ \E t \in Task : /\ task[t].at = "log"
                               /\ task[t].job = j
                               /\ task[t].out = Explains(status[j])

\* An answer of job j is recorded, or about to be.
Answered(j) ==
    \/ logs[j]["printed"] > 0 \/ logs[j]["failed"] > 0
    \/ \E t \in Task : /\ task[t].at = "log"
                       /\ task[t].job = j
                       /\ task[t].out \in {"printed", "failed"}

\* While nothing fails, the monitor overlooks a job in flight only if the job
\* was answered or given up before: its processedAt is then still set.
StuckIsMonitored ==
    Faults = {} => \A j \in Job :
        status[j] \in {"sent", "processing"} => j \in StaleInFlight \/ Answered(j)

\* However submissions of one request interleave, at most one live row carries
\* its key: the loser of the race between lookup and insert is rejected.
UniqueRequest ==
    \A j, k \in Job :
        Exists(j) /\ Exists(k) /\ requestOf[j] = requestOf[k] /\ requestOf[j] # None
            => j = k

\* Printed, and no handler holds an older reading of the row.
SettledPrinted(j) ==
    /\ status[j] = "printed"
    /\ \A t \in Task : ~(task[t].at = "write" /\ task[t].job = j)

\* Once a job is printed and no older reading is in flight, no resubmission,
\* dispatch, message, timer or failure moves it: only PATCH and DELETE do.
PrintedIsFinal ==
    [][\A j \in Job : SettledPrinted(j) =>
          SettledPrinted(j)' \/ Patched(j) \/ RemoveJob(j)]_vars

\* The acknowledgement timeout moves every job that stays unacknowledged
\* (docs/ficha-tecnica/08-pruebas-checklist.md, D.3).
AckTimeoutMovesJob ==
    \A j \in Job : status[j] = "sent" ~> status[j] # "sent"

\* The pipeline as its contract sees it.
Phase(j) == CASE status[j] = "absent"  -> "none"
              [] status[j] = "deleted" -> "gone"
              [] status[j] = "sent"    -> "awaiting"
              [] OTHER                 -> "open"

Contract == INSTANCE PrintContract WITH
    Budget <- RetryBudget,
    phase <- [j \in Job |-> Phase(j)],
    sends <- attempts,
    retries <- [j \in Job |-> logs[j]["retried"]],
    allowance <- budget

\* The pipeline implements its contract, the promise that an unanswered job
\* is settled included.
ContractSpec == Contract!Spec
=============================================================================
