--------------------------- MODULE PrintJobsProofs ---------------------------
(***************************************************************************)
(* Theorems about PrintJobs, for every set of rows, handler slots, keys,   *)
(* retry budgets, operator statuses and faults: types, keys, what is final *)
(* and what is watched; the retry budget; the audit trail; the contract.   *)
(***************************************************************************)
EXTENDS PrintJobs, FiniteSetTheorems, TLAPS

-----------------------------------------------------------------------------
(* Types.                                                                  *)

\* A handler that holds a row is a well-typed task.
LEMMA HoldingType ==
    ASSUME NEW op \in Op, NEW at \in {"read", "write", "log"}, NEW j \in Job,
           NEW out \in LogEvent \cup {None}
    PROVE  /\ Holding(op, at, j, out) \in TaskState
           /\ Holding(op, at, j, out).op = op
           /\ Holding(op, at, j, out).at = at
           /\ Holding(op, at, j, out).job = j
           /\ Holding(op, at, j, out).out = out
BY DEF Holding, Idle, TaskState, Stage

LEMMA IdleType == Idle \in TaskState /\ Idle.at = "idle" /\ Idle.op = "none"
BY DEF Idle, TaskState, Op, Stage

\* The part of TypeOK about the handlers in flight.
TaskTypeOK ==
    /\ task \in [Task -> TaskState]
    /\ \A t \in Task :
          task[t].at \in {"read", "write", "log"} => task[t].job \in Job
    /\ \A t \in Task :
          task[t].at \in {"write", "log"} => task[t].out \in OutcomesOf(task[t].op)

LEMMA OutcomeType == \A op \in Op : OutcomesOf(op) \subseteq LogEvent
BY DEF Op, OutcomesOf, LogEvent

\* A slot may take any well-typed handler.
LEMMA BecomeType ==
    ASSUME TaskTypeOK, NEW t \in Task, NEW s \in TaskState, Become(t, s),
           s.at \in {"read", "write", "log"} => s.job \in Job,
           s.at \in {"write", "log"} => s.out \in OutcomesOf(s.op)
    PROVE  TaskTypeOK'
BY DEF TaskTypeOK, Become

LEMMA DoneType ==
    ASSUME TaskTypeOK, NEW t \in Task, Done(t)
    PROVE  TaskTypeOK'
BY IdleType, BecomeType DEF Done

LEMMA HoldType ==
    ASSUME TaskTypeOK, NEW t \in Task, NEW j \in Job, NEW op \in Op,
           NEW at \in {"write", "log"}, NEW out \in OutcomesOf(op),
           Become(t, Holding(op, at, j, out))
    PROVE  TaskTypeOK'
BY HoldingType, OutcomeType, BecomeType

\* From its row update a handler goes on to its log row.
LEMMA GotoLogType ==
    ASSUME TaskTypeOK, NEW t \in Task, task[t].at = "write", Goto(t, "log")
    PROVE  TaskTypeOK'
<1> DEFINE s == [task[t] EXCEPT !.at = "log"]
<1>1. task[t] \in TaskState
  BY DEF TaskTypeOK
<1>2. s \in TaskState /\ s.job = task[t].job /\ s.out = task[t].out /\ s.op = task[t].op
  BY <1>1 DEF TaskState, Stage
<1>3. task[t].job \in Job /\ task[t].out \in OutcomesOf(task[t].op)
  BY DEF TaskTypeOK
<1> QED
  BY <1>2, <1>3, BecomeType DEF Goto

\* From a lookup a submission goes on to another lookup or its insert.
LEMMA GotoLookupType ==
    ASSUME TaskTypeOK, NEW t \in Task, NEW at \in {"hash", "insert"}, Goto(t, at)
    PROVE  TaskTypeOK'
<1> DEFINE s == [task[t] EXCEPT !.at = at]
<1>1. s \in TaskState /\ s.at = at
  BY DEF TaskTypeOK, TaskState, Stage
<1> QED
  BY <1>1, BecomeType DEF Goto

LEMMA AnswerType ==
    ASSUME TaskTypeOK, NEW t \in Task, NEW j \in Job, AnswerWith(t, j)
    PROVE  TaskTypeOK'
<1>1. CASE Done(t)
  BY <1>1, DoneType
<1>2. CASE Become(t, Holding("dispatch", "read", j, None))
  <2> DEFINE s == Holding("dispatch", "read", j, None)
  <2>1. s \in TaskState /\ s.at = "read" /\ s.job = j
    BY HoldingType DEF Op
  <2> QED
    BY <1>2, <2>1, BecomeType
<1> QED
  BY <1>1, <1>2 DEF AnswerWith

\* The part of TypeOK about the rows, their logs and the timers.
RowTypeOK ==
    /\ status \in [Job -> JobStatus \cup {"absent", "deleted"}]
    /\ attempts \in [Job -> Nat]
    /\ budget \in [Job -> Nat]
    /\ assigned \subseteq Job
    /\ processed \subseteq Job
    /\ requestOf \in [Job -> Request \cup {None}]
    /\ hashOf \in [Job -> Hash \cup {None}]
    /\ logs \in [Job -> [LogEvent -> Nat]]
    /\ timers \in [Job -> Nat]

LEMMA TypeParts == TypeOK <=> RowTypeOK /\ TaskTypeOK
BY DEF TypeOK, RowTypeOK, TaskTypeOK

LEMMA RecordType ==
    ASSUME TypeOK, NEW t \in Task, task[t].at = "log", Record(t)
    PROVE  logs' \in [Job -> [LogEvent -> Nat]]
<1>1. task[t].job \in Job /\ task[t].out \in LogEvent
  BY OutcomeType DEF TypeOK, TaskState
<1>2. logs \in [Job -> [LogEvent -> Nat]]
  BY DEF TypeOK
<1> QED
  BY <1>1, <1>2 DEF Record

LEMMA TypeInit == Init => TypeOK
BY IdleType DEF Init, TypeOK

LEMMA TypeStep == TypeOK /\ [Next]_vars => TypeOK'
<1> SUFFICES ASSUME TypeOK, [Next]_vars
             PROVE  RowTypeOK' /\ TaskTypeOK'
  BY TypeParts DEF TypeOK, RowTypeOK, TaskTypeOK
<1> RowTypeOK /\ TaskTypeOK
  BY TypeParts
<1>1. ASSUME NEW t \in Task, NEW op \in {"public", "admin"},
             NEW r \in Request \cup {None}, NEW h \in Hash \cup {None}, Submit(t, op, r, h)
      PROVE  RowTypeOK' /\ TaskTypeOK'
  <2> DEFINE s == [Idle EXCEPT !.op = op, !.request = r, !.hash = h,
                     !.at = IF r # None THEN "request"
                            ELSE IF h # None THEN "hash" ELSE "insert"]
  <2>1. s \in TaskState /\ s.at \notin {"read", "write", "log"}
    BY DEF Idle, TaskState, Op, Stage
  <2>2. TaskTypeOK'
    BY <1>1, <2>1, BecomeType DEF Submit
  <2> QED
    BY <1>1, <2>2 DEF Submit, RowTypeOK, row
<1>2. ASSUME NEW t \in Task, FindByRequest(t)
      PROVE  RowTypeOK' /\ TaskTypeOK'
  <2>1. TaskTypeOK'
    BY <1>2, AnswerType, GotoLookupType DEF FindByRequest, AfterRequest
  <2> QED
    BY <1>2, <2>1 DEF FindByRequest, RowTypeOK, row
<1>3. ASSUME NEW t \in Task, FindByHash(t)
      PROVE  RowTypeOK' /\ TaskTypeOK'
  <2>1. TaskTypeOK'
    BY <1>3, AnswerType, GotoLookupType DEF FindByHash
  <2> QED
    BY <1>3, <2>1 DEF FindByHash, RowTypeOK, row
<1>4. ASSUME NEW t \in Task, NEW j \in Job, NEW s \in AdminStatus \cup {"queued"},
             NEW p \in BOOLEAN, NEW b \in RetryBudget, Insert(t, j, s, p, b)
      PROVE  RowTypeOK' /\ TaskTypeOK'
  <2>1. TaskTypeOK'
    BY <1>4, AnswerType DEF Insert
  <2>2. task[t].request \in Request \cup {None} /\ task[t].hash \in Hash \cup {None}
    BY DEF TaskTypeOK, TaskState
  <2> QED
    BY <1>4, <2>1, <2>2, AdminStatusOK, BudgetsAreNat DEF Insert, RowTypeOK, JobStatus
<1>5. ASSUME NEW t \in Task, InsertRejected(t)
      PROVE  RowTypeOK' /\ TaskTypeOK'
  BY <1>5, DoneType DEF InsertRejected, RowTypeOK, row
<1>6. ASSUME NEW t \in Task, NEW j \in Job, AdminDispatch(t, j)
      PROVE  RowTypeOK' /\ TaskTypeOK'
  <2>1. TaskTypeOK'
    BY <1>6, HoldType DEF AdminDispatch, Op, OutcomesOf
  <2> QED
    BY <1>6, <2>1 DEF AdminDispatch, RowTypeOK, row
<1>7. ASSUME NEW t \in Task, DispatchRead(t)
      PROVE  RowTypeOK' /\ TaskTypeOK'
  <2>1. task[t].job \in Job
    BY <1>7 DEF DispatchRead, Waiting, TaskTypeOK
  <2>2. TaskTypeOK'
    BY <1>7, <2>1, HoldType, DoneType DEF DispatchRead, Op, OutcomesOf
  <2> QED
    BY <1>7, <2>2 DEF DispatchRead, RowTypeOK, row
<1>8. ASSUME NEW t \in Task, DispatchWrite(t)
      PROVE  RowTypeOK' /\ TaskTypeOK'
  <2>1. TaskTypeOK'
    BY <1>8, GotoLogType DEF DispatchWrite, Waiting
  <2>2. task[t].job \in Job
    BY <1>8 DEF DispatchWrite, Waiting, TaskTypeOK
  <2> QED
    BY <1>8, <2>1, <2>2 DEF DispatchWrite, RowTypeOK, JobStatus
<1>9. ASSUME NEW t \in Task, DispatchLog(t)
      PROVE  RowTypeOK' /\ TaskTypeOK'
  <2>1. TaskTypeOK'
    BY <1>9, DoneType DEF DispatchLog
  <2>2. logs' \in [Job -> [LogEvent -> Nat]]
    BY <1>9, RecordType DEF DispatchLog, Waiting
  <2>3. task[t].job \in Job
    BY <1>9 DEF DispatchLog, Waiting, TaskTypeOK
  <2>4. timers' \in [Job -> Nat]
    BY <1>9, <2>3 DEF DispatchLog, ScheduleAckTimeout, RowTypeOK
  <2> QED
    BY <1>9, <2>1, <2>2, <2>4 DEF DispatchLog, RowTypeOK, row
<1>10. ASSUME NEW t \in Task, NEW j \in Job, Ack(t, j)
       PROVE  RowTypeOK' /\ TaskTypeOK'
  <2>1. TaskTypeOK'
    BY <1>10, HoldType DEF Ack, Op, OutcomesOf
  <2> QED
    BY <1>10, <2>1 DEF Ack, RowTypeOK, row
<1>11. ASSUME NEW t \in Task, AckWrite(t)
       PROVE  RowTypeOK' /\ TaskTypeOK'
  <2>1. TaskTypeOK'
    BY <1>11, GotoLogType DEF AckWrite, Waiting
  <2> QED
    BY <1>11, <2>1 DEF AckWrite, RowTypeOK, JobStatus
<1>12. ASSUME NEW t \in Task, NEW j \in Job, NEW out \in {"printed", "failed"}, Result(t, j, out)
       PROVE  RowTypeOK' /\ TaskTypeOK'
  <2>1. TaskTypeOK'
    BY <1>12, HoldType DEF Result, Op, OutcomesOf
  <2> QED
    BY <1>12, <2>1 DEF Result, RowTypeOK, row
<1>13. ASSUME NEW t \in Task, ResultWrite(t)
       PROVE  RowTypeOK' /\ TaskTypeOK'
  <2>1. TaskTypeOK'
    BY <1>13, GotoLogType DEF ResultWrite, Waiting
  <2>2. task[t].job \in Job /\ task[t].out \in {"printed", "failed"}
    BY <1>13 DEF ResultWrite, Waiting, TaskTypeOK, OutcomesOf
  <2> QED
    BY <1>13, <2>1, <2>2 DEF ResultWrite, RowTypeOK, JobStatus
<1>14. ASSUME NEW t \in Task, NEW j \in Job, TimerFires(t, j)
       PROVE  RowTypeOK' /\ TaskTypeOK'
  <2>1. TaskTypeOK'
    BY <1>14, HoldType DEF TimerFires, Op, OutcomesOf, TaskTypeOK
  <2> QED
    BY <1>14, <2>1 DEF TimerFires, RowTypeOK, row
<1>15. ASSUME NEW t \in Task, TimeoutWrite(t)
       PROVE  RowTypeOK' /\ TaskTypeOK'
  <2>1. TaskTypeOK'
    BY <1>15, GotoLogType DEF TimeoutWrite, Waiting
  <2>2. task[t].job \in Job
    BY <1>15 DEF TimeoutWrite, Closed, Waiting, TaskTypeOK
  <2> QED
    BY <1>15, <2>1, <2>2 DEF TimeoutWrite, Closed, NextStatus, RowTypeOK, JobStatus
<1>16. ASSUME NEW t \in Task, HandlerLog(t)
       PROVE  RowTypeOK' /\ TaskTypeOK'
  <2>1. TaskTypeOK'
    BY <1>16, DoneType DEF HandlerLog
  <2>2. logs' \in [Job -> [LogEvent -> Nat]]
    BY <1>16, RecordType DEF HandlerLog
  <2> QED
    BY <1>16, <2>1, <2>2 DEF HandlerLog, RowTypeOK, row
<1>17. ASSUME NEW t \in Task, RowMissing(t)
       PROVE  RowTypeOK' /\ TaskTypeOK'
  BY <1>17, DoneType DEF RowMissing, RowTypeOK, row
<1>18. ASSUME NEW j \in Job, Patched(j)
       PROVE  RowTypeOK' /\ TaskTypeOK'
  BY <1>18, AdminStatusOK DEF Patched, PatchJob, RowTypeOK, TaskTypeOK
<1>19. ASSUME NEW j \in Job, RemoveJob(j)
       PROVE  RowTypeOK' /\ TaskTypeOK'
  BY <1>19 DEF RemoveJob, RowTypeOK, TaskTypeOK
<1>20. CASE Crash
  BY <1>20, IdleType DEF Crash, RowTypeOK, TaskTypeOK, row
<1>21. ASSUME NEW t \in Task, DbError(t)
       PROVE  RowTypeOK' /\ TaskTypeOK'
  BY <1>21, DoneType DEF DbError, RowTypeOK, row
<1>22. ASSUME NEW j \in Job, TimerLost(j)
       PROVE  RowTypeOK' /\ TaskTypeOK'
  BY <1>22 DEF TimerLost, RowTypeOK, TaskTypeOK, row
<1>23. CASE UNCHANGED vars
  BY <1>23 DEF vars, RowTypeOK, TaskTypeOK
<1> QED
  BY <1>1, <1>2, <1>3, <1>4, <1>5, <1>6, <1>7, <1>8, <1>9, <1>10, <1>11, <1>12,
     <1>13, <1>14, <1>15, <1>16, <1>17, <1>18, <1>19, <1>20, <1>21, <1>22, <1>23
  DEF Next, Resume, Arrive, Operate, Fail

\* Every reachable state is well typed.
THEOREM TypeCorrect == Spec => []TypeOK
BY TypeInit, TypeStep, PTL DEF Spec

-----------------------------------------------------------------------------
(* One live row per request key.                                           *)

LEMMA UniqueStep == TypeOK /\ UniqueRequest /\ [Next]_vars => UniqueRequest'
<1> SUFFICES ASSUME TypeOK, UniqueRequest, [Next]_vars
             PROVE  UniqueRequest'
  OBVIOUS
<1> USE DEF UniqueRequest, Exists
<1>1. ASSUME UNCHANGED <<status, requestOf>>
      PROVE  UniqueRequest'
  BY <1>1
<1>2. ASSUME NEW t \in Task, NEW j \in Job, NEW s \in AdminStatus \cup {"queued"},
             NEW p \in BOOLEAN, NEW b \in RetryBudget, Insert(t, j, s, p, b)
      PROVE  UniqueRequest'
  BY <1>2 DEF Insert, Taken, TypeOK, JobStatus
<1>3. ASSUME NEW t \in Task, DispatchWrite(t) \/ AckWrite(t) \/ ResultWrite(t) \/ TimeoutWrite(t)
      PROVE  UniqueRequest'
  <2>1. /\ requestOf' = requestOf
        /\ Exists(task[t].job)
        /\ \A k \in Job : k # task[t].job => status'[k] = status[k]
    BY <1>3 DEF DispatchWrite, AckWrite, ResultWrite, TimeoutWrite, TypeOK
  <2> QED
    BY <2>1
<1>4. ASSUME NEW j \in Job, Patched(j)
      PROVE  UniqueRequest'
  <2>1. PICK s \in AdminStatus \cup {status[j]}, p \in BOOLEAN,
             r \in Request \cup {None}, h \in Hash \cup {None} : PatchJob(j, s, p, r, h)
    BY <1>4 DEF Patched
  <2>2. /\ \A k \in Job : k # j => status'[k] = status[k] /\ requestOf'[k] = requestOf[k]
        /\ requestOf'[j] = r
    BY <2>1 DEF PatchJob, TypeOK
  <2>3. r # None => \A k \in Job : Exists(k) /\ requestOf[k] = r => k = j
    BY <2>1 DEF PatchJob, Taken
  <2> QED
    BY <2>1, <2>2, <2>3 DEF PatchJob
<1>5. ASSUME NEW j \in Job, RemoveJob(j)
      PROVE  UniqueRequest'
  BY <1>5 DEF RemoveJob, TypeOK
<1> QED
  BY <1>1, <1>2, <1>3, <1>4, <1>5
  DEF Next, Resume, Arrive, Operate, Fail, vars, row, Submit, FindByRequest, FindByHash,
      InsertRejected, AdminDispatch, DispatchRead, DispatchLog, Ack, Result, TimerFires,
      HandlerLog, RowMissing, Crash, DbError, TimerLost

\* Racing submissions of one request leave one live row.
THEOREM UniqueRequestHolds == Spec => []UniqueRequest
<1>1. Init => UniqueRequest
  BY DEF Init, UniqueRequest, Exists, JobStatus
<1> QED
  BY <1>1, UniqueStep, TypeCorrect, PTL DEF Spec

-----------------------------------------------------------------------------
(* Printed is final.                                                       *)

LEMMA SettledStep ==
    ASSUME TypeOK, [Next]_vars, NEW k \in Job, SettledPrinted(k)
    PROVE  \/ SettledPrinted(k)'
           \/ Patched(k) \/ RemoveJob(k)
<1>1. ASSUME NEW t \in Task, NEW x, Become(t, x), ~(x.at = "write" /\ x.job = k),
             status'[k] = status[k]
      PROVE  SettledPrinted(k)'
  BY <1>1 DEF SettledPrinted, Become, TypeOK
<1>2. ASSUME NEW t \in Task, Done(t), status'[k] = status[k]
      PROVE  SettledPrinted(k)'
  BY <1>1, <1>2, IdleType DEF Done
<1>3. ASSUME NEW t \in Task, NEW at \in {"hash", "insert", "log"}, Goto(t, at),
             status'[k] = status[k]
      PROVE  SettledPrinted(k)'
  <2>1. task[t] \in TaskState
    BY DEF TypeOK
  <2>2. [task[t] EXCEPT !.at = at].at = at
    BY <2>1 DEF TaskState
  <2> QED
    BY <1>1, <1>3, <2>2 DEF Goto
<1>4. ASSUME NEW t \in Task, NEW j \in Job, AnswerWith(t, j), status'[k] = status[k]
      PROVE  SettledPrinted(k)'
  <2>1. Holding("dispatch", "read", j, None).at = "read"
    BY HoldingType DEF Op
  <2> QED
    BY <1>1, <1>2, <1>4, <2>1 DEF AnswerWith
<1>5. ASSUME NEW t \in Task, NEW j \in Job, j # k, NEW op \in Op, NEW out \in OutcomesOf(op),
             Become(t, Holding(op, "write", j, out)), status'[k] = status[k]
      PROVE  SettledPrinted(k)'
  <2>1. Holding(op, "write", j, out).job = j
    BY HoldingType, OutcomeType
  <2> QED
    BY <1>1, <1>5, <2>1
<1>6. status[k] = "printed"
  BY DEF SettledPrinted
<1>7. ASSUME NEW t \in Task, NEW op \in {"public", "admin"},
             NEW r \in Request \cup {None}, NEW h \in Hash \cup {None}, Submit(t, op, r, h)
      PROVE  SettledPrinted(k)'
  BY <1>1, <1>7 DEF Submit, Idle, row
<1>8. ASSUME NEW t \in Task, FindByRequest(t) \/ FindByHash(t)
      PROVE  SettledPrinted(k)'
  BY <1>3, <1>4, <1>8 DEF FindByRequest, FindByHash, AfterRequest, row
<1>9. ASSUME NEW t \in Task, NEW j \in Job, NEW s \in AdminStatus \cup {"queued"},
             NEW p \in BOOLEAN, NEW b \in RetryBudget, Insert(t, j, s, p, b)
      PROVE  SettledPrinted(k)'
  BY <1>4, <1>6, <1>9 DEF Insert, TypeOK
<1>10. ASSUME NEW t \in Task, NEW j \in Job, AdminDispatch(t, j)
       PROVE  SettledPrinted(k)'
  BY <1>5, <1>6, <1>10 DEF AdminDispatch, Dispatchable, SentOrDone, OutcomesOf, Op, row
<1>11. ASSUME NEW t \in Task, DispatchRead(t)
       PROVE  SettledPrinted(k)'
  <2>1. task[t].job \in Job
    BY <1>11 DEF DispatchRead, Waiting, TypeOK
  <2> QED
    BY <1>2, <1>5, <1>6, <1>11, <2>1 DEF DispatchRead, Dispatchable, SentOrDone, OutcomesOf, Op, row
<1>12. ASSUME NEW t \in Task,
              DispatchWrite(t) \/ AckWrite(t) \/ ResultWrite(t) \/ TimeoutWrite(t)
       PROVE  SettledPrinted(k)'
  <2>1. task[t].job # k /\ Goto(t, "log")
    BY <1>12 DEF DispatchWrite, AckWrite, ResultWrite, TimeoutWrite, Waiting, SettledPrinted
  <2>2. status'[k] = status[k]
    BY <1>12, <2>1 DEF DispatchWrite, AckWrite, ResultWrite, TimeoutWrite, TypeOK
  <2> QED
    BY <1>3, <2>1, <2>2
<1>13. ASSUME NEW t \in Task, DispatchLog(t) \/ HandlerLog(t) \/ RowMissing(t)
                               \/ InsertRejected(t) \/ DbError(t)
       PROVE  SettledPrinted(k)'
  BY <1>2, <1>13 DEF DispatchLog, HandlerLog, RowMissing, InsertRejected, DbError, row
<1>14. ASSUME NEW t \in Task, NEW j \in Job, Ack(t, j)
       PROVE  SettledPrinted(k)'
  BY <1>5, <1>6, <1>14 DEF Ack, OutcomesOf, Op, row
<1>15. ASSUME NEW t \in Task, NEW j \in Job, NEW out \in {"printed", "failed"}, Result(t, j, out)
       PROVE  SettledPrinted(k)'
  BY <1>5, <1>6, <1>15 DEF Result, AllowedStatesForResult, OutcomesOf, Op, row
<1>16. ASSUME NEW t \in Task, NEW j \in Job, TimerFires(t, j)
       PROVE  SettledPrinted(k)'
  <2>1. CASE Unanswered(j)
    BY <1>5, <1>6, <1>16, <2>1 DEF TimerFires, Unanswered, OutcomesOf, Op, row
  <2>2. CASE ~Unanswered(j)
    BY <1>16, <2>2 DEF TimerFires, SettledPrinted, row
  <2> QED
    BY <2>1, <2>2
<1>17. ASSUME NEW j \in Job, j # k, Patched(j) \/ RemoveJob(j)
       PROVE  SettledPrinted(k)'
  BY <1>17, AdminStatusOK DEF Patched, PatchJob, RemoveJob, SettledPrinted, TypeOK
<1>18. CASE Crash
  BY <1>6, <1>18, IdleType DEF Crash, SettledPrinted, row
<1>19. CASE UNCHANGED vars \/ \E j \in Job : TimerLost(j)
  BY <1>19 DEF vars, row, TimerLost, SettledPrinted
<1>20. ASSUME NEW t \in Task, Resume(t)
       PROVE  SettledPrinted(k)'
  BY <1>8, <1>9, <1>11, <1>12, <1>13, <1>20 DEF Resume
<1>21. ASSUME NEW t \in Task, Arrive(t)
       PROVE  SettledPrinted(k)'
  BY <1>7, <1>10, <1>14, <1>15, <1>21 DEF Arrive
<1>22. CASE Operate
  BY <1>17, <1>22 DEF Operate
<1>23. CASE Fail
  BY <1>13, <1>18, <1>19, <1>23 DEF Fail
<1> QED
  BY <1>16, <1>19, <1>20, <1>21, <1>22, <1>23 DEF Next

\* A printed job that no older reading threatens stays printed until an
\* operator patches or deletes it.
THEOREM PrintedIsFinalHolds == Spec => PrintedIsFinal
<1>1. TypeOK /\ [Next]_vars =>
        [\A j \in Job : SettledPrinted(j) =>
           SettledPrinted(j)' \/ Patched(j) \/ RemoveJob(j)]_vars
  BY SettledStep
<1> QED
  BY <1>1, TypeCorrect, PTL DEF Spec, PrintedIsFinal

-----------------------------------------------------------------------------
(* A sent job is watched.                                                  *)

\* A task that will arm a timer for job k, or will time it out.
Watcher(x, k) ==
    /\ x.job = k
    /\ \/ x.op = "dispatch" /\ x.at = "log"
       \/ x.op = "timeout" /\ x.at = "write"

Watched(k) == timers[k] > 0 \/ \E t \in Task : Watcher(task[t], k)

WatchInv == \A k \in Job : status[k] = "sent" => Watched(k)

LEMMA WatchedStep ==
    ASSUME TypeOK, Next, Faults = {}, "sent" \notin AdminStatus,
           NEW k \in Job, status[k] = "sent" => Watched(k)
    PROVE  status'[k] = "sent" => Watched(k)'
<1> DEFINE Goal == status'[k] = "sent" => Watched(k)'
\* A step of a slot that holds no watcher of k, and moves k neither to "sent"
\* nor closer to its timer, keeps k watched.
<1>1. ASSUME NEW t \in Task, NEW x, Become(t, x), ~Watcher(task[t], k),
             timers'[k] = timers[k], status'[k] = status[k]
      PROVE  Goal
  BY <1>1 DEF Watched, Become, TypeOK
<1>2. ASSUME NEW t \in Task, NEW x, Become(t, x), Watcher(x, k)
      PROVE  Goal
  BY <1>2 DEF Watched, Become, TypeOK
<1>3. ASSUME NEW t \in Task, NEW op \in {"public", "admin"},
             NEW r \in Request \cup {None}, NEW h \in Hash \cup {None}, Submit(t, op, r, h)
      PROVE  Goal
  BY <1>1, <1>3 DEF Submit, IsIdle, Watcher, row
<1>4. ASSUME NEW t \in Task, NEW j, AnswerWith(t, j), ~Watcher(task[t], k),
             timers'[k] = timers[k], status'[k] = status[k]
      PROVE  Goal
  BY <1>1, <1>4 DEF AnswerWith, Done
<1>5. ASSUME NEW t \in Task, FindByRequest(t) \/ FindByHash(t) \/ InsertRejected(t)
      PROVE  Goal
  <2>1. ~Watcher(task[t], k) /\ timers' = timers /\ status' = status
    BY <1>5 DEF FindByRequest, FindByHash, InsertRejected, Watcher, row
  <2> QED
    BY <1>1, <1>4, <1>5, <2>1 DEF FindByRequest, FindByHash, InsertRejected, Goto, Done
<1>6. ASSUME NEW t \in Task, NEW j \in Job, NEW s \in AdminStatus \cup {"queued"},
             NEW p \in BOOLEAN, NEW b \in RetryBudget, Insert(t, j, s, p, b)
      PROVE  Goal
  <2>1. CASE j = k
    BY <1>6, <2>1 DEF Insert, TypeOK
  <2>2. CASE j # k
    <3>1. ~Watcher(task[t], k) /\ timers' = timers /\ status'[k] = status[k]
      BY <1>6, <2>2 DEF Insert, Watcher, TypeOK
    <3> QED
      BY <1>4, <1>6, <3>1 DEF Insert
  <2> QED
    BY <2>1, <2>2
<1>7. ASSUME NEW t \in Task, NEW j \in Job, AdminDispatch(t, j) \/ Ack(t, j)
      PROVE  Goal
  BY <1>1, <1>7 DEF AdminDispatch, Ack, IsIdle, Watcher, row
<1>8. ASSUME NEW t \in Task, NEW j \in Job, NEW out \in {"printed", "failed"}, Result(t, j, out)
      PROVE  Goal
  BY <1>1, <1>8 DEF Result, IsIdle, Watcher, row
<1>9. ASSUME NEW t \in Task, DispatchRead(t)
      PROVE  Goal
  <2>1. ~Watcher(task[t], k) /\ timers' = timers /\ status' = status
    BY <1>9 DEF DispatchRead, Waiting, Watcher, row
  <2> QED
    BY <1>1, <1>9, <2>1 DEF DispatchRead, Done
<1>10. ASSUME NEW t \in Task, DispatchWrite(t)
       PROVE  Goal
  <2>1. CASE task[t].job = k
    <3>1. Watcher([task[t] EXCEPT !.at = "log"], k)
      BY <1>10, <2>1 DEF DispatchWrite, Waiting, Watcher, TypeOK, TaskState
    <3> QED
      BY <1>2, <1>10, <3>1 DEF DispatchWrite, Goto
  <2>2. CASE task[t].job # k
    <3>1. ~Watcher(task[t], k) /\ timers' = timers /\ status'[k] = status[k]
      BY <1>10, <2>2 DEF DispatchWrite, Watcher, TypeOK
    <3> QED
      BY <1>1, <1>10, <3>1 DEF DispatchWrite, Goto
  <2> QED
    BY <2>1, <2>2
<1>11. ASSUME NEW t \in Task, AckWrite(t) \/ ResultWrite(t) \/ TimeoutWrite(t)
       PROVE  Goal
  <2>1. task[t].out \in OutcomesOf(task[t].op)
    BY <1>11 DEF AckWrite, ResultWrite, TimeoutWrite, Waiting, TypeOK
  <2>2. CASE task[t].job = k
    BY <1>11, <2>1, <2>2 DEF AckWrite, ResultWrite, TimeoutWrite, Waiting, NextStatus,
                             OutcomesOf, TypeOK
  <2>3. CASE task[t].job # k
    <3>1. /\ ~Watcher(task[t], k) /\ timers' = timers /\ status'[k] = status[k]
          /\ Goto(t, "log")
      BY <1>11, <2>3 DEF AckWrite, ResultWrite, TimeoutWrite, Watcher, TypeOK
    <3> QED
      BY <1>1, <3>1 DEF Goto
  <2> QED
    BY <2>2, <2>3
<1>12. ASSUME NEW t \in Task, DispatchLog(t)
       PROVE  Goal
  <2>1. CASE task[t].job = k
    BY <1>12, <2>1 DEF DispatchLog, ScheduleAckTimeout, Watched, TypeOK
  <2>2. CASE task[t].job # k
    <3>1. ~Watcher(task[t], k) /\ timers'[k] = timers[k] /\ status' = status
      BY <1>12, <2>2 DEF DispatchLog, ScheduleAckTimeout, Watcher, TypeOK, row
    <3> QED
      BY <1>1, <1>12, <3>1 DEF DispatchLog, Done
  <2> QED
    BY <2>1, <2>2
<1>13. ASSUME NEW t \in Task, HandlerLog(t)
       PROVE  Goal
  <2>1. ~Watcher(task[t], k) /\ timers' = timers /\ status' = status
    BY <1>13 DEF HandlerLog, Watcher, row
  <2> QED
    BY <1>1, <1>13, <2>1 DEF HandlerLog, Done
<1>14. ASSUME NEW t \in Task, RowMissing(t)
       PROVE  Goal
  <2>1. CASE task[t].job = k
    BY <1>14, <2>1 DEF RowMissing, Exists, JobStatus, row
  <2>2. CASE task[t].job # k
    BY <1>1, <1>14, <2>2 DEF RowMissing, Watcher, Done, row
  <2> QED
    BY <2>1, <2>2
<1>15. ASSUME NEW t \in Task, NEW j \in Job, TimerFires(t, j)
       PROVE  Goal
  <2>1. CASE Unanswered(j)
    <3> DEFINE x == Holding("timeout", "write", j, IF CanRetry(j) THEN "retried" ELSE "failed")
    <3>1. Become(t, x) /\ status' = status
      BY <1>15, <2>1 DEF TimerFires, row
    <3>2. x.op = "timeout" /\ x.at = "write" /\ x.job = j
      BY HoldingType DEF Op, LogEvent
    <3>3. CASE j = k
      BY <1>2, <3>1, <3>2, <3>3 DEF Watcher
    <3>4. CASE j # k
      <4>1. ~Watcher(task[t], k) /\ timers'[k] = timers[k]
        BY <1>15, <3>4 DEF TimerFires, IsIdle, Watcher, TypeOK
      <4> QED
        BY <1>1, <3>1, <4>1
    <3> QED
      BY <3>3, <3>4
  <2>2. CASE ~Unanswered(j)
    BY <1>15, <2>2 DEF TimerFires, Unanswered, Watched, TypeOK, row
  <2> QED
    BY <2>1, <2>2
<1>16. CASE Operate
  <2>1. ASSUME NEW j \in Job, Patched(j)
        PROVE  Goal
    BY <2>1, AdminStatusOK DEF Patched, PatchJob, Watched, TypeOK
  <2>2. ASSUME NEW j \in Job, RemoveJob(j)
        PROVE  Goal
    BY <2>2 DEF RemoveJob, Watched, TypeOK
  <2> QED
    BY <1>16, <2>1, <2>2 DEF Operate
<1>17. ~Fail
  BY DEF Fail, Crash, DbError, TimerLost
<1>18. ASSUME NEW t \in Task, Resume(t)
       PROVE  Goal
  BY <1>5, <1>6, <1>9, <1>10, <1>11, <1>12, <1>13, <1>14, <1>18 DEF Resume
<1>19. ASSUME NEW t \in Task, Arrive(t)
       PROVE  Goal
  BY <1>3, <1>7, <1>8, <1>19 DEF Arrive
<1> QED
  BY <1>15, <1>16, <1>17, <1>18, <1>19 DEF Next

\* While nothing fails and operators do not write "sent", every sent job has
\* a timer pending, one about to be armed, or a timeout about to move it.
THEOREM SentIsWatchedHolds == Spec => []SentIsWatched
<1> DEFINE Inv == (Faults = {} /\ "sent" \notin AdminStatus) => WatchInv
<1>1. Init => Inv
  BY DEF Init, WatchInv
<1>2. TypeOK /\ Inv /\ [Next]_vars => Inv'
  <2>1. TypeOK /\ Inv /\ Next => Inv'
    BY WatchedStep DEF WatchInv
  <2>2. Inv /\ UNCHANGED vars => Inv'
    BY DEF WatchInv, Watched, Watcher, vars
  <2> QED
    BY <2>1, <2>2
<1>3. Inv => SentIsWatched
  BY DEF WatchInv, Watched, Watcher, SentIsWatched, InFlight
<1> QED
  BY <1>1, <1>2, <1>3, TypeCorrect, PTL DEF Spec

-----------------------------------------------------------------------------
(* Retries stay within the budget.  Every dispatch that has been counted   *)
(* is worth one timeout: it is the dispatch that has yet to arm its timer, *)
(* the pending timer, the timeout in flight, or a retry already recorded.  *)
(* So a timeout that reads attempts <= max_retries reads that fewer than   *)
(* max_retries retries were granted or are being granted.                  *)

Carrier(x, k) ==
    /\ x.job = k
    /\ \/ x.op = "dispatch" /\ x.at = "log"
       \/ x.op = "timeout" /\ x.at \in {"write", "log"}

\* A timeout that has decided to grant a retry.
Decider(x, k) ==
    x.job = k /\ x.op = "timeout" /\ x.at \in {"write", "log"} /\ x.out = "retried"

Carriers(k) == {t \in Task : Carrier(task[t], k)}
Deciders(k) == {t \in Task : Decider(task[t], k)}

Retried(k) == logs[k]["retried"]

RetryInvAt(k) ==
    /\ status[k] = "absent" => attempts[k] = 0
    /\ status[k] # "deleted" =>
          /\ Cardinality(Carriers(k)) + timers[k] + Retried(k) <= attempts[k]
          /\ Retried(k) + Cardinality(Deciders(k)) <= budget[k]

RetryInv == \A k \in Job : RetryInvAt(k)

Bit(b) == IF b THEN 1 ELSE 0

\* Two sets of slots that differ at most in t differ in size at most by it.
LEMMA CountOne ==
    ASSUME NEW S \in SUBSET Task, NEW T \in SUBSET Task, NEW t \in Task,
           \A u \in Task : u # t => (u \in S <=> u \in T)
    PROVE  /\ Cardinality(S) \in Nat /\ Cardinality(T) \in Nat
           /\ Cardinality(T) = Cardinality(S) - Bit(t \in S) + Bit(t \in T)
<1>1. IsFiniteSet(S) /\ IsFiniteSet(T)
  BY FiniteTasks, FS_Subset
<1>2. Cardinality(S) \in Nat /\ Cardinality(T) \in Nat
  BY <1>1, FS_CardinalityType
<1>3. CASE t \in S /\ t \notin T
  <2>1. S = T \cup {t}
    BY <1>3
  <2> QED
    BY <1>1, <1>2, <1>3, <2>1, FS_AddElement DEF Bit
<1>4. CASE t \notin S /\ t \in T
  <2>1. T = S \cup {t}
    BY <1>4
  <2> QED
    BY <1>1, <1>2, <1>4, <2>1, FS_AddElement DEF Bit
<1>5. CASE t \in S <=> t \in T
  <2>1. S = T
    BY <1>5
  <2> QED
    BY <1>2, <2>1 DEF Bit
<1> QED
  BY <1>3, <1>4, <1>5

\* How the counts move when slot t becomes x.
LEMMA CountStep ==
    ASSUME TypeOK, NEW k \in Job, NEW t \in Task, NEW x, Become(t, x)
    PROVE  /\ Cardinality(Carriers(k))' = Cardinality(Carriers(k))
                 - Bit(Carrier(task[t], k)) + Bit(Carrier(x, k))
           /\ Cardinality(Deciders(k))' = Cardinality(Deciders(k))
                 - Bit(Decider(task[t], k)) + Bit(Decider(x, k))
<1>1. \A u \in Task : task'[u] = IF u = t THEN x ELSE task[u]
  BY DEF Become, TypeOK
<1>2. /\ \A u \in Task : u # t => (u \in Carriers(k) <=> u \in Carriers(k)')
      /\ \A u \in Task : u # t => (u \in Deciders(k) <=> u \in Deciders(k)')
  BY <1>1 DEF Carriers, Deciders
<1>3. /\ t \in Carriers(k) <=> Carrier(task[t], k)
      /\ t \in Carriers(k)' <=> Carrier(x, k)
      /\ t \in Deciders(k) <=> Decider(task[t], k)
      /\ t \in Deciders(k)' <=> Decider(x, k)
  BY <1>1 DEF Carriers, Deciders
<1>4. /\ Carriers(k) \in SUBSET Task /\ Carriers(k)' \in SUBSET Task
      /\ Deciders(k) \in SUBSET Task /\ Deciders(k)' \in SUBSET Task
  BY DEF Carriers, Deciders
<1>5. Cardinality(Carriers(k)') = Cardinality(Carriers(k))
          - Bit(t \in Carriers(k)) + Bit(t \in Carriers(k)')
  BY <1>2, <1>4, CountOne
<1>6. Cardinality(Deciders(k)') = Cardinality(Deciders(k))
          - Bit(t \in Deciders(k)) + Bit(t \in Deciders(k)')
  BY <1>2, <1>4, CountOne
<1> QED
  BY <1>3, <1>5, <1>6 DEF Bit

LEMMA CountType ==
    ASSUME NEW k \in Job
    PROVE  /\ Cardinality(Carriers(k)) \in Nat /\ Cardinality(Deciders(k)) \in Nat
           /\ Cardinality(Deciders(k)) <= Cardinality(Carriers(k))
<1>1. Deciders(k) \subseteq Carriers(k) /\ Carriers(k) \subseteq Task
  BY DEF Carriers, Deciders, Carrier, Decider
<1> QED
  BY <1>1, FiniteTasks, FS_Subset, FS_CardinalityType

\* A step that makes slot t a carrier or a decider of k only if it was one,
\* and leaves the counters of k alone, keeps the invariant at k.
SameCounters(k) ==
    /\ attempts'[k] = attempts[k]
    /\ budget'[k] = budget[k]
    /\ timers'[k] = timers[k]
    /\ logs'[k]["retried"] = logs[k]["retried"]
    /\ status'[k] = "absent" => status[k] = "absent"
    /\ status[k] = "deleted" => status'[k] = "deleted"

LEMMA RetryFrame ==
    ASSUME TypeOK, NEW k \in Job, RetryInvAt(k), SameCounters(k),
           NEW t \in Task, NEW x, Become(t, x),
           Carrier(x, k) => Carrier(task[t], k), Decider(x, k) => Decider(task[t], k)
    PROVE  RetryInvAt(k)'
<1>1. /\ Cardinality(Carriers(k))' <= Cardinality(Carriers(k))
      /\ Cardinality(Deciders(k))' <= Cardinality(Deciders(k))
      /\ Cardinality(Carriers(k))' \in Int /\ Cardinality(Deciders(k))' \in Int
  BY CountStep, CountType DEF Bit
<1>2. /\ attempts[k] \in Nat /\ budget[k] \in Nat /\ timers[k] \in Nat
      /\ logs[k]["retried"] \in Nat
  BY DEF TypeOK, LogEvent
<1> QED
  BY <1>1, <1>2, CountType DEF RetryInvAt, SameCounters, Retried

\* A slot that was idle or at a lookup carries nothing.
LEMMA NoCarrier ==
    \A x, k : \/ x.at \notin {"write", "log"}
              \/ x.op \notin {"dispatch", "timeout"}
              \/ (x.op = "dispatch" /\ x.at = "write")
             => ~Carrier(x, k) /\ ~Decider(x, k)
BY DEF Carrier, Decider

LEMMA IdleCarriesNothing == \A k : ~Carrier(Idle, k) /\ ~Decider(Idle, k)
BY IdleType DEF Carrier, Decider

LEMMA DoneFrame ==
    ASSUME TypeOK, NEW k \in Job, RetryInvAt(k), SameCounters(k), NEW t \in Task, Done(t)
    PROVE  RetryInvAt(k)'
BY IdleCarriesNothing, RetryFrame DEF Done

\* A submission that ends, or goes on to dispatch, carries nothing yet.
LEMMA AnswerCarriesNothing ==
    ASSUME NEW t \in Task, NEW j \in Job, AnswerWith(t, j)
    PROVE  \E x : Become(t, x) /\ \A k : ~Carrier(x, k) /\ ~Decider(x, k)
<1>1. CASE Done(t)
  BY <1>1, IdleCarriesNothing DEF Done
<1>2. CASE Become(t, Holding("dispatch", "read", j, None))
  <2>1. Holding("dispatch", "read", j, None).at = "read"
    BY HoldingType DEF Op
  <2>2. \A k : /\ ~Carrier(Holding("dispatch", "read", j, None), k)
               /\ ~Decider(Holding("dispatch", "read", j, None), k)
    BY <2>1 DEF Carrier, Decider
  <2> QED
    BY <1>2, <2>2
<1> QED
  BY <1>1, <1>2 DEF AnswerWith

LEMMA AnswerFrame ==
    ASSUME TypeOK, NEW k \in Job, RetryInvAt(k), SameCounters(k),
           NEW t \in Task, NEW j \in Job, AnswerWith(t, j)
    PROVE  RetryInvAt(k)'
<1>1. PICK x : Become(t, x) /\ ~Carrier(x, k) /\ ~Decider(x, k)
  BY AnswerCarriesNothing
<1> QED
  BY <1>1, RetryFrame

\* A handler that takes a row to write and is not a timeout.
LEMMA TakeFrame ==
    ASSUME TypeOK, NEW k \in Job, RetryInvAt(k), SameCounters(k), NEW t \in Task,
           NEW j \in Job, NEW op \in {"dispatch", "ack", "result"}, NEW out \in LogEvent,
           Become(t, Holding(op, "write", j, out))
    PROVE  RetryInvAt(k)'
<1>1. Holding(op, "write", j, out).at = "write" /\ Holding(op, "write", j, out).op = op
  BY HoldingType DEF Op
<1> QED
  BY <1>1, NoCarrier, RetryFrame

\* A handler goes on to its log row: only a dispatch becomes a carrier.
LEMMA GotoFields ==
    ASSUME TypeOK, NEW t \in Task, NEW at
    PROVE  LET x == [task[t] EXCEPT !.at = at]
           IN  x.at = at /\ x.op = task[t].op /\ x.job = task[t].job /\ x.out = task[t].out
<1>1. task[t] \in TaskState
  BY DEF TypeOK
<1> QED
  BY <1>1 DEF TaskState

LEMMA RetryResume ==
    ASSUME TypeOK, NEW k \in Job, RetryInvAt(k), NEW t \in Task, Resume(t)
    PROVE  RetryInvAt(k)'
<1> USE DEF SameCounters
<1> DEFINE logging == [task[t] EXCEPT !.at = "log"]
<1>1. ASSUME FindByRequest(t) \/ FindByHash(t)
      PROVE  RetryInvAt(k)'
  <2>1. SameCounters(k)
    BY <1>1 DEF FindByRequest, FindByHash, row
  <2>2. ASSUME NEW at \in {"hash", "insert"}, Goto(t, at)
        PROVE  RetryInvAt(k)'
    <3> DEFINE x == [task[t] EXCEPT !.at = at]
    <3>1. Become(t, x) /\ x.at = at
      BY <2>2, GotoFields DEF Goto
    <3>2. ~Carrier(x, k) /\ ~Decider(x, k)
      BY <3>1 DEF Carrier, Decider
    <3> QED
      BY <2>1, <3>1, <3>2, RetryFrame
  <2>3. ASSUME NEW j \in Job, AnswerWith(t, j)
        PROVE  RetryInvAt(k)'
    BY <2>1, <2>3, AnswerFrame
  <2>4. CASE FindByRequest(t)
    BY <2>2, <2>3, <2>4 DEF FindByRequest, AfterRequest
  <2>5. CASE FindByHash(t)
    BY <2>2, <2>3, <2>5 DEF FindByHash
  <2> QED
    BY <1>1, <2>4, <2>5
<1>2. ASSUME NEW j \in Job, NEW s \in AdminStatus \cup {"queued"},
             NEW p \in BOOLEAN, NEW b \in RetryBudget, Insert(t, j, s, p, b)
      PROVE  RetryInvAt(k)'
  <2>1. CASE j # k
    <3>1. SameCounters(k)
      BY <1>2, <2>1 DEF Insert, TypeOK
    <3> QED
      BY <1>2, <3>1, AnswerFrame DEF Insert
  <2>2. CASE j = k
    <3>1. /\ status[k] = "absent" /\ status'[k] \in JobStatus /\ budget'[k] \in Nat
          /\ attempts' = attempts /\ timers' = timers /\ logs' = logs
      BY <1>2, <2>2, AdminStatusOK, BudgetsAreNat DEF Insert, TypeOK, JobStatus
    <3>2. /\ Cardinality(Carriers(k)) = 0 /\ Cardinality(Deciders(k)) = 0
          /\ timers[k] = 0 /\ Retried(k) = 0 /\ attempts[k] = 0
      <4>1. timers[k] \in Nat /\ Retried(k) \in Nat /\ budget[k] \in Nat
        BY DEF TypeOK, Retried, LogEvent
      <4>2. /\ attempts[k] = 0
            /\ Cardinality(Carriers(k)) + timers[k] + Retried(k) <= attempts[k]
        BY <3>1 DEF RetryInvAt
      <4> QED
        BY <4>1, <4>2, CountType
    <3>3. /\ Cardinality(Carriers(k))' <= 0 /\ Cardinality(Deciders(k))' <= 0
          /\ Cardinality(Carriers(k))' \in Int /\ Cardinality(Deciders(k))' \in Int
      <4>1. PICK x : Become(t, x) /\ ~Carrier(x, k) /\ ~Decider(x, k)
        BY <1>2, AnswerCarriesNothing DEF Insert
      <4> QED
        BY <3>2, <4>1, CountStep DEF Bit
    <3> QED
      BY <3>1, <3>2, <3>3 DEF RetryInvAt, Retried, JobStatus
  <2> QED
    BY <2>1, <2>2
<1>3. ASSUME InsertRejected(t) \/ RowMissing(t)
      PROVE  RetryInvAt(k)'
  BY <1>3, DoneFrame DEF InsertRejected, RowMissing, row
<1>4. CASE DispatchRead(t)
  <2>1. SameCounters(k)
    BY <1>4 DEF DispatchRead, row
  <2>2. task[t].job \in Job
    BY <1>4 DEF DispatchRead, Waiting, TypeOK
  <2> QED
    BY <1>4, <2>1, <2>2, DoneFrame, TakeFrame DEF DispatchRead, LogEvent
<1>5. CASE DispatchWrite(t)
  <2>0. /\ Become(t, logging) /\ task[t].op = "dispatch" /\ task[t].at = "write"
        /\ logging.op = "dispatch" /\ logging.at = "log" /\ logging.job = task[t].job
    BY <1>5, GotoFields DEF DispatchWrite, Waiting, Goto
  <2>1. CASE task[t].job = k
    <3>1. /\ status[k] \in JobStatus /\ status'[k] = "sent" /\ attempts'[k] = attempts[k] + 1
          /\ timers' = timers /\ logs' = logs /\ budget' = budget
      BY <1>5, <2>1 DEF DispatchWrite, Exists, TypeOK
    <3>2. /\ Cardinality(Carriers(k))' = Cardinality(Carriers(k)) + 1
          /\ Cardinality(Deciders(k))' = Cardinality(Deciders(k))
      <4>1. ~Carrier(task[t], k) /\ ~Decider(task[t], k) /\ Carrier(logging, k) /\ ~Decider(logging, k)
        BY <2>0, <2>1 DEF Carrier, Decider
      <4> QED
        BY <2>0, <4>1, CountStep, CountType DEF Bit
    <3> QED
      BY <3>1, <3>2, CountType DEF RetryInvAt, Retried, JobStatus, TypeOK, LogEvent
  <2>2. CASE task[t].job # k
    <3>1. SameCounters(k)
      BY <1>5, <2>2 DEF DispatchWrite, TypeOK
    <3>2. ~Carrier(logging, k) /\ ~Decider(logging, k)
      BY <2>0, <2>2 DEF Carrier, Decider
    <3> QED
      BY <2>0, <3>1, <3>2, RetryFrame
  <2> QED
    BY <2>1, <2>2
<1>6. CASE DispatchLog(t)
  <2>0. /\ Become(t, Idle) /\ task[t].op = "dispatch" /\ task[t].at = "log"
        /\ task[t].out = "sent_to_printer" /\ task[t].job \in Job
        /\ ~Carrier(Idle, k) /\ ~Decider(Idle, k) /\ ~Decider(task[t], k)
    BY <1>6, IdleCarriesNothing DEF DispatchLog, Waiting, Done, TypeOK, OutcomesOf, Decider
  <2>1. /\ status' = status /\ attempts' = attempts /\ budget' = budget
        /\ logs'[k]["retried"] = logs[k]["retried"]
    BY <1>6, <2>0 DEF DispatchLog, Record, TypeOK, LogEvent, row
  <2>2. CASE task[t].job = k
    <3>1. timers'[k] = timers[k] + 1
      BY <1>6, <2>2 DEF DispatchLog, ScheduleAckTimeout, TypeOK
    <3>2. /\ Cardinality(Carriers(k))' = Cardinality(Carriers(k)) - 1
          /\ Cardinality(Deciders(k))' = Cardinality(Deciders(k))
      <4>1. Carrier(task[t], k)
        BY <2>0, <2>2 DEF Carrier
      <4> QED
        BY <2>0, <4>1, CountStep, CountType DEF Bit
    <3> QED
      BY <2>1, <3>1, <3>2, CountType DEF RetryInvAt, Retried, TypeOK, LogEvent
  <2>3. CASE task[t].job # k
    <3>1. timers'[k] = timers[k]
      BY <1>6, <2>3 DEF DispatchLog, ScheduleAckTimeout, TypeOK
    <3> QED
      BY <2>0, <2>1, <3>1, RetryFrame
  <2> QED
    BY <2>2, <2>3
<1>7. ASSUME AckWrite(t) \/ ResultWrite(t) \/ TimeoutWrite(t)
      PROVE  RetryInvAt(k)'
  <2>1. /\ Become(t, logging) /\ task[t].op # "dispatch" /\ task[t].at = "write"
        /\ logging.op = task[t].op /\ logging.job = task[t].job /\ logging.out = task[t].out
        /\ logging.at = "log"
    BY <1>7, GotoFields DEF AckWrite, ResultWrite, TimeoutWrite, Waiting, Goto
  <2>2. /\ Carrier(logging, k) => Carrier(task[t], k)
        /\ Decider(logging, k) => Decider(task[t], k)
    BY <2>1 DEF Carrier, Decider
  <2>3. task[t].job \in Job /\ task[t].out \in OutcomesOf(task[t].op)
    BY <2>1 DEF TypeOK
  <2>4. SameCounters(k)
    BY <1>7, <2>3 DEF AckWrite, ResultWrite, TimeoutWrite, Waiting, NextStatus, OutcomesOf,
                      Exists, JobStatus, TypeOK
  <2> QED
    BY <2>1, <2>2, <2>4, RetryFrame
<1>8. CASE HandlerLog(t)
  <2>0. /\ Become(t, Idle) /\ task[t].op \in {"ack", "result", "timeout"} /\ task[t].at = "log"
        /\ task[t].out \in OutcomesOf(task[t].op) /\ task[t].job \in Job
        /\ ~Carrier(Idle, k) /\ ~Decider(Idle, k)
    BY <1>8, IdleCarriesNothing DEF HandlerLog, Done, TypeOK
  <2>1. status' = status /\ attempts' = attempts /\ budget' = budget /\ timers' = timers
    BY <1>8 DEF HandlerLog, row
  <2>2. CASE Decider(task[t], k)
    <3>1. Retried(k)' = Retried(k) + 1
      BY <1>8, <2>0, <2>2 DEF HandlerLog, Record, Retried, Decider, Counted, TypeOK, LogEvent
    <3>2. /\ Cardinality(Carriers(k))' = Cardinality(Carriers(k)) - 1
          /\ Cardinality(Deciders(k))' = Cardinality(Deciders(k)) - 1
      <4>1. Carrier(task[t], k)
        BY <2>2 DEF Carrier, Decider
      <4> QED
        BY <2>0, <2>2, <4>1, CountStep, CountType DEF Bit
    <3> QED
      BY <2>1, <3>1, <3>2, CountType DEF RetryInvAt, Retried, TypeOK, LogEvent
  <2>3. CASE ~Decider(task[t], k)
    <3>1. logs'[k]["retried"] = logs[k]["retried"]
      <4>1. task[t].job # k \/ task[t].out # "retried"
        BY <2>0, <2>3 DEF Decider, OutcomesOf
      <4> QED
        BY <1>8, <2>0, <4>1 DEF HandlerLog, Record, TypeOK, LogEvent
    <3> QED
      BY <2>0, <2>1, <3>1, RetryFrame
  <2> QED
    BY <2>2, <2>3
<1> QED
  BY <1>1, <1>2, <1>3, <1>4, <1>5, <1>6, <1>7, <1>8 DEF Resume

LEMMA RetryArrive ==
    ASSUME TypeOK, NEW k \in Job, RetryInvAt(k), NEW t \in Task, Arrive(t)
    PROVE  RetryInvAt(k)'
<1>1. ASSUME NEW op \in {"public", "admin"},
             NEW r \in Request \cup {None}, NEW h \in Hash \cup {None}, Submit(t, op, r, h)
      PROVE  RetryInvAt(k)'
  <2> DEFINE x == [Idle EXCEPT !.op = op, !.request = r, !.hash = h,
                     !.at = IF r # None THEN "request"
                            ELSE IF h # None THEN "hash" ELSE "insert"]
  <2>1. Become(t, x) /\ ~Carrier(x, k) /\ ~Decider(x, k)
    BY <1>1 DEF Submit, Idle, Carrier, Decider
  <2>2. SameCounters(k)
    BY <1>1 DEF Submit, SameCounters, row
  <2> QED
    BY <2>1, <2>2, RetryFrame
<1>2. ASSUME NEW j \in Job, AdminDispatch(t, j)
      PROVE  RetryInvAt(k)'
  BY <1>2, TakeFrame DEF AdminDispatch, LogEvent, SameCounters, row
<1>3. ASSUME NEW j \in Job, Ack(t, j)
      PROVE  RetryInvAt(k)'
  BY <1>3, TakeFrame DEF Ack, LogEvent, SameCounters, row
<1>4. ASSUME NEW j \in Job, NEW out \in {"printed", "failed"}, Result(t, j, out)
      PROVE  RetryInvAt(k)'
  BY <1>4, TakeFrame DEF Result, LogEvent, SameCounters, row
<1> QED
  BY <1>1, <1>2, <1>3, <1>4 DEF Arrive

\* A step that leaves the slots alone and at most spends timers of k.
LEMMA TimerSpent ==
    ASSUME TypeOK, NEW k \in Job, RetryInvAt(k), task' = task,
           status' = status, attempts' = attempts, budget' = budget, logs' = logs,
           timers'[k] \in {timers[k], timers[k] - 1}
    PROVE  RetryInvAt(k)'
<1>1. Carriers(k)' = Carriers(k) /\ Deciders(k)' = Deciders(k)
  BY DEF Carriers, Deciders
<1>2. attempts[k] \in Nat /\ timers[k] \in Nat /\ Retried(k) \in Nat
  BY DEF TypeOK, LogEvent, Retried
<1>3. Retried(k)' = Retried(k)
  BY DEF Retried
<1> QED
  BY <1>1, <1>2, <1>3, CountType DEF RetryInvAt

\* The heart of the argument: the timeout reads attempts <= max_retries.
LEMMA RetryTimer ==
    ASSUME TypeOK, NEW k \in Job, RetryInvAt(k), NEW t \in Task, NEW j \in Job, TimerFires(t, j)
    PROVE  RetryInvAt(k)'
<1> DEFINE x == Holding("timeout", "write", j, IF CanRetry(j) THEN "retried" ELSE "failed")
<1>1. /\ x.op = "timeout" /\ x.at = "write" /\ x.job = j
      /\ x.out = IF CanRetry(j) THEN "retried" ELSE "failed"
  BY HoldingType DEF Op, LogEvent
<1>2. /\ status' = status /\ attempts' = attempts /\ budget' = budget /\ logs' = logs
      /\ timers'[k] = IF j = k THEN timers[k] - 1 ELSE timers[k]
      /\ timers[j] > 0
  BY DEF TimerFires, TypeOK, row
<1>3. /\ attempts[k] \in Nat /\ budget[k] \in Nat /\ timers[k] \in Nat
      /\ logs[k]["retried"] \in Nat
  BY DEF TypeOK, LogEvent
<1>4. CASE Unanswered(j) /\ j = k
  <2>1. Become(t, x) /\ status[k] = "sent"
    BY <1>4 DEF TimerFires, Unanswered
  <2>2. ~Carrier(task[t], k) /\ ~Decider(task[t], k) /\ Carrier(x, k)
    BY <1>1, <1>4 DEF TimerFires, IsIdle, Carrier, Decider
  <2>3. Cardinality(Carriers(k))' = Cardinality(Carriers(k)) + 1
    BY <2>1, <2>2, CountStep, CountType DEF Bit
  <2>4. Cardinality(Deciders(k))' = Cardinality(Deciders(k)) + Bit(CanRetry(k))
    <3>1. Decider(x, k) <=> CanRetry(k)
      BY <1>1, <1>4 DEF Decider
    <3> QED
      BY <2>1, <2>2, <3>1, CountStep, CountType DEF Bit
  <2>5. /\ Cardinality(Carriers(k)) + timers[k] + Retried(k) <= attempts[k]
        /\ Retried(k) + Cardinality(Deciders(k)) <= budget[k]
    BY <2>1 DEF RetryInvAt
  <2>6. Retried(k) + Cardinality(Deciders(k)) + Bit(CanRetry(k)) <= budget[k]
    BY <1>2, <1>3, <1>4, <2>5, CountType DEF Bit, CanRetry, Retried
  <2> QED
    BY <1>2, <1>3, <1>4, <2>1, <2>3, <2>4, <2>5, <2>6, CountType DEF RetryInvAt, Retried, Bit
<1>5. CASE Unanswered(j) /\ j # k
  <2>1. Become(t, x) /\ ~Carrier(x, k) /\ ~Decider(x, k)
    BY <1>1, <1>5 DEF TimerFires, Carrier, Decider
  <2>2. SameCounters(k)
    BY <1>2, <1>5 DEF SameCounters
  <2> QED
    BY <2>1, <2>2, RetryFrame
<1>6. CASE ~Unanswered(j)
  <2>1. task' = task
    BY <1>6 DEF TimerFires
  <2> QED
    BY <1>2, <2>1, TimerSpent
<1> QED
  BY <1>4, <1>5, <1>6

LEMMA RetryStep == TypeOK /\ RetryInv /\ [Next]_vars => RetryInv'
<1> SUFFICES ASSUME TypeOK, RetryInv, [Next]_vars, NEW k \in Job
             PROVE  RetryInvAt(k)'
  BY DEF RetryInv
<1>1. RetryInvAt(k)
  BY DEF RetryInv
<1>2. /\ attempts[k] \in Nat /\ budget[k] \in Nat /\ timers[k] \in Nat
      /\ logs[k]["retried"] \in Nat
  BY DEF TypeOK, LogEvent
<1>3. ASSUME task' = task, timers' = timers, SameCounters(k)
      PROVE  RetryInvAt(k)'
  BY <1>1, <1>2, <1>3, CountType DEF SameCounters, RetryInvAt, Retried, Carriers, Deciders
<1>4. CASE Operate
  <2>1. ASSUME NEW j \in Job, Patched(j)
        PROVE  RetryInvAt(k)'
    BY <1>3, <2>1, AdminStatusOK DEF Patched, PatchJob, Exists, JobStatus, SameCounters, TypeOK
  <2>2. ASSUME NEW j \in Job, RemoveJob(j), j = k
        PROVE  RetryInvAt(k)'
    BY <2>2 DEF RemoveJob, RetryInvAt, TypeOK
  <2>3. ASSUME NEW j \in Job, RemoveJob(j), j # k
        PROVE  RetryInvAt(k)'
    BY <1>3, <2>3 DEF RemoveJob, SameCounters, TypeOK
  <2> QED
    BY <1>4, <2>1, <2>2, <2>3 DEF Operate
<1>5. CASE Crash
  <2>1. Carriers(k)' = {} /\ Deciders(k)' = {} /\ timers'[k] = 0
    BY <1>5, IdleCarriesNothing DEF Crash, Carriers, Deciders
  <2>2. Cardinality(Carriers(k))' = 0 /\ Cardinality(Deciders(k))' = 0
    BY <2>1, FS_EmptySet
  <2>3. status' = status /\ attempts' = attempts /\ budget' = budget /\ logs' = logs
    BY <1>5 DEF Crash, row
  <2> QED
    BY <1>1, <1>2, <2>1, <2>2, <2>3, CountType DEF RetryInvAt, Retried
<1>6. ASSUME NEW t \in Task, DbError(t)
      PROVE  RetryInvAt(k)'
  BY <1>1, <1>6, DoneFrame DEF DbError, SameCounters, row
<1>7. ASSUME NEW j \in Job, TimerLost(j)
      PROVE  RetryInvAt(k)'
  <2>1. /\ status' = status /\ attempts' = attempts /\ budget' = budget /\ logs' = logs
        /\ task' = task /\ timers'[k] \in {timers[k], timers[k] - 1}
    BY <1>7 DEF TimerLost, TypeOK, row
  <2> QED
    BY <1>1, <2>1, TimerSpent
<1>8. CASE UNCHANGED vars
  BY <1>3, <1>8 DEF vars, SameCounters
<1> QED
  BY <1>1, <1>4, <1>5, <1>6, <1>7, <1>8, RetryResume, RetryArrive, RetryTimer DEF Next, Fail

LEMMA RetryInit == Init => RetryInv
<1> SUFFICES ASSUME Init, NEW k \in Job
             PROVE  RetryInvAt(k)
  BY DEF RetryInv
<1>1. Carriers(k) = {} /\ Deciders(k) = {}
  BY IdleCarriesNothing DEF Init, Carriers, Deciders
<1>2. Cardinality(Carriers(k)) = 0 /\ Cardinality(Deciders(k)) = 0
  BY <1>1, FS_EmptySet
<1> QED
  BY <1>2 DEF Init, RetryInvAt, Retried, LogEvent

\* No job is granted more retries than its max_retries, whatever timers,
\* double dispatches and faults there are.
THEOREM RetriesWithinBudgetHolds == Spec => []RetriesWithinBudget
<1>1. Init => RetryInv
  BY RetryInit
<1>2. TypeOK /\ RetryInv => RetriesWithinBudget
  <2> SUFFICES ASSUME TypeOK, RetryInv, NEW k \in Job, Exists(k)
               PROVE  Retried(k) <= budget[k]
    BY DEF RetriesWithinBudget, Retried
  <2>1. Retried(k) + Cardinality(Deciders(k)) <= budget[k]
    BY DEF RetryInv, RetryInvAt, Exists, JobStatus
  <2> QED
    BY <2>1, CountType DEF TypeOK, Retried, LogEvent
<1> QED
  BY <1>1, <1>2, RetryStep, TypeCorrect, PTL DEF Spec

-----------------------------------------------------------------------------
(* The four kinds of steps a handler takes.                                *)

\* It reads: no row and no log changes, and it is not at its log row.
Reads(t) ==
    /\ UNCHANGED <<row, logs>>
    /\ task[t].at # "log"
    /\ \E x : Become(t, x) /\ x.at # "log"

LEMMA AnswerReads ==
    ASSUME NEW t \in Task, NEW j \in Job, AnswerWith(t, j)
    PROVE  \E x : Become(t, x) /\ x.at # "log"
<1>1. CASE Done(t)
  BY <1>1, IdleType DEF Done
<1>2. CASE Become(t, Holding("dispatch", "read", j, None))
  <2>1. Holding("dispatch", "read", j, None).at = "read"
    BY HoldingType DEF Op
  <2> QED
    BY <1>2, <2>1
<1> QED
  BY <1>1, <1>2 DEF AnswerWith

LEMMA GotoReads ==
    ASSUME TypeOK, NEW t \in Task, NEW at, at # "log", Goto(t, at)
    PROVE  \E x : Become(t, x) /\ x.at # "log"
<1> DEFINE x == [task[t] EXCEPT !.at = at]
<1>1. Become(t, x) /\ x.at = at
  BY GotoFields DEF Goto
<1> HIDE DEF x
<1> QED
  BY <1>1

LEMMA HoldingReads ==
    ASSUME NEW t \in Task, NEW j \in Job, NEW op \in Op, NEW out \in LogEvent,
           Become(t, Holding(op, "write", j, out))
    PROVE  \E x : Become(t, x) /\ x.at # "log"
<1>1. Holding(op, "write", j, out).at = "write"
  BY HoldingType
<1> QED
  BY <1>1

LEMMA DoneReads ==
    ASSUME NEW t \in Task, Done(t)
    PROVE  \E x : Become(t, x) /\ x.at # "log"
BY IdleType DEF Done

LEMMA ReadSteps ==
    ASSUME TypeOK, NEW t \in Task,
           \/ FindByRequest(t) \/ FindByHash(t) \/ InsertRejected(t) \/ DispatchRead(t)
           \/ Arrive(t) \/ \E j \in Job : TimerFires(t, j)
    PROVE  Reads(t)
<1>1. CASE FindByRequest(t)
  <2>1. (\E j \in Job : AnswerWith(t, j)) \/ (\E at \in {"hash", "insert"} : Goto(t, at))
    BY <1>1 DEF FindByRequest, AfterRequest
  <2> QED
    BY <1>1, <2>1, AnswerReads, GotoReads DEF FindByRequest, Reads
<1>2. CASE FindByHash(t)
  <2>1. (\E j \in Job : AnswerWith(t, j)) \/ Goto(t, "insert")
    BY <1>2 DEF FindByHash
  <2> QED
    BY <1>2, <2>1, AnswerReads, GotoReads DEF FindByHash, Reads
<1>3. CASE InsertRejected(t)
  BY <1>3, DoneReads DEF InsertRejected, Reads
<1>4. CASE DispatchRead(t)
  <2>1. task[t].job \in Job
    BY <1>4 DEF DispatchRead, Waiting, TypeOK
  <2> QED
    BY <1>4, <2>1, DoneReads, HoldingReads DEF DispatchRead, Waiting, Reads, Op, LogEvent
<1>5. CASE Arrive(t)
  <2>1. ASSUME NEW op \in {"public", "admin"},
               NEW r \in Request \cup {None}, NEW h \in Hash \cup {None}, Submit(t, op, r, h)
        PROVE  Reads(t)
    <3> DEFINE x == [Idle EXCEPT !.op = op, !.request = r, !.hash = h,
                       !.at = IF r # None THEN "request"
                              ELSE IF h # None THEN "hash" ELSE "insert"]
    <3>1. Become(t, x) /\ x.at # "log"
      BY <2>1 DEF Submit, Idle
    <3> HIDE DEF x
    <3> QED
      BY <2>1, <3>1 DEF Submit, IsIdle, Reads
  <2>2. ASSUME NEW j \in Job,
               \/ AdminDispatch(t, j) \/ Ack(t, j)
               \/ \E out \in {"printed", "failed"} : Result(t, j, out)
        PROVE  Reads(t)
    BY <2>2, HoldingReads DEF AdminDispatch, Ack, Result, IsIdle, Reads, Op, LogEvent
  <2> QED
    BY <1>5, <2>1, <2>2 DEF Arrive
<1>6. ASSUME NEW j \in Job, TimerFires(t, j)
      PROVE  Reads(t)
  <2>1. CASE UNCHANGED task
    <3>1. Become(t, task[t])
      BY <2>1 DEF Become, TypeOK
    <3> QED
      BY <1>6, <3>1 DEF TimerFires, IsIdle, Reads
  <2>2. CASE \E out \in {"retried", "failed"} : Become(t, Holding("timeout", "write", j, out))
    BY <1>6, <2>2, HoldingReads DEF TimerFires, IsIdle, Reads, Op, LogEvent
  <2> QED
    BY <1>6, <2>1, <2>2 DEF TimerFires
<1> QED
  BY <1>1, <1>2, <1>3, <1>4, <1>5, <1>6

\* It writes its row and goes on to record it.
Writes(t) ==
    /\ task[t].at = "write" /\ task[t].job \in Job /\ Exists(task[t].job)
    /\ task[t].out \in OutcomesOf(task[t].op)
    /\ \E x : Become(t, x) /\ x.at = "log" /\ x.op = task[t].op /\ x.job = task[t].job
                           /\ x.out = task[t].out
    /\ \E s : status' = [status EXCEPT ![task[t].job] = s]
    /\ UNCHANGED logs

LEMMA WriteSteps ==
    ASSUME TypeOK, NEW t \in Task,
           DispatchWrite(t) \/ AckWrite(t) \/ ResultWrite(t) \/ TimeoutWrite(t)
    PROVE  /\ Writes(t)
           /\ status'[task[t].job] \in {"sent", "processing", "printed", "failed", "retrying"}
           /\ Explains(status'[task[t].job]) = task[t].out
<1> DEFINE x == [task[t] EXCEPT !.at = "log"]
<1>1. /\ task[t].at = "write" /\ Exists(task[t].job) /\ UNCHANGED logs /\ Become(t, x)
      /\ \E s : status' = [status EXCEPT ![task[t].job] = s]
  BY DEF DispatchWrite, AckWrite, ResultWrite, TimeoutWrite, Waiting, Goto
<1>2. task[t].job \in Job /\ task[t].out \in OutcomesOf(task[t].op)
  BY <1>1 DEF TypeOK
<1>3. x.at = "log" /\ x.op = task[t].op /\ x.job = task[t].job /\ x.out = task[t].out
  BY GotoFields
<1> HIDE DEF x
<1>4. Writes(t)
  BY <1>1, <1>2, <1>3 DEF Writes
<1>5. /\ status'[task[t].job] \in {"sent", "processing", "printed", "failed", "retrying"}
      /\ Explains(status'[task[t].job]) = task[t].out
  <2>1. CASE DispatchWrite(t)
    BY <1>2, <2>1 DEF DispatchWrite, Waiting, OutcomesOf, Explains, TypeOK
  <2>2. CASE AckWrite(t)
    BY <1>2, <2>2 DEF AckWrite, Waiting, OutcomesOf, Explains, TypeOK
  <2>3. CASE ResultWrite(t)
    BY <1>2, <2>3 DEF ResultWrite, Waiting, OutcomesOf, Explains, TypeOK
  <2>4. CASE TimeoutWrite(t)
    BY <1>2, <2>4 DEF TimeoutWrite, Waiting, OutcomesOf, NextStatus, Explains, TypeOK
  <2> QED
    BY <2>1, <2>2, <2>3, <2>4
<1> QED
  BY <1>4, <1>5

\* It records its event and ends.
Records(t) ==
    /\ task[t].at = "log" /\ task[t].job \in Job /\ task[t].out \in LogEvent
    /\ Record(t) /\ Done(t) /\ UNCHANGED row

LEMMA RecordSteps ==
    ASSUME TypeOK, NEW t \in Task, DispatchLog(t) \/ HandlerLog(t)
    PROVE  Records(t)
<1>1. task[t].at = "log" /\ Record(t) /\ Done(t) /\ UNCHANGED row
  BY DEF DispatchLog, HandlerLog, Waiting
<1>2. task[t].job \in Job /\ task[t].out \in LogEvent
  BY <1>1, OutcomeType DEF TypeOK, TaskState
<1> QED
  BY <1>1, <1>2 DEF Records

\* A handler that found its row deleted ends.
Drops(t) ==
    /\ task[t].at \in {"write", "log"} /\ ~Exists(task[t].job)
    /\ Done(t) /\ UNCHANGED <<row, logs>>

\* What a step may be.
LEMMA StepKinds ==
    ASSUME TypeOK, [Next]_vars
    PROVE  \/ \E t \in Task : Reads(t)
           \/ \E t \in Task, j \in Job, s \in AdminStatus \cup {"queued"},
                 p \in BOOLEAN, b \in RetryBudget : Insert(t, j, s, p, b)
           \/ \E t \in Task :
                 DispatchWrite(t) \/ AckWrite(t) \/ ResultWrite(t) \/ TimeoutWrite(t)
           \/ \E t \in Task : Records(t)
           \/ \E t \in Task : Drops(t)
           \/ \E j \in Job : Patched(j) \/ RemoveJob(j)
           \/ Fail
           \/ UNCHANGED vars
<1>2. \A t \in Task : DispatchLog(t) \/ HandlerLog(t) => Records(t)
  BY RecordSteps
<1>3. \A t \in Task : RowMissing(t) => Drops(t)
  BY DEF RowMissing, Drops
<1>4. \A t \in Task : \/ FindByRequest(t) \/ FindByHash(t) \/ InsertRejected(t)
                      \/ DispatchRead(t) \/ Arrive(t) \/ \E j \in Job : TimerFires(t, j)
                     => Reads(t)
  BY ReadSteps
<1>5. CASE \E t \in Task : Resume(t)
  BY <1>2, <1>3, <1>4, <1>5 DEF Resume
<1>6. CASE \E t \in Task : Arrive(t) \/ \E j \in Job : TimerFires(t, j)
  BY <1>4, <1>6
<1>7. CASE Operate
  BY <1>7 DEF Operate
<1> QED
  BY <1>5, <1>6, <1>7 DEF Next

LEMMA FailIsAFault == Faults = {} => ~Fail
BY DEF Fail, Crash, DbError, TimerLost

-----------------------------------------------------------------------------
(* What is recorded, or about to be, stays so while the row lives.         *)

Noted(j, e) ==
    \/ logs[j][e] > 0
    \/ \E t \in Task : task[t].at = "log" /\ task[t].job = j /\ task[t].out = e

LEMMA NotedStep ==
    ASSUME TypeOK, Faults = {}, [Next]_vars, NEW j \in Job, NEW e \in LogEvent,
           Noted(j, e), Exists(j), status'[j] # "deleted"
    PROVE  Noted(j, e)'
<1>1. ASSUME NEW t \in Task, NEW x, Become(t, x), UNCHANGED logs,
             ~(task[t].at = "log" /\ task[t].job = j /\ task[t].out = e)
                \/ (x.at = "log" /\ x.job = j /\ x.out = e)
      PROVE  Noted(j, e)'
  <2>1. \A u \in Task : task'[u] = IF u = t THEN x ELSE task[u]
    BY <1>1 DEF Become, TypeOK
  <2> QED
    BY <1>1, <2>1 DEF Noted
<1>2. ASSUME NEW t \in Task, Reads(t)
      PROVE  Noted(j, e)'
  BY <1>1, <1>2 DEF Reads
<1>3. ASSUME NEW t \in Task, NEW i \in Job, NEW s \in AdminStatus \cup {"queued"},
             NEW p \in BOOLEAN, NEW b \in RetryBudget, Insert(t, i, s, p, b)
      PROVE  Noted(j, e)'
  <2>1. task[t].at = "insert" /\ UNCHANGED logs /\ \E x : Become(t, x)
    BY <1>3, AnswerReads DEF Insert
  <2> QED
    BY <1>1, <2>1
<1>4. ASSUME NEW t \in Task, DispatchWrite(t) \/ AckWrite(t) \/ ResultWrite(t) \/ TimeoutWrite(t)
      PROVE  Noted(j, e)'
  <2>1. Writes(t)
    BY <1>4, WriteSteps
  <2> QED
    BY <1>1, <2>1 DEF Writes
<1>5. ASSUME NEW t \in Task, Records(t)
      PROVE  Noted(j, e)'
  <2>1. /\ logs \in [Job -> [LogEvent -> Nat]] /\ task[t].job \in Job /\ task[t].out \in LogEvent
        /\ Record(t)
    BY <1>5 DEF Records, TypeOK
  <2>2. logs[j][e] > 0 => logs'[j][e] > 0
    BY <2>1 DEF Record
  <2>3. task[t].job = j /\ task[t].out = e => logs'[j][e] > 0
    BY <2>1 DEF Record
  <2>4. \A u \in Task : u # t => task'[u] = task[u]
    BY <1>5 DEF Records, Done, Become, TypeOK
  <2> QED
    BY <2>2, <2>3, <2>4 DEF Noted
<1>6. ASSUME NEW t \in Task, Drops(t)
      PROVE  Noted(j, e)'
  <2>1. Become(t, Idle) /\ UNCHANGED logs /\ task[t].job # j
    BY <1>6 DEF Drops, Done
  <2> QED
    BY <1>1, <2>1
<1>7. ASSUME NEW i \in Job, Patched(i)
      PROVE  Noted(j, e)'
  BY <1>7, AdminStatusOK DEF Patched, PatchJob, Noted
<1>8. ASSUME NEW i \in Job, RemoveJob(i)
      PROVE  Noted(j, e)'
  <2>1. i # j
    BY <1>8 DEF RemoveJob, TypeOK
  <2> QED
    BY <1>8, <2>1 DEF RemoveJob, Noted, TypeOK
<1>9. CASE UNCHANGED vars
  BY <1>9 DEF vars, Noted
<1> QED
  BY StepKinds, FailIsAFault, <1>2, <1>3, <1>4, <1>5, <1>6, <1>7, <1>8, <1>9

-----------------------------------------------------------------------------
(* A status is explained.                                                  *)

WrittenStatus == {"sent", "processing", "printed", "failed", "retrying"}

LEMMA ExplainsType == \A s \in WrittenStatus : Explains(s) \in LogEvent /\ s \in JobStatus
BY DEF WrittenStatus, Explains, LogEvent, JobStatus

LEMMA ExplainedStep == TypeOK /\ StatusExplained /\ [Next]_vars => StatusExplained'
<1> SUFFICES ASSUME TypeOK, StatusExplained, [Next]_vars, Faults = {}, NEW k \in Job,
                    status'[k] \in WrittenStatus \ AdminStatus
             PROVE  Noted(k, Explains(status[k]))'
  BY DEF StatusExplained, Noted, WrittenStatus
<1>1. ASSUME status'[k] = status[k]
      PROVE  Noted(k, Explains(status[k]))'
  <2> DEFINE e == Explains(status[k])
  <2>1. e \in LogEvent /\ Exists(k) /\ status'[k] # "deleted"
    BY <1>1, ExplainsType DEF Exists, WrittenStatus
  <2>2. Noted(k, e)
    BY <1>1 DEF StatusExplained, Noted, WrittenStatus
  <2>3. PICK f \in LogEvent : f = e
    BY <2>1
  <2>4. Noted(k, f)'
    BY <2>1, <2>2, <2>3, NotedStep
  <2> QED
    BY <1>1, <2>3, <2>4 DEF Noted
<1>2. ASSUME NEW t \in Task,
             DispatchWrite(t) \/ AckWrite(t) \/ ResultWrite(t) \/ TimeoutWrite(t)
      PROVE  Noted(k, Explains(status[k]))'
  <2>1. Writes(t) /\ Explains(status'[task[t].job]) = task[t].out
    BY <1>2, WriteSteps
  <2>2. CASE task[t].job = k
    <3>1. PICK x : Become(t, x) /\ x.at = "log" /\ x.job = k /\ x.out = Explains(status'[k])
      BY <2>1, <2>2 DEF Writes
    <3>2. task'[t] = x
      BY <3>1 DEF Become, TypeOK
    <3> QED
      BY <3>1, <3>2 DEF Noted
  <2>3. CASE task[t].job # k
    <3>1. status'[k] = status[k]
      BY <2>1, <2>3 DEF Writes, TypeOK
    <3> QED
      BY <1>1, <3>1
  <2> QED
    BY <2>2, <2>3
<1>3. ASSUME NEW t \in Task, NEW i \in Job, NEW s \in AdminStatus \cup {"queued"},
             NEW p \in BOOLEAN, NEW b \in RetryBudget, Insert(t, i, s, p, b)
      PROVE  status'[k] = status[k]
  BY <1>3 DEF Insert, TypeOK, WrittenStatus
<1>4. ASSUME NEW i \in Job, Patched(i)
      PROVE  status'[k] = status[k]
  BY <1>4, AdminStatusOK DEF Patched, PatchJob, TypeOK
<1>5. ASSUME NEW i \in Job, RemoveJob(i)
      PROVE  status'[k] = status[k]
  BY <1>5 DEF RemoveJob, TypeOK, WrittenStatus
<1>6. ASSUME NEW t \in Task, Reads(t) \/ Records(t) \/ Drops(t)
      PROVE  status'[k] = status[k]
  BY <1>6 DEF Reads, Records, Drops, row
<1>7. CASE UNCHANGED vars
  BY <1>1, <1>7 DEF vars
<1> QED
  BY StepKinds, FailIsAFault, <1>1, <1>2, <1>3, <1>4, <1>5, <1>6, <1>7

\* While nothing fails, a status no operator wrote has its event in the audit
\* trail, or the handler that wrote it is about to add it.
THEOREM StatusExplainedHolds == Spec => []StatusExplained
<1>1. Init => StatusExplained
  BY DEF Init, StatusExplained
<1> QED
  BY <1>1, ExplainedStep, TypeCorrect, PTL DEF Spec

-----------------------------------------------------------------------------
(* The monitor overlooks only what was answered.                           *)

\* processedAt is set only with an answer or a final timeout.
ProcessedNoted ==
    Faults = {} => \A k \in processed :
        Exists(k) /\ (Noted(k, "printed") \/ Noted(k, "failed"))

LEMMA ProcessedStep == TypeOK /\ ProcessedNoted /\ [Next]_vars => ProcessedNoted'
<1> SUFFICES ASSUME TypeOK, ProcessedNoted, [Next]_vars, Faults = {}, NEW k \in processed'
             PROVE  Exists(k)' /\ (Noted(k, "printed")' \/ Noted(k, "failed")')
  BY DEF ProcessedNoted
<1>1. ASSUME k \in processed, Exists(k)'
      PROVE  Noted(k, "printed")' \/ Noted(k, "failed")'
  <2>1. k \in Job /\ Exists(k) /\ (Noted(k, "printed") \/ Noted(k, "failed"))
    BY <1>1 DEF ProcessedNoted, TypeOK
  <2>2. status'[k] # "deleted" /\ "printed" \in LogEvent /\ "failed" \in LogEvent
    BY <1>1 DEF Exists, JobStatus, LogEvent
  <2> QED
    BY <2>1, <2>2, NotedStep
<1>2. ASSUME processed' = processed, status' = status
      PROVE  Exists(k)' /\ (Noted(k, "printed")' \/ Noted(k, "failed")')
  BY <1>1, <1>2 DEF ProcessedNoted, Exists
<1>3. ASSUME NEW t \in Task,
             DispatchWrite(t) \/ AckWrite(t) \/ ResultWrite(t) \/ TimeoutWrite(t)
      PROVE  Exists(k)' /\ (Noted(k, "printed")' \/ Noted(k, "failed")')
  <2>1. /\ Writes(t)
        /\ status'[task[t].job] \in {"sent", "processing", "printed", "failed", "retrying"}
    BY <1>3, WriteSteps
  <2>2. CASE k \in processed
    <3>1. Exists(k)'
      BY <2>1, <2>2 DEF Writes, ProcessedNoted, Exists, TypeOK, JobStatus
    <3> QED
      BY <1>1, <2>2, <3>1
  <2>3. CASE k \notin processed
    <3>1. k = task[t].job /\ task[t].out \in {"printed", "failed"}
      BY <1>3, <2>1, <2>3
      DEF DispatchWrite, AckWrite, ResultWrite, TimeoutWrite, Waiting, Closed, Writes, OutcomesOf
    <3>2. PICK x : Become(t, x) /\ x.at = "log" /\ x.job = k /\ x.out = task[t].out
      BY <2>1, <3>1 DEF Writes
    <3>3. task'[t] = x
      BY <3>2 DEF Become, TypeOK
    <3>4. Noted(k, "printed")' \/ Noted(k, "failed")'
      BY <3>1, <3>2, <3>3 DEF Noted
    <3> QED
      BY <2>1, <3>1, <3>4 DEF Exists, JobStatus
  <2> QED
    BY <2>2, <2>3
<1>4. ASSUME NEW t \in Task, NEW i \in Job, NEW s \in AdminStatus \cup {"queued"},
             NEW p \in BOOLEAN, NEW b \in RetryBudget, Insert(t, i, s, p, b)
      PROVE  Exists(k)' /\ (Noted(k, "printed")' \/ Noted(k, "failed")')
  <2>1. k \in processed /\ Exists(k)
    BY <1>4 DEF Insert, ProcessedNoted
  <2>2. status'[k] = status[k]
    BY <1>4, <2>1 DEF Insert, Exists, JobStatus, TypeOK
  <2> QED
    BY <1>1, <2>1, <2>2 DEF Exists
<1>5. ASSUME NEW i \in Job, Patched(i)
      PROVE  Exists(k)' /\ (Noted(k, "printed")' \/ Noted(k, "failed")')
  <2>1. k \in processed /\ Exists(k)
    BY <1>5, AdminStatusOK DEF Patched, PatchJob, ProcessedNoted
  <2>2. status'[k] \in JobStatus
    BY <1>5, <2>1, AdminStatusOK DEF Patched, PatchJob, Exists, TypeOK
  <2> QED
    BY <1>1, <2>1, <2>2 DEF Exists
<1>6. ASSUME NEW i \in Job, RemoveJob(i)
      PROVE  Exists(k)' /\ (Noted(k, "printed")' \/ Noted(k, "failed")')
  <2>1. k \in processed /\ Exists(k) /\ k # i
    BY <1>6 DEF RemoveJob, ProcessedNoted
  <2>2. status'[k] = status[k]
    BY <1>6, <2>1 DEF RemoveJob, TypeOK
  <2> QED
    BY <1>1, <2>1, <2>2 DEF Exists
<1>7. ASSUME NEW t \in Task, Reads(t) \/ Records(t) \/ Drops(t)
      PROVE  processed' = processed /\ status' = status
  BY <1>7 DEF Reads, Records, Drops, row
<1>8. CASE UNCHANGED vars
  BY <1>2, <1>8 DEF vars
<1> QED
  BY StepKinds, FailIsAFault, <1>2, <1>3, <1>4, <1>5, <1>6, <1>7, <1>8

\* While nothing fails, a job in flight that the monitor would not report was
\* answered, or given up, before.
THEOREM StuckIsMonitoredHolds == Spec => []StuckIsMonitored
<1>1. Init => ProcessedNoted
  BY DEF Init, ProcessedNoted
<1>2. ProcessedNoted => StuckIsMonitored
  BY DEF ProcessedNoted, StuckIsMonitored, StaleInFlight, Answered, Noted
<1> QED
  BY <1>1, <1>2, ProcessedStep, TypeCorrect, PTL DEF Spec

-----------------------------------------------------------------------------
(* Every dispatch is recorded.                                             *)

Sender(x, k) == x.op = "dispatch" /\ x.at = "log" /\ x.job = k

Senders(k) == InFlight("dispatch", {"log"}, k)

\* Every log row, and every dispatch about to write one, is an attempt that
\* was counted; unless something fails, and only then, one may lack its row.
AuditedAt(k) ==
    /\ status[k] = "absent" => attempts[k] = 0
    /\ status[k] # "deleted" =>
          /\ logs[k]["sent_to_printer"] + Cardinality(Senders(k)) <= attempts[k]
          /\ Faults = {} =>
                attempts[k] = logs[k]["sent_to_printer"] + Cardinality(Senders(k))

Audited == \A k \in Job : AuditedAt(k)

LEMMA SenderCount == ASSUME NEW k \in Job PROVE Cardinality(Senders(k)) \in Nat
<1>1. Senders(k) \subseteq Task
  BY DEF Senders, InFlight
<1> QED
  BY <1>1, FiniteTasks, FS_Subset, FS_CardinalityType

\* How the number of dispatches at their log row moves when t becomes x.
LEMMA SenderStep ==
    ASSUME TypeOK, NEW k \in Job, NEW t \in Task, NEW x, Become(t, x)
    PROVE  Cardinality(Senders(k))' = Cardinality(Senders(k))
                 - Bit(Sender(task[t], k)) + Bit(Sender(x, k))
<1>1. \A u \in Task : task'[u] = IF u = t THEN x ELSE task[u]
  BY DEF Become, TypeOK
<1>2. Senders(k) \in SUBSET Task /\ Senders(k)' \in SUBSET Task
  BY DEF Senders, InFlight
<1>3. \A u \in Task : u # t => (u \in Senders(k) <=> u \in Senders(k)')
  BY <1>1 DEF Senders, InFlight
<1>4. (t \in Senders(k) <=> Sender(task[t], k)) /\ (t \in Senders(k)' <=> Sender(x, k))
  BY <1>1 DEF Senders, InFlight, Sender
<1>5. Cardinality(Senders(k)') = Cardinality(Senders(k))
          - Bit(t \in Senders(k)) + Bit(t \in Senders(k)')
  BY <1>2, <1>3, CountOne
<1> QED
  BY <1>4, <1>5 DEF Bit

\* A slot that is a sender of k neither before nor after moves nothing.
LEMMA SenderFrame ==
    ASSUME TypeOK, NEW k \in Job, AuditedAt(k), NEW t \in Task, NEW x, Become(t, x),
           ~Sender(task[t], k), ~Sender(x, k),
           attempts'[k] = attempts[k], logs'[k] = logs[k],
           status'[k] = "absent" => status[k] = "absent",
           status[k] = "deleted" => status'[k] = "deleted"
    PROVE  AuditedAt(k)'
BY SenderStep, SenderCount DEF AuditedAt, Bit

\* A handler that fails leaves at most a counted attempt without its row.
LEMMA AuditedFail ==
    ASSUME TypeOK, NEW k \in Job, AuditedAt(k), Fail
    PROVE  AuditedAt(k)'
<1>0. Faults # {} /\ UNCHANGED <<row, logs>>
  BY FailIsAFault DEF Fail, Crash, DbError, TimerLost
<1>1. Cardinality(Senders(k))' <= Cardinality(Senders(k))
  <2>1. Senders(k)' \subseteq Senders(k)
    <3>1. \A u \in Task : task'[u] = task[u] \/ task'[u] = Idle
      BY DEF Fail, Crash, DbError, TimerLost, Done, Become, TypeOK
    <3> QED
      BY <3>1, IdleType DEF Senders, InFlight
  <2>2. IsFiniteSet(Senders(k))
    BY FiniteTasks, FS_Subset DEF Senders, InFlight
  <2> QED
    BY <2>1, <2>2, FS_Subset
<1>2. Cardinality(Senders(k))' \in Nat
  <2>1. Senders(k)' \subseteq Task
    BY DEF Senders, InFlight
  <2> QED
    BY <2>1, FiniteTasks, FS_Subset, FS_CardinalityType
<1>3. attempts[k] \in Nat /\ logs[k]["sent_to_printer"] \in Nat
  BY DEF TypeOK, LogEvent
<1> QED
  BY <1>0, <1>1, <1>2, <1>3, SenderCount DEF AuditedAt, row

LEMMA AuditedWrite ==
    ASSUME TypeOK, NEW k \in Job, AuditedAt(k), NEW t \in Task,
           DispatchWrite(t) \/ AckWrite(t) \/ ResultWrite(t) \/ TimeoutWrite(t)
    PROVE  AuditedAt(k)'
<1>1. /\ Writes(t)
      /\ status'[task[t].job] \in {"sent", "processing", "printed", "failed", "retrying"}
  BY WriteSteps
<1>2. PICK x : Become(t, x) /\ x.at = "log" /\ x.op = task[t].op /\ x.job = task[t].job
  BY <1>1 DEF Writes
<1>3. ~Sender(task[t], k)
  BY <1>1 DEF Writes, Sender
<1>4. /\ logs' = logs
      /\ status'[k] = "absent" => status[k] = "absent"
      /\ status[k] = "deleted" => status'[k] = "deleted"
  BY <1>1 DEF Writes, Exists, JobStatus, TypeOK
<1>5. CASE DispatchWrite(t) /\ task[t].job = k
  <2>1. attempts'[k] = attempts[k] + 1 /\ Sender(x, k) /\ status'[k] # "absent"
    BY <1>2, <1>5 DEF DispatchWrite, Waiting, Sender, TypeOK
  <2>2. Cardinality(Senders(k))' = Cardinality(Senders(k)) + 1
    BY <1>2, <1>3, <2>1, SenderStep, SenderCount DEF Bit
  <2>3. attempts[k] \in Nat /\ logs[k]["sent_to_printer"] \in Nat
    BY DEF TypeOK, LogEvent
  <2> QED
    BY <1>4, <2>1, <2>2, <2>3, SenderCount DEF AuditedAt
<1>6. CASE ~(DispatchWrite(t) /\ task[t].job = k)
  <2>1. ~Sender(x, k)
    BY <1>2, <1>6 DEF Sender, AckWrite, ResultWrite, TimeoutWrite, Waiting
  <2>2. attempts'[k] = attempts[k]
    BY <1>1, <1>6 DEF DispatchWrite, AckWrite, ResultWrite, TimeoutWrite, TypeOK
  <2> QED
    BY <1>2, <1>3, <1>4, <2>1, <2>2, SenderFrame
<1> QED
  BY <1>5, <1>6

LEMMA AuditedRecord ==
    ASSUME TypeOK, NEW k \in Job, AuditedAt(k), NEW t \in Task, Records(t)
    PROVE  AuditedAt(k)'
<1>1. /\ Become(t, Idle) /\ Record(t) /\ status' = status /\ attempts' = attempts
      /\ task[t].at = "log" /\ task[t].job \in Job /\ task[t].out \in OutcomesOf(task[t].op)
      /\ ~Sender(Idle, k)
  BY IdleType DEF Records, Done, row, TypeOK, Sender
<1>2. attempts[k] \in Nat /\ logs[k]["sent_to_printer"] \in Nat
  BY DEF TypeOK, LogEvent
<1>3. CASE Sender(task[t], k)
  <2>1. task[t].job = k /\ task[t].out = "sent_to_printer"
    BY <1>1, <1>3 DEF Sender, OutcomesOf
  <2>2. logs'[k]["sent_to_printer"] = logs[k]["sent_to_printer"] + 1
    BY <1>1, <2>1 DEF Record, Counted, LogEvent, TypeOK
  <2>3. Cardinality(Senders(k))' = Cardinality(Senders(k)) - 1
    BY <1>1, <1>3, SenderStep, SenderCount DEF Bit
  <2> QED
    BY <1>1, <1>2, <2>2, <2>3, SenderCount DEF AuditedAt
<1>4. CASE ~Sender(task[t], k)
  <2>1. task[t].job # k \/ task[t].out # "sent_to_printer"
    BY <1>1, <1>4 DEF Sender, OutcomesOf, TypeOK, TaskState, Op
  <2>2. logs'[k]["sent_to_printer"] = logs[k]["sent_to_printer"]
    BY <1>1, <2>1 DEF Record, LogEvent, TypeOK
  <2>3. Cardinality(Senders(k))' = Cardinality(Senders(k))
    BY <1>1, <1>4, SenderStep, SenderCount DEF Bit
  <2> QED
    BY <1>1, <2>2, <2>3 DEF AuditedAt
<1> QED
  BY <1>3, <1>4

LEMMA AuditedDrop ==
    ASSUME TypeOK, NEW k \in Job, AuditedAt(k), NEW t \in Task, Drops(t)
    PROVE  AuditedAt(k)'
<1>1. /\ Become(t, Idle) /\ ~Sender(Idle, k)
      /\ status' = status /\ attempts' = attempts /\ logs' = logs
  BY IdleType DEF Drops, Done, row, Sender
<1>2. CASE ~Sender(task[t], k)
  BY <1>1, <1>2, SenderFrame
<1>3. CASE Sender(task[t], k)
  <2>1. status[k] \in {"absent", "deleted"}
    BY <1>3 DEF Drops, Sender, Exists, TypeOK
  <2>2. status[k] # "absent"
    <3>1. Cardinality(Senders(k))' = Cardinality(Senders(k)) - 1
      BY <1>1, <1>3, SenderStep, SenderCount DEF Bit
    <3>2. Cardinality(Senders(k))' \in Nat
      <4>1. Senders(k)' \subseteq Task
        BY DEF Senders, InFlight
      <4> QED
        BY <4>1, FiniteTasks, FS_Subset, FS_CardinalityType
    <3>3. logs[k]["sent_to_printer"] \in Nat
      BY DEF TypeOK, LogEvent
    <3> QED
      BY <3>1, <3>2, <3>3, SenderCount DEF AuditedAt
  <2> QED
    BY <1>1, <2>1, <2>2 DEF AuditedAt
<1> QED
  BY <1>2, <1>3

LEMMA AuditedStep == TypeOK /\ Audited /\ [Next]_vars => Audited'
<1> SUFFICES ASSUME TypeOK, [Next]_vars, NEW k \in Job, AuditedAt(k)
             PROVE  AuditedAt(k)'
  BY DEF Audited
<1>1. ASSUME NEW t \in Task, Reads(t)
      PROVE  AuditedAt(k)'
  <2>1. PICK x : Become(t, x) /\ x.at # "log"
    BY <1>1 DEF Reads
  <2>2. ~Sender(task[t], k) /\ ~Sender(x, k)
    BY <1>1, <2>1 DEF Reads, Sender
  <2> QED
    BY <1>1, <2>1, <2>2, SenderFrame DEF Reads, row
<1>2. ASSUME NEW t \in Task, NEW i \in Job, NEW s \in AdminStatus \cup {"queued"},
             NEW p \in BOOLEAN, NEW b \in RetryBudget, Insert(t, i, s, p, b)
      PROVE  AuditedAt(k)'
  <2>1. PICK x : Become(t, x) /\ x.at # "log"
    BY <1>2, AnswerReads DEF Insert
  <2>2. ~Sender(task[t], k) /\ ~Sender(x, k)
    BY <1>2, <2>1 DEF Insert, Sender
  <2>3. /\ attempts' = attempts /\ logs' = logs
        /\ status'[k] = "absent" => status[k] = "absent"
        /\ status[k] = "deleted" => status'[k] = "deleted"
    BY <1>2 DEF Insert, TypeOK
  <2> QED
    BY <2>1, <2>2, <2>3, SenderFrame
<1>3. ASSUME NEW i \in Job, Patched(i)
      PROVE  AuditedAt(k)'
  <2>1. /\ Senders(k)' = Senders(k) /\ attempts' = attempts /\ logs' = logs
        /\ status'[k] = "absent" => status[k] = "absent"
        /\ status[k] = "deleted" => status'[k] = "deleted"
    BY <1>3, AdminStatusOK DEF Patched, PatchJob, Senders, InFlight, Exists, JobStatus, TypeOK
  <2> QED
    BY <2>1 DEF AuditedAt
<1>4. ASSUME NEW i \in Job, RemoveJob(i)
      PROVE  AuditedAt(k)'
  <2>1. CASE i = k
    BY <1>4, <2>1 DEF RemoveJob, AuditedAt, TypeOK
  <2>2. CASE i # k
    <3>1. /\ Senders(k)' = Senders(k) /\ attempts'[k] = attempts[k] /\ logs'[k] = logs[k]
          /\ status'[k] = status[k]
      BY <1>4, <2>2 DEF RemoveJob, Senders, InFlight, TypeOK
    <3> QED
      BY <3>1 DEF AuditedAt
  <2> QED
    BY <2>1, <2>2
<1>5. CASE UNCHANGED vars
  BY <1>5 DEF vars, AuditedAt, Senders, InFlight
<1> QED
  BY StepKinds, <1>1, <1>2, <1>3, <1>4, <1>5, AuditedWrite, AuditedRecord, AuditedDrop,
     AuditedFail

LEMMA AuditedInit == Init => Audited
<1> SUFFICES ASSUME Init, NEW k \in Job
             PROVE  AuditedAt(k)
  BY DEF Audited
<1>1. Senders(k) = {}
  BY IdleType DEF Init, Senders, InFlight
<1>2. Cardinality(Senders(k)) = 0
  BY <1>1, FS_EmptySet
<1> QED
  BY <1>2 DEF Init, AuditedAt, LogEvent

\* While nothing fails, a job's attempts are its sent_to_printer rows and the
\* dispatches between their update and their row.
THEOREM DispatchesAuditedHolds == Spec => []DispatchesAudited
<1>1. Audited => DispatchesAudited
  BY DEF Audited, AuditedAt, DispatchesAudited, Senders, Exists, JobStatus
<1> QED
  BY <1>1, AuditedInit, AuditedStep, TypeCorrect, PTL DEF Spec

\* The audit trail never claims a dispatch that the row did not count.
NoPhantomDispatch ==
    \A j \in Job : Exists(j) =>
        logs[j]["sent_to_printer"] + Cardinality(InFlight("dispatch", {"log"}, j))
            <= attempts[j]

\* Whatever crashes and whichever database call rejects, at any await of any
\* number of overlapping dispatches: the audit trail may lack the row of an
\* attempt, it never has one too many (PrintJobsService.dispatch).
THEOREM NoPhantomDispatchHolds == Spec => []NoPhantomDispatch
<1>1. Audited => NoPhantomDispatch
  BY DEF Audited, AuditedAt, NoPhantomDispatch, Senders, Exists, JobStatus
<1> QED
  BY <1>1, AuditedInit, AuditedStep, TypeCorrect, PTL DEF Spec

-----------------------------------------------------------------------------
(* The pipeline implements its contract: every step of a handler, an       *)
(* operator or a failure maps to a step of the contract or to a stutter.   *)

Phases == [k \in Job |-> Phase(k)]
RetriesOf == [k \in Job |-> Retried(k)]

\* A step that leaves the other rows alone.
LEMMA PhasesOf ==
    ASSUME NEW j \in Job, \A k \in Job \ {j} : status'[k] = status[k]
    PROVE  Phases' = [Phases EXCEPT ![j] = Phase(j)']
<1>1. \A k \in Job \ {j} : Phase(k)' = Phase(k)
  BY DEF Phase
<1> QED
  BY <1>1 DEF Phases

LEMMA PhaseOf ==
    ASSUME NEW j \in Job
    PROVE  /\ Exists(j) => Phase(j) = IF status[j] = "sent" THEN "awaiting" ELSE "open"
           /\ Exists(j)' => Phase(j)' = IF status'[j] = "sent" THEN "awaiting" ELSE "open"
BY DEF Phase, Exists, JobStatus

LEMMA StutterMaps ==
    ASSUME UNCHANGED <<status, attempts, budget, logs>>
    PROVE  UNCHANGED Contract!vars
BY DEF Contract!vars, Phase

\* A write of a status alone settles what awaited an answer, or is a stutter.
LEMMA StatusMaps ==
    ASSUME TypeOK, NEW j \in Job, NEW s \in JobStatus, Exists(j),
           s = status[j] \/ s # "sent",
           status' = [status EXCEPT ![j] = s], UNCHANGED <<attempts, budget, logs>>
    PROVE  [Contract!Next]_Contract!vars
<1>1. status'[j] = s /\ \A k \in Job \ {j} : status'[k] = status[k]
  BY DEF TypeOK
<1>2. CASE s = status[j]
  BY <1>2, StutterMaps DEF TypeOK
<1>3. CASE s # "sent"
  <2>1. Phase(j)' = "open" /\ Phases' = [Phases EXCEPT ![j] = "open"]
    BY <1>1, <1>3, PhaseOf, PhasesOf DEF Exists
  <2>2. CASE status[j] = "sent"
    <3>1. Phase(j) = "awaiting"
      BY <2>2, PhaseOf
    <3>2. Contract!Settle(j)
      BY <2>1, <3>1 DEF Contract!Settle, Phases
    <3> QED
      BY <3>2 DEF Contract!Next
  <2>3. CASE status[j] # "sent"
    <3>1. Phases' = Phases
      BY <2>1, <2>3, PhaseOf DEF Phases
    <3> QED
      BY <3>1 DEF Contract!vars, Phases
  <2> QED
    BY <2>2, <2>3
<1> QED
  BY <1>2, <1>3

LEMMA InsertMaps ==
    ASSUME TypeOK, "sent" \notin AdminStatus, NEW t \in Task, NEW j \in Job,
           NEW s \in AdminStatus \cup {"queued"}, NEW p \in BOOLEAN,
           NEW b \in RetryBudget, Insert(t, j, s, p, b)
    PROVE  Contract!Next
<1>1. /\ status[j] = "absent" /\ status' = [status EXCEPT ![j] = s]
      /\ budget' = [budget EXCEPT ![j] = b] /\ UNCHANGED <<attempts, logs>>
  BY DEF Insert
<1>2. status'[j] = s /\ \A k \in Job \ {j} : status'[k] = status[k]
  BY <1>1 DEF TypeOK
<1>3. s \in JobStatus /\ s # "sent"
  BY AdminStatusOK DEF JobStatus
<1>4. Phase(j) = "none" /\ Phase(j)' = "open"
  BY <1>1, <1>2, <1>3, PhaseOf DEF Phase, Exists
<1>5. Phases' = [Phases EXCEPT ![j] = "open"]
  BY <1>2, <1>4, PhasesOf
<1>6. Contract!Accept(j)
  BY <1>1, <1>4, <1>5 DEF Contract!Accept, Phases
<1> QED
  BY <1>6 DEF Contract!Next

LEMMA WriteMaps ==
    ASSUME TypeOK, NEW t \in Task,
           DispatchWrite(t) \/ AckWrite(t) \/ ResultWrite(t) \/ TimeoutWrite(t)
    PROVE  [Contract!Next]_Contract!vars
<1>0. PICK j \in Job : j = task[t].job
  BY WriteSteps DEF Writes
<1>1. Exists(j) /\ j = task[t].job /\ task[t].out \in OutcomesOf(task[t].op)
  BY <1>0, WriteSteps DEF Writes
<1>2. CASE DispatchWrite(t)
  <2>1. /\ status'[j] = "sent" /\ \A k \in Job \ {j} : status'[k] = status[k]
        /\ attempts' = [attempts EXCEPT ![j] = @ + 1] /\ UNCHANGED <<budget, logs>>
    BY <1>1, <1>2 DEF DispatchWrite, TypeOK
  <2>2. Phase(j) \in {"open", "awaiting"} /\ Phase(j)' = "awaiting"
    BY <1>1, <2>1, PhaseOf DEF Exists, JobStatus
  <2>3. Phases' = [Phases EXCEPT ![j] = "awaiting"]
    BY <1>1, <2>1, <2>2, PhasesOf
  <2>4. Contract!Send(j)
    BY <1>1, <2>1, <2>2, <2>3 DEF Contract!Send, Contract!Live, Phases
  <2> QED
    BY <1>1, <2>4 DEF Contract!Next
<1>3. ASSUME NEW s \in {"processing", "printed", "failed", "retrying"},
             status' = [status EXCEPT ![j] = s], UNCHANGED <<attempts, budget, logs>>
      PROVE  [Contract!Next]_Contract!vars
  BY <1>1, <1>3, StatusMaps DEF JobStatus
<1>4. CASE AckWrite(t)
  BY <1>1, <1>3, <1>4 DEF AckWrite
<1>5. CASE ResultWrite(t)
  BY <1>1, <1>3, <1>5 DEF ResultWrite, Waiting, OutcomesOf
<1>6. CASE TimeoutWrite(t)
  BY <1>1, <1>3, <1>6 DEF TimeoutWrite, NextStatus
<1> QED
  BY <1>2, <1>4, <1>5, <1>6

\* The log row of a granted retry: there was a send for it and a retry left.
LEMMA RecordMaps ==
    ASSUME TypeOK, RetryInv, NEW t \in Task, DispatchLog(t) \/ HandlerLog(t)
    PROVE  [Contract!Next]_Contract!vars
<1>0. PICK j \in Job : j = task[t].job
  BY RecordSteps DEF Records
<1>1. /\ Exists(j) /\ j = task[t].job /\ task[t].at = "log" /\ task[t].out \in LogEvent
      /\ Record(t) /\ UNCHANGED row
  BY <1>0, RecordSteps DEF Records, DispatchLog, HandlerLog
<1>2. task[t].out \in OutcomesOf(task[t].op)
  BY <1>1 DEF TypeOK
<1>3. logs \in [Job -> [LogEvent -> Nat]] /\ "retried" \in LogEvent
  BY DEF TypeOK, LogEvent
<1>4. CASE task[t].out # "retried"
  <2>1. RetriesOf' = RetriesOf
    BY <1>1, <1>3, <1>4 DEF Record, RetriesOf, Retried
  <2> QED
    BY <1>1, <2>1 DEF Contract!vars, RetriesOf, Retried, Phase, row
<1>5. CASE task[t].out = "retried"
  <2>1. RetriesOf' = [RetriesOf EXCEPT ![j] = @ + 1]
    BY <1>1, <1>3, <1>5 DEF Record, RetriesOf, Retried, Counted
  <2>2. Carrier(task[t], j) /\ Decider(task[t], j)
    BY <1>1, <1>2, <1>5 DEF Carrier, Decider, OutcomesOf
  <2>3. Cardinality(Carriers(j)) >= 1 /\ Cardinality(Deciders(j)) >= 1
    <3>1. t \in Carriers(j) /\ t \in Deciders(j)
      BY <2>2 DEF Carriers, Deciders
    <3>2. IsFiniteSet(Carriers(j)) /\ IsFiniteSet(Deciders(j))
      BY FiniteTasks, FS_Subset DEF Carriers, Deciders
    <3> QED
      BY <1>1, <3>1, <3>2, FS_EmptySet, CountType
  <2>4. /\ status[j] # "deleted"
        /\ attempts[j] \in Nat /\ budget[j] \in Nat /\ timers[j] \in Nat /\ Retried(j) \in Nat
    BY <1>1, <1>3 DEF TypeOK, Exists, JobStatus, Retried
  <2>5. Retried(j) < budget[j] /\ Retried(j) < attempts[j]
    BY <1>1, <2>3, <2>4, CountType DEF RetryInv, RetryInvAt
  <2>6. Phase(j) \in {"open", "awaiting"}
    BY <1>1, PhaseOf
  <2>7. Contract!Grant(j)
    BY <1>1, <2>1, <2>5, <2>6 DEF Contract!Grant, Contract!Live, RetriesOf, Retried, Phase, row
  <2> QED
    BY <1>1, <2>7 DEF Contract!Next
<1> QED
  BY <1>4, <1>5

LEMMA RemoveMaps ==
    ASSUME TypeOK, NEW j \in Job, RemoveJob(j)
    PROVE  Contract!Next
<1>1. /\ Exists(j) /\ status'[j] = "deleted" /\ \A k \in Job \ {j} : status'[k] = status[k]
      /\ attempts' = [attempts EXCEPT ![j] = 0] /\ budget' = [budget EXCEPT ![j] = 0]
  BY DEF RemoveJob, TypeOK
<1>2. RetriesOf' = [RetriesOf EXCEPT ![j] = 0]
  BY DEF RemoveJob, RetriesOf, Retried, LogEvent, TypeOK
<1>3. Phase(j) \in {"open", "awaiting"} /\ Phase(j)' = "gone"
  BY <1>1, PhaseOf DEF Phase
<1>4. Phases' = [Phases EXCEPT ![j] = "gone"]
  BY <1>1, <1>3, PhasesOf
<1>5. Contract!Withdraw(j)
  BY <1>1, <1>2, <1>3, <1>4 DEF Contract!Withdraw, Contract!Live, Phases, RetriesOf, Retried
<1> QED
  BY <1>5 DEF Contract!Next

LEMMA ContractStep ==
    TypeOK /\ RetryInv /\ "sent" \notin AdminStatus /\ [Next]_vars
        => [Contract!Next]_Contract!vars
<1> SUFFICES ASSUME TypeOK, RetryInv, "sent" \notin AdminStatus, [Next]_vars
             PROVE  [Contract!Next]_Contract!vars
  OBVIOUS
<1>1. CASE UNCHANGED <<row, logs>>
  BY <1>1, StutterMaps DEF row
<1>2. ASSUME NEW t \in Task, Resume(t) PROVE [Contract!Next]_Contract!vars
  <2>1. FindByRequest(t) \/ FindByHash(t) \/ InsertRejected(t) \/ DispatchRead(t) \/ RowMissing(t)
            => UNCHANGED <<row, logs>>
    BY DEF FindByRequest, FindByHash, InsertRejected, DispatchRead, RowMissing
  <2> QED
    BY <1>1, <1>2, <2>1, InsertMaps, WriteMaps, RecordMaps DEF Resume
<1>3. ASSUME NEW t \in Task, Arrive(t) \/ (\E j \in Job : TimerFires(t, j))
      PROVE  [Contract!Next]_Contract!vars
  BY <1>1, <1>3 DEF Arrive, Submit, AdminDispatch, Ack, Result, TimerFires
<1>4. CASE Operate
  <2>1. ASSUME NEW j \in Job, Patched(j)
        PROVE  [Contract!Next]_Contract!vars
    <3>1. PICK s \in AdminStatus \cup {status[j]}, p \in BOOLEAN,
               r \in Request \cup {None}, h \in Hash \cup {None} : PatchJob(j, s, p, r, h)
      BY <2>1 DEF Patched
    <3>2. /\ s \in JobStatus
          /\ s = "sent" => status[j] = "sent"
          /\ Exists(j)
          /\ status' = [status EXCEPT ![j] = s]
          /\ UNCHANGED <<attempts, budget, logs>>
      BY <3>1, AdminStatusOK DEF PatchJob, Exists
    <3> QED
      BY <3>2, StatusMaps
  <2> QED
    BY <1>4, <2>1, RemoveMaps DEF Operate
<1>5. CASE Fail
  BY <1>1, <1>5 DEF Fail, Crash, DbError, TimerLost
<1>6. CASE UNCHANGED vars
  BY <1>1, <1>6 DEF vars, row
<1> QED
  BY <1>2, <1>3, <1>4, <1>5, <1>6 DEF Next

\* Whatever fails and however handlers interleave, the pipeline keeps the safety
\* part of its contract, as long as operators do not write the status 'sent':
\* retries are granted within the allowance and only for sends that were made
\* (PrintJobsService.dispatch, scheduleAckTimeout).
THEOREM ImplementsContract == "sent" \notin AdminStatus => (Spec => Contract!SafeSpec)
<1>1. Init => Contract!Init
  BY DEF Init, Contract!Init, Phase, LogEvent
<1>2. Spec => []RetryInv
  <2>1. Init => RetryInv
    BY RetryInit
  <2> QED
    BY <2>1, RetryStep, TypeCorrect, PTL DEF Spec
<1>3. CASE "sent" \notin AdminStatus
  <2>1. TypeOK /\ RetryInv /\ [Next]_vars => [Contract!Next]_Contract!vars
    BY <1>3, ContractStep
  <2> QED
    BY <1>1, <1>2, <2>1, TypeCorrect, PTL DEF Spec, Contract!SafeSpec
<1> QED
  BY <1>3
=============================================================================
