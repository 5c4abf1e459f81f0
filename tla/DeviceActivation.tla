--------------------------- MODULE DeviceActivation ----------------------------
(***************************************************************************)
(* What administrators see of the activation requests of DeviceAuth: the   *)
(* cached list of pending requests (listPendingDeviceActivations), its     *)
(* invalidation by a SCAN after every request and every approval, and the  *)
(* bootstrap of the first administrator, without whom nobody reads or      *)
(* approves.                                                               *)
(*                                                                         *)
(* Only the activation handlers of DeviceAuth run here.  Time is abstract: *)
(* an entry of Redis may expire at any moment after it is set.             *)
(***************************************************************************)
EXTENDS DeviceAuth, Naturals

CONSTANTS
    View,        \* the lists that are cached: a tenant, or all, and a limit
                 \*   (limits are no smaller than the number of requests)
    Reader       \* slots for list requests in flight (bound)

VARIABLES
    outer,       \* outer[t]: where handler t waits outside the steps of DeviceAuth
    scan,        \* scan[t]: views its SCAN has not come to yet
    found,       \* found[t]: keys its SCAN returned and it is about to DEL
    list,        \* list[v]: cache:auth:device:activation:pending:<v>, or NoList
    reader,      \* reader[r]: the request in slot r and the list it read (late, not
                 \*   stored: a request changed since)
    excused,     \* views whose list was stored late or whose DEL was lost (not
                 \*   stored: the properties need it)
    admins,      \* number of rows of admin_users
    raced        \* two bootstraps were in flight at once (not stored)

cleaning == <<outer, scan, found>>
lists == <<list, reader, excused>>
bootstrap == <<admins, raced>>
activationVars == <<vars, cleaning, lists, bootstrap>>

NoList == [some |-> FALSE, requests |-> {}]
List(as) == [some |-> TRUE, requests |-> as]
IdleReader == [at |-> "idle", view |-> None, requests |-> {}, late |-> FALSE]

ActivationInit ==
    /\ Init
    /\ outer = [t \in Task |-> "idle"]
    /\ scan = [t \in Task |-> {}]
    /\ found = [t \in Task |-> {}]
    /\ list = [v \in View |-> NoList]
    /\ reader = [r \in Reader |-> IdleReader]
    /\ excused = {}
    /\ admins = 0
    /\ raced = FALSE

Unreachable == "redis" \in Faults
Resting(t) == task[t].at = "idle" /\ outer[t] = "idle"
Outside(t, at) == outer' = [outer EXCEPT ![t] = at]

-----------------------------------------------------------------------------
(* The steps of DeviceAuth, and what comes before and after them.          *)

\* A change of the requests makes the lists in readers' hands late.
Overtaken ==
    reader' = [r \in Reader |->
                  [reader[r] EXCEPT !.late = @ \/ (reader[r].at = "store"
                                                   /\ activation' # activation)]]

RequestByClient(t) ==
    /\ Resting(t)
    /\ RequestActivation(t)
    /\ Overtaken
    /\ UNCHANGED <<cleaning, list, excused, bootstrap>>

ApproveByAdmin(t, a) ==
    /\ Resting(t)
    /\ admins > 0
    /\ Approve(t, a)
    /\ UNCHANGED <<cleaning, lists, bootstrap>>

KeyStep(t) ==
    /\ SupersedeKeys(t) \/ \E k \in Key : InsertKey(t, k)
    /\ UNCHANGED <<cleaning, lists, bootstrap>>

\* The last write of a request or an approval; the invalidation follows.
LastWrite(t) ==
    /\ MarkApproved(t) \/ \E a \in Activation : CreateActivation(t, a)
    /\ Outside(t, "scan")
    /\ scan' = [scan EXCEPT ![t] = View]
    /\ Overtaken
    /\ UNCHANGED <<found, list, excused, bootstrap>>

-----------------------------------------------------------------------------
(* invalidatePendingActivations: delByPattern.                             *)

Cached(vs) == {v \in vs : list[v].some}

\* Variant: the loop ends with the first batch that returns a key.
FirstBatchOnly(t, batch) == IF Cached(batch) # {} THEN {} ELSE scan[t] \ batch

\* What the cursor has left to scan.
Remaining(t, batch) == scan[t] \ batch

\* One SCAN: some of the keys that the cursor has not passed.
ScanBatch(t) ==
    /\ outer[t] = "scan"
    /\ \E batch \in SUBSET scan[t] \ {{}} :
          /\ scan' = [scan EXCEPT ![t] = Remaining(t, batch)]
          /\ found' = [found EXCEPT ![t] = Cached(batch)]
          /\ Outside(t, IF Cached(batch) # {} THEN "del"
                        ELSE IF Remaining(t, batch) # {} THEN "scan" ELSE "idle")
    /\ UNCHANGED <<vars, lists, bootstrap>>

\* Variant: only the entry's mark is cleared.
KeepRequests(v) == [list[v] EXCEPT !.some = FALSE]

\* What a DEL leaves of the list of v.
Deleted(v) == NoList

\* DEL of the keys found, whatever they hold by now.
DelBatch(t) ==
    /\ outer[t] = "del"
    /\ list' = [v \in View |-> IF v \in found[t] THEN Deleted(v) ELSE list[v]]
    /\ excused' = excused \ found[t]
    /\ found' = [found EXCEPT ![t] = {}]
    /\ Outside(t, IF scan[t] # {} THEN "scan" ELSE "idle")
    /\ UNCHANGED <<vars, scan, reader, bootstrap>>

\* The lists that a handler which changed the requests has yet to delete.
Covered(t) == IF Waiting(t, "request", "create") THEN View ELSE scan[t] \cup found[t]

\* The given handlers end without deleting them.
GiveUp(tasks) == excused' = excused \cup Cached(UNION {Covered(t) : t \in tasks})

\* Redis cannot be reached, or rejects a command of the loop.
CleaningFails(t) ==
    /\ Unreachable
    /\ outer[t] \in {"scan", "del"}
    /\ Outside(t, "idle")
    /\ scan' = [scan EXCEPT ![t] = {}]
    /\ found' = [found EXCEPT ![t] = {}]
    /\ GiveUp({t})
    /\ UNCHANGED <<vars, list, reader, bootstrap>>

-----------------------------------------------------------------------------
(* listPendingDeviceActivations.                                           *)

Reading(r, at, v, as) ==
    reader' = [reader EXCEPT ![r] = [IdleReader EXCEPT !.at = at, !.view = v,
                                                      !.requests = as]]

\* A cached list, even an empty one, is the answer.
ListPending(r, v) ==
    /\ admins > 0
    /\ reader[r].at = "idle"
    /\ ~list[v].some \/ Unreachable
    /\ Reading(r, "read", v, {})
    /\ UNCHANGED <<vars, cleaning, list, excused, bootstrap>>

Pending == {a \in Activation : activation[a] = "pending" /\ a \notin overdue}

FindPending(r) ==
    /\ reader[r].at = "read"
    /\ Reading(r, "store", reader[r].view, Pending)
    /\ UNCHANGED <<vars, cleaning, list, excused, bootstrap>>

StorePending(r) ==
    LET v == reader[r].view IN
    /\ reader[r].at = "store"
    /\ \/ /\ list' = [list EXCEPT ![v] = List(reader[r].requests)]
          /\ excused' = IF reader[r].late THEN excused \cup {v} ELSE excused \ {v}
       \/ Unreachable /\ UNCHANGED <<list, excused>>
    /\ reader' = [reader EXCEPT ![r] = IdleReader]
    /\ UNCHANGED <<vars, cleaning, bootstrap>>

\* setJson with a time to live of ten seconds.
ExpireList(v) ==
    /\ list[v].some
    /\ list' = [list EXCEPT ![v] = NoList]
    /\ excused' = excused \ {v}
    /\ UNCHANGED <<vars, cleaning, reader, bootstrap>>

-----------------------------------------------------------------------------
(* registerInitialAdmin, with the bootstrap token.                         *)

\* Variant: the count is not looked at.
AlwaysOpen == TRUE

BootstrapOpen == admins = 0

Register(t) ==
    /\ Resting(t)
    /\ BootstrapOpen
    /\ Outside(t, "register")
    /\ raced' = (raced \/ \E u \in Task : outer[u] = "register")
    /\ UNCHANGED <<vars, scan, found, lists, admins>>

\* An e-mail that is there already is rejected.
InsertAdmin(t) ==
    /\ outer[t] = "register"
    /\ admins' = admins + 1 \/ (admins > 0 /\ UNCHANGED admins)
    /\ Outside(t, "idle")
    /\ UNCHANGED <<vars, scan, found, lists, raced>>

-----------------------------------------------------------------------------
Overdue ==
    /\ \E a \in Activation : ActivationOverdue(a)
    /\ UNCHANGED <<cleaning, lists, bootstrap>>

\* A database call rejects and the handler ends where it is.
HandlerFails(t) ==
    /\ \/ DbError(t) /\ UNCHANGED outer
       \/ /\ "db" \in Faults
          /\ outer[t] = "register"
          /\ Outside(t, "idle")
          /\ UNCHANGED vars
    /\ GiveUp({t})
    /\ UNCHANGED <<scan, found, list, reader, bootstrap>>

CrashAll ==
    /\ Crash
    /\ outer' = [t \in Task |-> "idle"]
    /\ scan' = [t \in Task |-> {}]
    /\ found' = [t \in Task |-> {}]
    /\ reader' = [r \in Reader |-> IdleReader]
    /\ GiveUp(Task)
    /\ UNCHANGED <<list, admins, raced>>

ActivationNext ==
    \/ \E t \in Task :
          \/ RequestByClient(t)
          \/ \E a \in Activation : ApproveByAdmin(t, a)
          \/ KeyStep(t)
          \/ LastWrite(t)
          \/ ScanBatch(t)
          \/ DelBatch(t)
          \/ CleaningFails(t)
          \/ Register(t)
          \/ InsertAdmin(t)
          \/ HandlerFails(t)
    \/ \E r \in Reader :
          \/ \E v \in View : ListPending(r, v)
          \/ FindPending(r)
          \/ StorePending(r)
    \/ \E v \in View : ExpireList(v)
    \/ Overdue
    \/ CrashAll

ActivationSpec == ActivationInit /\ [][ActivationNext]_activationVars

-----------------------------------------------------------------------------
(* Properties.                                                             *)

\* Every variable has its type, and only a list that is there has an excuse.
ActivationTypeOK ==
    /\ TypeOK
    /\ outer \in [Task -> {"idle", "register", "scan", "del"}]
    /\ scan \in [Task -> SUBSET View]
    /\ found \in [Task -> SUBSET View]
    /\ list \in [View -> {NoList} \cup {List(as) : as \in SUBSET Activation}]
    /\ reader \in [Reader -> [at : {"idle", "read", "store"},
                             view : View \cup {None},
                             requests : SUBSET Activation, late : BOOLEAN]]
    /\ excused \subseteq Cached(View)
    /\ admins \in Nat
    /\ raced \in BOOLEAN

\* What an administrator is shown from the cache is what is pending, up to
\* requests that have lapsed since, unless a handler that changed the requests
\* has still to delete this list.  Two things excuse a stale list: a request
\* changed between its reading and its storing, or its handler never came to
\* delete it.  In particular SCAN loses no list to readers that store lists
\* while it runs.
PendingListIsFresh ==
    \A v \in View : list[v].some =>
        \/ list[v].requests \ overdue = Pending
        \/ \E t \in Task : v \in Covered(t)
        \/ v \in excused

\* The bootstrap makes one administrator
\* (docs/ficha-tecnica/03-contratos-http.md:7), unless two ran at once.
OneInitialAdmin == raced \/ admins <= 1
=============================================================================
