---------------------------- MODULE DeviceIdentity -----------------------------
(***************************************************************************)
(* How a client finds its row in print_devices.  Three entry points do it: *)
(* the activation request, the WebSocket's print.device.present and the    *)
(* HTTP helper.  Each looks for the MAC address, then for the identifier,  *)
(* and inserts a row when it finds none; each read and write is a          *)
(* statement of its own.  They differ in what they write to a row that is  *)
(* there: nothing, a missing MAC address, or both columns.                 *)
(*                                                                         *)
(* A machine has one MAC address and an installation, a client on it, one  *)
(* identifier, which it keeps: Machine and Installation stand for them.    *)
(* Both come from the client and nothing compares them: an identifier may  *)
(* travel to another machine with a copied disk, and a network adapter may *)
(* be moved, so a call may carry any MAC address with any identifier.      *)
(* One tenant: every statement is confined to the caller's.                *)
(***************************************************************************)
EXTENDS FiniteSets

CONSTANTS
    Device,        \* primary keys of print_devices (bound)
    Installation,  \* identifiers
    Machine,       \* MAC addresses
    MachineOf,     \* MachineOf[i]: the machine installation i was made on
    Task,          \* slots for handlers in flight (bound)
    None           \* no row, identifier or MAC address

ASSUME MachineOfInstallations == MachineOf \in [Installation -> Machine]
ASSUME NoneIsNothing == None \notin Device \cup Installation \cup Machine

VARIABLES
    ident,      \* ident[d]: the identifier column, or None: there is no row d
    mac,        \* mac[d]: the macAddress column
    task,       \* task[t]: the handler in slot t and where it waits
    home,       \* home[i]: the first row that i was given, while it is there
    moved,      \* installations that were given another row than their home
    shy,        \* machines that called without their MAC address
    mixed,      \* machines whose identifier or MAC address came in a call with
                \*   that of another machine
    overlapped  \* machines of which two calls were in flight at once
                \* (the last five are not stored: the properties need them)

vars == <<ident, mac, task, home, moved, shy, mixed, overlapped>>
rows == <<ident, mac>>
noted == <<home, moved, shy, mixed, overlapped>>

-----------------------------------------------------------------------------
Entry == {"activation", "socket", "http"}
Stage == {"idle", "byMac", "byIdentifier", "create", "backfill", "rewrite", "answer"}

Idle == [entry |-> "none", at |-> "idle", from |-> None, mac |-> None, row |-> None]

TaskState == [entry : Entry \cup {"none"}, at : Stage,
              from : Installation \cup {None}, mac : Machine \cup {None},
              row : Device \cup {None}]

Goto(t, at) == task' = [task EXCEPT ![t].at = at]
Done(t) == task' = [task EXCEPT ![t] = Idle]

Exists(d) == ident[d] # None
Calls(m) == {t \in Task : task[t].at # "idle" /\ MachineOf[task[t].from] = m}

Init ==
    /\ ident = [d \in Device |-> None]
    /\ mac = [d \in Device |-> None]
    /\ task = [t \in Task |-> Idle]
    /\ home = [i \in Installation |-> None]
    /\ moved = {}
    /\ shy = {}
    /\ mixed = {}
    /\ overlapped = {}

-----------------------------------------------------------------------------
\* What normalizeMacAddress makes of what a client sends; it makes nothing of
\* a missing or a malformed address.
Normalized == Machine \cup {None}

\* The HTTP helper rejects a call without a MAC address.
Call(t, entry, i, m) ==
    /\ task[t].at = "idle"
    /\ entry = "http" => m # None
    /\ task' = [task EXCEPT ![t] =
                   [Idle EXCEPT !.entry = entry, !.from = i, !.mac = m,
                       !.at = IF m = None THEN "byIdentifier" ELSE "byMac"]]
    /\ shy' = IF m = None THEN shy \cup {MachineOf[i]} ELSE shy
    /\ mixed' = IF m \in {None, MachineOf[i]} THEN mixed ELSE mixed \cup {m, MachineOf[i]}
    /\ overlapped' = IF Calls(MachineOf[i]) # {} THEN overlapped \cup {MachineOf[i]}
                     ELSE overlapped
    /\ UNCHANGED <<rows, home, moved>>

\* Variant: the MAC address of the call is not looked at.
LacksMac(t, d) == mac[d] = None

\* A socket presents a row that has no MAC address, and has one to give.
Completes(t, d) == mac[d] = None /\ task[t].mac # None

\* What each entry point does next with row d, as it was read.
Found(t, d) ==
    LET at == CASE task[t].entry = "http" -> "rewrite"
                [] task[t].entry = "socket" /\ Completes(t, d) -> "backfill"
                [] OTHER -> "answer"
    IN task' = [task EXCEPT ![t].row = d, ![t].at = at]

\* Variant: the rows without a MAC address are found by any other.
WithMacOrNone(m) == {d \in Device : Exists(d) /\ mac[d] \in {m, None}}

\* findFirst without an order: any of them.
WithMac(m) == {d \in Device : Exists(d) /\ mac[d] = m}

FindByMac(t) ==
    /\ task[t].at = "byMac"
    /\ \/ \E d \in WithMac(task[t].mac) : Found(t, d)
       \/ WithMac(task[t].mac) = {} /\ Goto(t, "byIdentifier")
    /\ UNCHANGED <<rows, noted>>

WithIdentifier(i) == {d \in Device : ident[d] = i}

FindByIdentifier(t) ==
    /\ task[t].at = "byIdentifier"
    /\ \/ \E d \in WithIdentifier(task[t].from) : Found(t, d)
       \/ WithIdentifier(task[t].from) = {} /\ Goto(t, "create")
    /\ UNCHANGED <<rows, noted>>

\* Variant: no index.
NeverTaken(i, d) == FALSE

\* The unique index on tenantId and identifier; there is none on macAddress.
Taken(i, d) == \E e \in Device \ {d} : ident[e] = i

\* Variant: the MAC address is left for a later call.
NoMac(t) == None

\* The MAC address of a new row.
NewMac(t) == task[t].mac

CreateRow(t, d) ==
    /\ task[t].at = "create"
    /\ ~Exists(d)
    /\ \A u \in Task : task[u].row # d  \* keys are never generated twice
    /\ ~Taken(task[t].from, d)
    /\ ident' = [ident EXCEPT ![d] = task[t].from]
    /\ mac' = [mac EXCEPT ![d] = NewMac(t)]
    /\ task' = [task EXCEPT ![t].row = d,
                   ![t].at = IF task[t].entry = "http" THEN "rewrite" ELSE "answer"]
    /\ UNCHANGED noted

CreateRejected(t) ==
    /\ task[t].at = "create"
    /\ WithIdentifier(task[t].from) # {}
    /\ Done(t)
    /\ UNCHANGED <<rows, noted>>

\* print.device.present, for a row that it read without a MAC address.
Backfill(t) ==
    /\ task[t].at = "backfill"
    /\ Exists(task[t].row)
    /\ mac' = [mac EXCEPT ![task[t].row] = task[t].mac]
    /\ Goto(t, "answer")
    /\ UNCHANGED <<ident, noted>>

\* Row d goes to the client as its identity.
Given(i, d) ==
    /\ home' = [home EXCEPT ![i] = IF home[i] = None THEN d ELSE home[i]]
    /\ moved' = IF home[i] \in {None, d} THEN moved ELSE moved \cup {i}
    /\ UNCHANGED <<shy, mixed, overlapped>>

\* presentForTenant writes both columns of the row it found.
Rewrite(t) ==
    LET d == task[t].row
        i == task[t].from IN
    /\ task[t].at = "rewrite"
    /\ Exists(d)
    /\ ~Taken(i, d)
    /\ ident' = [ident EXCEPT ![d] = i]
    /\ mac' = [mac EXCEPT ![d] = task[t].mac]
    /\ Given(i, d)
    /\ Done(t)

RewriteRejected(t) ==
    /\ task[t].at = "rewrite"
    /\ Exists(task[t].row)
    /\ Taken(task[t].from, task[t].row)
    /\ Done(t)
    /\ UNCHANGED <<rows, noted>>

\* The socket's update of the status, or the insert of an activation request,
\* which refers to the row.
Answer(t) ==
    /\ task[t].at = "answer"
    /\ Exists(task[t].row)
    /\ Given(task[t].from, task[t].row)
    /\ Done(t)
    /\ UNCHANGED rows

\* The row is gone and the statement is rejected.
RowMissing(t) ==
    /\ task[t].at \in {"backfill", "rewrite", "answer"}
    /\ ~Exists(task[t].row)
    /\ Done(t)
    /\ UNCHANGED <<rows, noted>>

\* DELETE /print-devices/:id.
RemoveDevice(d) ==
    /\ Exists(d)
    /\ ident' = [ident EXCEPT ![d] = None]
    /\ mac' = [mac EXCEPT ![d] = None]
    /\ home' = [i \in Installation |-> IF home[i] = d THEN None ELSE home[i]]
    /\ UNCHANGED <<task, moved, shy, mixed, overlapped>>

\* A database call rejects, or the process stops.
HandlerFails(t) ==
    /\ task[t].at # "idle"
    /\ Done(t)
    /\ UNCHANGED <<rows, noted>>

Next ==
    \/ \E t \in Task :
          \/ \E entry \in Entry, i \in Installation, m \in Normalized :
                Call(t, entry, i, m)
          \/ FindByMac(t)
          \/ FindByIdentifier(t)
          \/ \E d \in Device : CreateRow(t, d)
          \/ CreateRejected(t)
          \/ Backfill(t)
          \/ Rewrite(t)
          \/ RewriteRejected(t)
          \/ Answer(t)
          \/ RowMissing(t)
          \/ HandlerFails(t)
    \/ \E d \in Device : RemoveDevice(d)

Spec == Init /\ [][Next]_vars

-----------------------------------------------------------------------------
(* Properties.                                                             *)

\* Every variable has its type, a row without an identifier has no MAC address,
\* and a handler past the lookups has a row.
TypeOK ==
    /\ ident \in [Device -> Installation \cup {None}]
    /\ mac \in [Device -> Machine \cup {None}]
    /\ task \in [Task -> TaskState]
    /\ home \in [Installation -> Device \cup {None}]
    /\ moved \subseteq Installation
    /\ shy \subseteq Machine
    /\ mixed \subseteq Machine
    /\ overlapped \subseteq Machine
    /\ \A d \in Device : mac[d] # None => Exists(d)
    /\ \A t \in Task :
          /\ task[t].at # "idle" => task[t].from \in Installation
          /\ task[t].at \in {"byMac", "backfill", "rewrite"} =>
                 task[t].mac # None
          /\ task[t].at \in {"backfill", "rewrite", "answer"} => task[t].row \in Device

Alone(i) == \A j \in Installation : MachineOf[j] = MachineOf[i] => j = i

\* The machine always sends its MAC address and never two calls at once.
Orderly(m) == m \notin shy \cup overlapped

\* The same machine, as far as calls have told them apart.
Same(m, n) == m = n \/ (m \in mixed /\ n \in mixed)

\* A machine of which no call was mixed with another's shares no row: a row's
\* columns agree, and no entry point hands it to a client of another machine,
\* whatever overlapped or failed.  (Machines that a call did mix may share one
\* from then on: the code looks the MAC address up first and does not compare
\* the row's identifier with the call's.)
StrangersApart ==
    /\ \A d \in Device : mac[d] # None => Same(mac[d], MachineOf[ident[d]])
    /\ \A t \in Task :
          task[t].row # None /\ Exists(task[t].row) =>
              Same(MachineOf[ident[task[t].row]], MachineOf[task[t].from])

\* A MAC address is in one row, although no index says so: two rows take calls
\* of two installations at once, or a call that mixes two machines.
OneRowPerMac ==
    \A d, e \in Device :
        mac[d] = mac[e] /\ mac[d] # None /\ d # e =>
            \/ mac[d] \in mixed
            \/ /\ mac[d] \in overlapped
               /\ \E i \in Installation : MachineOf[i] = mac[d] /\ ~Alone(i)

\* The lookups of installation i may go astray: its machine was mixed with
\* another, or it has a second installation and is not orderly.
Astray(i) ==
    \/ MachineOf[i] \in mixed
    \/ ~Alone(i) /\ ~Orderly(MachineOf[i])

\* An installation keeps the row it was given first, its canonical identity
\* (docs/ficha-tecnica/11-presentacion-y-resolucion-de-nombre.md:5), through
\* every entry point, unless it may go astray.
IdentityIsCanonical == \A i \in moved : Astray(i)

\* The HTTP helper can always write the row it found, under the same condition:
\* no other row holds its identifier.
HelperIsAccepted ==
    \A t \in Task :
        task[t].at = "rewrite" /\ Exists(task[t].row) /\ Taken(task[t].from, task[t].row)
            => Astray(task[t].from)
=============================================================================
