------------------------- MODULE DeviceIdentityProofs --------------------------
(***************************************************************************)
(* Proofs about DeviceIdentity, for any number of rows, handlers,          *)
(* installations and machines.                                             *)
(*                                                                         *)
(* The inductive invariant says of every row whose it is (RowsOK), of      *)
(* every call what it may hold and has seen (CallsOK), and of the homes    *)
(* that they are rows of the right machine (HomesOK).  The heart of it is  *)
(* what a call has seen: while a machine's calls do not overlap, and none  *)
(* mixed it with another machine, a call that is past the look-up of its   *)
(* MAC address and found nothing can rely on it, so its insert or its      *)
(* backfill makes the only row of that MAC.                                *)
(***************************************************************************)
EXTENDS DeviceIdentity, TLAPS

\* The variables have their types.
Typed ==
    /\ ident \in [Device -> Installation \cup {None}]
    /\ mac \in [Device -> Machine \cup {None}]
    /\ task \in [Task -> TaskState]
    /\ home \in [Installation -> Device \cup {None}]
    /\ moved \subseteq Installation
    /\ shy \subseteq Machine
    /\ mixed \subseteq Machine
    /\ overlapped \subseteq Machine

\* A row's columns agree, an identifier is in one row, and a MAC address in
\* one row unless calls overlapped or mixed it; machines that are not mixed and
\* always send their MAC address have it in every row.
RowsOK ==
    /\ \A d \in Device : mac[d] # None => Exists(d) /\ Same(mac[d], MachineOf[ident[d]])
    /\ \A d, e \in Device : Exists(d) /\ ident[d] = ident[e] => d = e
    /\ \A d, e \in Device :
          mac[d] # None /\ mac[d] = mac[e] /\ mac[d] \notin overlapped \cup mixed => d = e
    /\ \A d \in Device :
          Exists(d) /\ MachineOf[ident[d]] \notin shy \cup mixed => mac[d] = MachineOf[ident[d]]

\* A call's arguments and its row are its own.
CallOK(c) ==
    /\ c.at # "idle" =>
          /\ c.from \in Installation
          /\ c.mac # None => Same(c.mac, MachineOf[c.from])
          /\ MachineOf[c.from] \notin shy \/ c.entry = "http" => c.mac # None
    /\ c.at \in {"byMac", "backfill", "rewrite"} => c.mac # None
    /\ c.at \in {"backfill", "rewrite", "answer"} => c.row \in Device
    /\ c.row # None /\ Exists(c.row) => Same(MachineOf[ident[c.row]], MachineOf[c.from])

\* What a call knows of the rows with its MAC address.
SeenOK(c) ==
    c.at # "idle" /\ c.mac # None /\ c.mac \notin overlapped \cup mixed =>
        /\ c.at \in {"byIdentifier", "create", "backfill"} => WithMac(c.mac) = {}
        /\ c.at = "rewrite" => WithMac(c.mac) \subseteq {c.row}

\* The calls of a machine do not overlap unless it is noted.
AloneOK ==
    \A t, u \in Task :
        /\ task[t].at # "idle" /\ task[u].at # "idle"
        /\ MachineOf[task[t].from] = MachineOf[task[u].from]
        /\ MachineOf[task[t].from] \notin overlapped
        => t = u

CallsOK == (\A t \in Task : CallOK(task[t]) /\ SeenOK(task[t])) /\ AloneOK

HomesOK ==
    /\ \A i \in Installation : home[i] # None =>
          Exists(home[i]) /\ Same(MachineOf[ident[home[i]]], MachineOf[i])
    /\ IdentityIsCanonical

IInv == Typed /\ RowsOK /\ CallsOK /\ HomesOK

\* Same, an equality up to mixed machines, is looked through in every proof.
USE DEF Same

-----------------------------------------------------------------------------
(* What the steps do to the handlers.                                      *)

\* Handler t waits at at, with the row r; the others are where they were.
MovedTo(t, at, r) ==
    /\ task' \in [Task -> TaskState]
    /\ task'[t].entry = task[t].entry
    /\ task'[t].at = at
    /\ task'[t].from = task[t].from
    /\ task'[t].mac = task[t].mac
    /\ task'[t].row = r
    /\ \A u \in Task \ {t} : task'[u] = task[u]

LEMMA GotoMoves ==
    ASSUME Typed, NEW t \in Task, NEW at \in Stage, Goto(t, at)
    PROVE  MovedTo(t, at, task[t].row)
<1> DEFINE c == [task[t] EXCEPT !.at = at]
<1>1. task[t] \in TaskState
  BY DEF Typed
<1>2. /\ c \in TaskState
      /\ c.entry = task[t].entry /\ c.at = at /\ c.from = task[t].from
      /\ c.mac = task[t].mac /\ c.row = task[t].row
  BY <1>1 DEF TaskState
<1>3. task' = [task EXCEPT ![t] = c]
  BY DEF Goto
<1> HIDE DEF c
<1> QED
  BY <1>2, <1>3 DEF MovedTo, Typed

LEMMA RowMoves ==
    ASSUME Typed, NEW t \in Task, NEW at \in Stage, NEW d \in Device,
           task' = [task EXCEPT ![t].row = d, ![t].at = at]
    PROVE  MovedTo(t, at, d)
<1> DEFINE c == [[task[t] EXCEPT !.row = d] EXCEPT !.at = at]
<1>1. task[t] \in TaskState
  BY DEF Typed
<1>2. /\ c \in TaskState
      /\ c.entry = task[t].entry /\ c.at = at /\ c.from = task[t].from
      /\ c.mac = task[t].mac /\ c.row = d
  BY <1>1 DEF TaskState
<1>3. task' = [task EXCEPT ![t] = c]
  BY DEF Typed
<1> HIDE DEF c
<1> QED
  BY <1>2, <1>3 DEF MovedTo, Typed

LEMMA IdleFacts ==
    Idle \in TaskState /\ Idle.at = "idle" /\ Idle.row = None
BY DEF Idle, TaskState, Stage

\* Handler t ends.
Ended(t) ==
    /\ task' \in [Task -> TaskState]
    /\ task'[t].at = "idle" /\ task'[t].row = None
    /\ \A u \in Task \ {t} : task'[u] = task[u]

LEMMA DoneEnds ==
    ASSUME Typed, NEW t \in Task, Done(t)
    PROVE  Ended(t)
BY IdleFacts DEF Typed, Done, Ended

-----------------------------------------------------------------------------
(* Steps that change one handler only.                                     *)

LEMMA HandlerOnly ==
    ASSUME IInv, NEW t \in Task, UNCHANGED <<rows, noted>>,
           task' \in [Task -> TaskState], \A u \in Task \ {t} : task'[u] = task[u],
           task'[t].at # "idle" => task[t].at # "idle" /\ task'[t].from = task[t].from,
           CallOK(task[t])', SeenOK(task[t])'
    PROVE  IInv'
<1> USE DEF rows, noted
<1>1. Typed'
  BY DEF IInv, Typed
<1>2. RowsOK'
  BY DEF IInv, RowsOK, Exists
<1>3. HomesOK'
  BY DEF IInv, HomesOK, IdentityIsCanonical, Astray, Orderly, Alone, Exists
<1>4. ASSUME NEW u \in Task
      PROVE  (CallOK(task[u]) /\ SeenOK(task[u]))'
  <2>1. CASE u = t
    BY <2>1
  <2>2. CASE u # t
    <3>1. task'[u] = task[u] /\ CallOK(task[u]) /\ SeenOK(task[u])
      BY <2>2 DEF IInv, CallsOK
    <3>2. CallOK(task[u])'
      BY <3>1 DEF CallOK, Exists
    <3>3. SeenOK(task[u])'
      BY <3>1 DEF SeenOK, WithMac, Exists
    <3> QED
      BY <3>2, <3>3
  <2> QED
    BY <2>1, <2>2
<1>5. AloneOK'
  BY DEF IInv, CallsOK, AloneOK
<1> QED
  BY <1>1, <1>2, <1>3, <1>4, <1>5 DEF IInv, CallsOK

\* An insert that is rejected, a row that is gone, a failure.
LEMMA EndStep ==
    ASSUME IInv, NEW t \in Task, Done(t), UNCHANGED <<rows, noted>>
    PROVE  IInv'
<1>1. Ended(t)
  BY DoneEnds DEF IInv
<1>2. CallOK(task[t])' /\ SeenOK(task[t])'
  BY <1>1 DEF Ended, CallOK, SeenOK
<1> QED
  BY <1>1, <1>2, HandlerOnly DEF Ended

LEMMA FindByMacStep ==
    ASSUME IInv, NEW t \in Task, FindByMac(t)
    PROVE  IInv'
<1>0. /\ task[t] \in TaskState /\ task[t].at = "byMac"
      /\ CallOK(task[t]) /\ UNCHANGED <<rows, noted>>
  BY DEF FindByMac, IInv, Typed, CallsOK
<1>1. ASSUME NEW d \in WithMac(task[t].mac), Found(t, d)
      PROVE  IInv'
  <2> DEFINE at == CASE task[t].entry = "http" -> "rewrite"
                     [] task[t].entry = "socket" /\ Completes(t, d) -> "backfill"
                     [] OTHER -> "answer"
  <2>1. d \in Device /\ Exists(d) /\ mac[d] = task[t].mac /\ mac[d] # None
    BY <1>0, <1>1 DEF WithMac, CallOK
  <2>2. at \in {"rewrite", "answer"}
    BY <2>1 DEF Completes
  <2>3. MovedTo(t, at, d)
    <3>1. task' = [task EXCEPT ![t].row = d, ![t].at = at]
      BY <1>1 DEF Found
    <3> HIDE DEF at
    <3> QED
      BY <2>1, <2>2, <3>1, RowMoves DEF IInv, Stage
  <2> HIDE DEF at
  <2>4. /\ Same(MachineOf[ident[d]], task[t].mac)
        /\ Same(task[t].mac, MachineOf[task[t].from])
    BY <1>0, <2>1 DEF IInv, RowsOK, CallOK
  <2>5. CallOK(task[t])'
    BY <1>0, <2>1, <2>2, <2>3, <2>4 DEF MovedTo, CallOK, rows, noted, Exists
  <2>6. SeenOK(task[t])'
    BY <1>0, <2>1, <2>2, <2>3 DEF MovedTo, SeenOK, WithMac, rows, noted, Exists, IInv, RowsOK
  <2> QED
    BY <1>0, <2>2, <2>3, <2>5, <2>6, HandlerOnly DEF MovedTo
<1>2. ASSUME WithMac(task[t].mac) = {}, Goto(t, "byIdentifier")
      PROVE  IInv'
  <2>1. MovedTo(t, "byIdentifier", task[t].row)
    BY <1>2, GotoMoves DEF IInv, Stage
  <2>2. CallOK(task[t])'
    BY <1>0, <2>1 DEF MovedTo, CallOK, rows, noted, Exists
  <2>3. SeenOK(task[t])'
    BY <1>0, <1>2, <2>1 DEF MovedTo, SeenOK, WithMac, rows, noted, Exists
  <2> QED
    BY <1>0, <2>1, <2>2, <2>3, HandlerOnly DEF MovedTo
<1> QED
  BY <1>1, <1>2 DEF FindByMac

LEMMA FindByIdentifierStep ==
    ASSUME IInv, NEW t \in Task, FindByIdentifier(t)
    PROVE  IInv'
<1>0. /\ task[t] \in TaskState /\ task[t].at = "byIdentifier"
      /\ CallOK(task[t]) /\ SeenOK(task[t]) /\ UNCHANGED <<rows, noted>>
  BY DEF FindByIdentifier, IInv, Typed, CallsOK
<1>1. ASSUME NEW d \in WithIdentifier(task[t].from), Found(t, d)
      PROVE  IInv'
  <2> DEFINE at == CASE task[t].entry = "http" -> "rewrite"
                     [] task[t].entry = "socket" /\ Completes(t, d) -> "backfill"
                     [] OTHER -> "answer"
  <2>1. d \in Device /\ ident[d] = task[t].from
    BY <1>1 DEF WithIdentifier
  <2>2. /\ at \in {"rewrite", "answer", "backfill"}
        /\ at = "rewrite" => task[t].entry = "http"
        /\ at = "backfill" => task[t].mac # None
    BY DEF Completes
  <2>3. MovedTo(t, at, d)
    <3>1. task' = [task EXCEPT ![t].row = d, ![t].at = at]
      BY <1>1 DEF Found
    <3> HIDE DEF at
    <3> QED
      BY <2>1, <2>2, <3>1, RowMoves DEF IInv, Stage
  <2> HIDE DEF at
  <2>5. CallOK(task[t])'
    BY <1>0, <2>1, <2>2, <2>3 DEF MovedTo, CallOK, rows, noted, Exists
  <2>6. SeenOK(task[t])'
    BY <1>0, <2>1, <2>2, <2>3 DEF MovedTo, SeenOK, WithMac, rows, noted, Exists
  <2> QED
    BY <1>0, <2>2, <2>3, <2>5, <2>6, HandlerOnly DEF MovedTo
<1>2. ASSUME Goto(t, "create")
      PROVE  IInv'
  <2>1. MovedTo(t, "create", task[t].row)
    BY <1>2, GotoMoves DEF IInv, Stage
  <2>2. CallOK(task[t])'
    BY <1>0, <2>1 DEF MovedTo, CallOK, rows, noted, Exists
  <2>3. SeenOK(task[t])'
    BY <1>0, <1>2, <2>1 DEF MovedTo, SeenOK, WithMac, rows, noted, Exists
  <2> QED
    BY <1>0, <2>1, <2>2, <2>3, HandlerOnly DEF MovedTo
<1> QED
  BY <1>1, <1>2 DEF FindByIdentifier
-----------------------------------------------------------------------------
(* Steps that change rows, or what is noted.                               *)

LEMMA CallStep ==
    ASSUME IInv, NEW t \in Task, NEW entry \in Entry, NEW i \in Installation,
           NEW m \in Machine \cup {None}, Call(t, entry, i, m)
    PROVE  IInv'
<1> DEFINE c == [Idle EXCEPT !.entry = entry, !.from = i, !.mac = m,
                     !.at = IF m = None THEN "byIdentifier" ELSE "byMac"]
<1>1. /\ c \in TaskState
      /\ c.entry = entry /\ c.from = i /\ c.mac = m /\ c.row = None
      /\ c.at = IF m = None THEN "byIdentifier" ELSE "byMac"
  BY DEF Idle, TaskState, Stage, Entry
<1>2. /\ task[t].at = "idle" /\ m \in Machine \cup {None}
      /\ entry = "http" => m # None
      /\ task' = [task EXCEPT ![t] = c]
      /\ UNCHANGED <<rows, home, moved>>
      /\ MachineOf[i] \in Machine
      /\ shy \subseteq shy' /\ (m = None => MachineOf[i] \in shy')
      /\ overlapped \subseteq overlapped'
      /\ mixed \subseteq mixed' /\ mixed' \subseteq Machine \cup mixed
      /\ m # None => Same(m, MachineOf[i])'
      /\ Calls(MachineOf[i]) # {} => MachineOf[i] \in overlapped'
  BY MachineOfInstallations DEF Call, Normalized
<1> HIDE DEF c
<1>3. task' \in [Task -> TaskState] /\ task'[t] = c /\ \A u \in Task \ {t} : task'[u] = task[u]
  BY <1>1, <1>2 DEF IInv, Typed
<1>4. Typed'
  BY <1>2, <1>3 DEF IInv, Typed, Call, rows
<1>5. RowsOK'
  BY <1>2 DEF IInv, RowsOK, rows, Exists
<1>6. HomesOK'
  BY <1>2 DEF IInv, HomesOK, IdentityIsCanonical, Astray, Orderly, Alone, rows, Exists
<1>7. ASSUME NEW u \in Task
      PROVE  (CallOK(task[u]) /\ SeenOK(task[u]))'
  <2>1. CASE u = t
    <3>1. CallOK(c)'
      BY <1>1, <1>2 DEF CallOK
    <3>2. SeenOK(c)'
      BY <1>1 DEF SeenOK
    <3> QED
      BY <1>3, <2>1, <3>1, <3>2
  <2>2. CASE u # t
    <3>1. task'[u] = task[u] /\ CallOK(task[u]) /\ SeenOK(task[u])
      BY <1>3, <2>2 DEF IInv, CallsOK
    <3>2. CallOK(task[u])'
      BY <1>2, <3>1 DEF CallOK, Exists, rows
    <3>3. SeenOK(task[u])'
      BY <1>2, <3>1 DEF SeenOK, WithMac, Exists, rows
    <3> QED
      BY <3>2, <3>3
  <2> QED
    BY <2>1, <2>2
<1>8. AloneOK'
  <2> SUFFICES ASSUME NEW u \in Task, NEW v \in Task,
                      task'[u].at # "idle", task'[v].at # "idle",
                      MachineOf[task'[u].from] = MachineOf[task'[v].from],
                      MachineOf[task'[u].from] \notin overlapped'
               PROVE  u = v
    BY DEF AloneOK
  <2>1. CASE u # t /\ v # t
    BY <1>2, <1>3, <2>1 DEF IInv, CallsOK, AloneOK
  <2>2. CASE u = t /\ v # t
    <3>1. v \in Calls(MachineOf[i])
      BY <1>1, <1>3, <2>2 DEF Calls
    <3> QED
      BY <1>1, <1>2, <1>3, <2>2, <3>1
  <2>3. CASE u # t /\ v = t
    <3>1. u \in Calls(MachineOf[i])
      BY <1>1, <1>3, <2>3 DEF Calls
    <3> QED
      BY <1>1, <1>2, <1>3, <2>3, <3>1
  <2> QED
    BY <2>1, <2>2, <2>3
<1> QED
  BY <1>4, <1>5, <1>6, <1>7, <1>8 DEF IInv, CallsOK

\* The steps that write a row leave shy and overlapped alone, and the handler
\* goes on as the same call or ends.
LEMMA StillAlone ==
    ASSUME IInv, NEW t \in Task, UNCHANGED overlapped,
           \A u \in Task \ {t} : task'[u] = task[u],
           task'[t].at # "idle" => task[t].at # "idle" /\ task'[t].from = task[t].from
    PROVE  AloneOK'
BY DEF IInv, CallsOK, AloneOK

LEMMA CreateRowStep ==
    ASSUME IInv, NEW t \in Task, NEW d \in Device, CreateRow(t, d)
    PROVE  IInv'
<1> DEFINE i == task[t].from
           m == task[t].mac
           at == IF task[t].entry = "http" THEN "rewrite" ELSE "answer"
<1>0. /\ task[t] \in TaskState /\ task[t].at = "create"
      /\ ident[d] = None /\ (\A u \in Task : task[u].row # d) /\ ~Taken(i, d)
      /\ CallOK(task[t]) /\ SeenOK(task[t])
      /\ UNCHANGED noted
      /\ ident' = [ident EXCEPT ![d] = i] /\ mac' = [mac EXCEPT ![d] = m]
  BY DEF CreateRow, IInv, Typed, CallsOK, Exists, NewMac
<1>1. MovedTo(t, at, d)
  <2>1. at \in Stage /\ task' = [task EXCEPT ![t].row = d, ![t].at = at]
    BY DEF CreateRow, Stage
  <2> HIDE DEF at
  <2> QED
    BY <2>1, RowMoves DEF IInv
<1>2. /\ i \in Installation /\ m \in Machine \cup {None} /\ MachineOf[i] \in Machine
      /\ m # None => Same(m, MachineOf[i])
      /\ MachineOf[i] \notin shy \/ task[t].entry = "http" => m # None
      /\ m # None /\ m \notin overlapped \cup mixed => WithMac(m) = {}
  BY <1>0, MachineOfInstallations DEF CallOK, SeenOK, TaskState
<1>3. /\ ident \in [Device -> Installation \cup {None}] /\ mac \in [Device -> Machine \cup {None}]
      /\ ident'[d] = i /\ mac'[d] = m
      /\ \A e \in Device \ {d} : ident'[e] = ident[e] /\ mac'[e] = mac[e] /\ ident[e] # i
  BY <1>0 DEF IInv, Typed, Taken
<1>4. Typed'
  BY <1>0, <1>1, <1>2, <1>3 DEF IInv, Typed, MovedTo, noted
<1> HIDE DEF i, m, at
<1>5. RowsOK'
  <2>1. (\A e \in Device : mac[e] # None => Exists(e) /\ Same(mac[e], MachineOf[ident[e]]))'
    BY <1>0, <1>2, <1>3, NoneIsNothing DEF IInv, RowsOK, Exists, noted
  <2>2. (\A e, f \in Device : Exists(e) /\ ident[e] = ident[f] => e = f)'
    BY <1>3 DEF IInv, RowsOK, Exists
  <2>3. (\A e, f \in Device :
            mac[e] # None /\ mac[e] = mac[f] /\ mac[e] \notin overlapped \cup mixed => e = f)'
    <3>1. ASSUME NEW e \in Device, NEW f \in Device \ {e}, mac'[e] # None, mac'[e] = mac'[f],
                 mac'[e] \notin overlapped \cup mixed
          PROVE  FALSE
      <4>1. CASE e # d /\ f # d
        BY <1>3, <3>1, <4>1 DEF IInv, RowsOK
      <4>2. CASE e = d
        BY <1>2, <1>3, <3>1, <4>2 DEF WithMac, IInv, RowsOK
      <4>3. CASE f = d
        BY <1>2, <1>3, <3>1, <4>3 DEF WithMac, IInv, RowsOK
      <4> QED
        BY <4>1, <4>2, <4>3
    <3> QED
      BY <1>0, <3>1 DEF noted
  <2>4. (\A e \in Device :
            Exists(e) /\ MachineOf[ident[e]] \notin shy \cup mixed => mac[e] = MachineOf[ident[e]])'
    BY <1>0, <1>2, <1>3 DEF IInv, RowsOK, Exists, noted
  <2> QED
    BY <2>1, <2>2, <2>3, <2>4 DEF RowsOK
<1>6. HomesOK'
  BY <1>0, <1>3 DEF IInv, HomesOK, Typed, IdentityIsCanonical, Astray, Orderly, Alone, Exists, noted
<1>7. ASSUME NEW u \in Task
      PROVE  (CallOK(task[u]) /\ SeenOK(task[u]))'
  <2>1. CASE u = t
    <3>0. /\ task'[t].at = at /\ task'[t].from = i /\ task'[t].mac = m /\ task'[t].row = d
          /\ task'[t].entry = task[t].entry
          /\ at \in {"rewrite", "answer"} /\ (at = "rewrite" => task[t].entry = "http")
      BY <1>1 DEF MovedTo, i, m, at
    <3>1. CallOK(task[t])'
      BY <1>0, <1>2, <1>3, <3>0 DEF CallOK, Exists, noted
    <3>2. SeenOK(task[t])'
      BY <1>0, <1>2, <1>3, <3>0 DEF SeenOK, WithMac, Exists, noted
    <3> QED
      BY <2>1, <3>1, <3>2
  <2>2. CASE u # t
    <3>1. /\ task'[u] = task[u] /\ CallOK(task[u]) /\ SeenOK(task[u])
          /\ task[u] \in TaskState /\ task[u].row # d
      BY <1>0, <1>1, <2>2 DEF MovedTo, IInv, CallsOK, Typed
    <3>2. CallOK(task[u])'
      BY <1>0, <1>3, <3>1 DEF CallOK, Exists, noted, TaskState
    <3>3. SeenOK(task[u])'
      <4>1. CASE task[u].at # "idle" /\ task[u].mac # None /\ task[u].mac \notin overlapped \cup mixed
        <5>1. task[u].mac # m
          <6> SUFFICES ASSUME task[u].mac = m PROVE FALSE
            OBVIOUS
          <6>1. MachineOf[task[u].from] = MachineOf[task[t].from]
            BY <1>0, <1>2, <3>1, <4>1 DEF CallOK, i
          <6>2. MachineOf[task[t].from] \notin overlapped
            BY <1>2, <4>1 DEF i
          <6> QED
            BY <1>0, <2>2, <4>1, <6>1, <6>2 DEF IInv, CallsOK, AloneOK
        <5> QED
          BY <1>0, <1>3, <3>1, <5>1 DEF SeenOK, WithMac, Exists, noted
      <4>2. CASE ~(task[u].at # "idle" /\ task[u].mac # None /\ task[u].mac \notin overlapped \cup mixed)
        BY <1>0, <3>1, <4>2 DEF SeenOK, noted
      <4> QED
        BY <4>1, <4>2
    <3> QED
      BY <3>2, <3>3
  <2> QED
    BY <2>1, <2>2
<1>8. AloneOK'
  BY <1>0, <1>1, StillAlone DEF MovedTo, noted, at
<1> QED
  BY <1>4, <1>5, <1>6, <1>7, <1>8 DEF IInv, CallsOK

\* Handler t writes its MAC address into row d, and an identifier i of its
\* machine: the rows stay in order, d stays the machine's, the other calls and
\* the homes do not notice.
LEMMA RowWritten ==
    ASSUME IInv, NEW t \in Task, NEW d \in Device, NEW i \in Installation,
           task[t].at # "idle", task[t].mac # None, task[t].row = d, Exists(d),
           Same(MachineOf[i], MachineOf[task[t].from]), ~Taken(i, d),
           task[t].mac \notin overlapped \cup mixed => WithMac(task[t].mac) \subseteq {d},
           ident' = [ident EXCEPT ![d] = i], mac' = [mac EXCEPT ![d] = task[t].mac],
           UNCHANGED <<shy, mixed, overlapped>>,
           task' \in [Task -> TaskState], \A u \in Task \ {t} : task'[u] = task[u]
    PROVE  /\ ident' \in [Device -> Installation \cup {None}]
           /\ mac' \in [Device -> Machine \cup {None}]
           /\ RowsOK'
           /\ \A e \in Device : Exists(e)' <=> Exists(e)
           /\ \A e \in Device : Exists(e) => Same(MachineOf[ident'[e]], MachineOf[ident[e]])
           /\ \A u \in Task \ {t} : CallOK(task[u])' /\ SeenOK(task[u])'
<1> DEFINE m == task[t].mac
<1>1. /\ CallOK(task[t]) /\ task[t].from \in Installation
      /\ Same(m, MachineOf[i]) /\ m \in Machine /\ m # None /\ i # None
      /\ Same(MachineOf[ident[d]], m)
  BY MachineOfInstallations, NoneIsNothing DEF IInv, CallsOK, CallOK, Typed, TaskState
<1>2. /\ ident \in [Device -> Installation \cup {None}] /\ mac \in [Device -> Machine \cup {None}]
      /\ ident'[d] = i /\ mac'[d] = m
      /\ \A e \in Device \ {d} : ident'[e] = ident[e] /\ mac'[e] = mac[e] /\ ident[e] # i
  BY DEF IInv, Typed, Taken
<1>3. /\ ident' \in [Device -> Installation \cup {None}]
      /\ mac' \in [Device -> Machine \cup {None}]
  BY <1>1, <1>2
<1>4. m \notin overlapped \cup mixed => \A e \in Device \ {d} : mac[e] # m
  BY DEF WithMac, IInv, RowsOK
<1> HIDE DEF m
<1>5. RowsOK'
  <2>1. (\A e \in Device : mac[e] # None => Exists(e) /\ Same(mac[e], MachineOf[ident[e]]))'
    BY <1>1, <1>2 DEF IInv, RowsOK, Exists
  <2>2. (\A e, f \in Device : Exists(e) /\ ident[e] = ident[f] => e = f)'
    BY <1>2 DEF IInv, RowsOK, Exists
  <2>3. (\A e, f \in Device :
            mac[e] # None /\ mac[e] = mac[f] /\ mac[e] \notin overlapped \cup mixed => e = f)'
    BY <1>2, <1>4 DEF IInv, RowsOK
  <2>4. (\A e \in Device :
            Exists(e) /\ MachineOf[ident[e]] \notin shy \cup mixed => mac[e] = MachineOf[ident[e]])'
    BY <1>1, <1>2 DEF IInv, RowsOK, Exists
  <2> QED
    BY <2>1, <2>2, <2>3, <2>4 DEF RowsOK
<1>6. \A e \in Device : Exists(e)' <=> Exists(e)
  BY <1>1, <1>2 DEF Exists
<1>7. \A e \in Device : Exists(e) => Same(MachineOf[ident'[e]], MachineOf[ident[e]])
  BY <1>1, <1>2
<1>8. ASSUME NEW u \in Task \ {t}
      PROVE  CallOK(task[u])' /\ SeenOK(task[u])'
  <2>1. task'[u] = task[u] /\ CallOK(task[u]) /\ SeenOK(task[u]) /\ task[u] \in TaskState
    BY DEF IInv, CallsOK, Typed
  <2>2. CallOK(task[u])'
    BY <1>6, <1>7, <2>1 DEF CallOK, TaskState
  <2>3. SeenOK(task[u])'
    <3>1. CASE task[u].at # "idle" /\ task[u].mac # None /\ task[u].mac \notin overlapped \cup mixed
      <4>1. task[u].mac # m
        BY <1>1, <2>1, <3>1 DEF CallOK, IInv, CallsOK, AloneOK, m
      <4> QED
        BY <1>2, <1>6, <2>1, <3>1, <4>1 DEF SeenOK, WithMac
    <3>2. CASE ~(task[u].at # "idle" /\ task[u].mac # None /\ task[u].mac \notin overlapped \cup mixed)
      BY <2>1, <3>2 DEF SeenOK
    <3> QED
      BY <3>1, <3>2
  <2> QED
    BY <2>2, <2>3
<1> QED
  BY <1>3, <1>5, <1>6, <1>7, <1>8

LEMMA BackfillStep ==
    ASSUME IInv, NEW t \in Task, Backfill(t)
    PROVE  IInv'
<1> DEFINE d == task[t].row
           i == ident[d]
<1>1. /\ task[t] \in TaskState /\ task[t].at = "backfill" /\ Exists(d)
      /\ CallOK(task[t]) /\ SeenOK(task[t])
      /\ mac' = [mac EXCEPT ![d] = task[t].mac]
      /\ UNCHANGED <<ident, noted>>
  BY DEF Backfill, IInv, Typed, CallsOK
<1>2. d \in Device /\ i \in Installation /\ Same(MachineOf[i], MachineOf[task[t].from])
      /\ task[t].mac # None /\ ~Taken(i, d)
      /\ ident' = [ident EXCEPT ![d] = i]
  BY <1>1, NoneIsNothing DEF CallOK, Exists, IInv, Typed, RowsOK, Taken, noted
<1>3. MovedTo(t, "answer", d)
  BY GotoMoves DEF Backfill, IInv, Stage
<1> HIDE DEF d, i
<1>4. /\ mac' \in [Device -> Machine \cup {None}]
      /\ RowsOK'
      /\ \A u \in Task \ {t} : CallOK(task[u])' /\ SeenOK(task[u])'
  BY <1>1, <1>2, <1>3, RowWritten DEF MovedTo, noted, SeenOK, d
<1>5. CallOK(task[t])' /\ SeenOK(task[t])'
  BY <1>1, <1>2, <1>3 DEF MovedTo, CallOK, SeenOK, Exists, noted, d
<1>6. Typed' /\ HomesOK'
  BY <1>1, <1>3, <1>4 DEF IInv, Typed, HomesOK, MovedTo, noted, IdentityIsCanonical, Astray,
        Orderly, Alone, Exists
<1>7. AloneOK'
  BY <1>1, <1>3, StillAlone DEF MovedTo, noted
<1> QED
  BY <1>4, <1>5, <1>6, <1>7 DEF IInv, CallsOK

\* A call ends and its installation i is given row d of its machine: the homes
\* stay in order.
LEMMA GivenHome ==
    ASSUME IInv, NEW i \in Installation, NEW d \in Device, Given(i, d),
           ident' \in [Device -> Installation \cup {None}], RowsOK',
           Exists(d)', Same(MachineOf[ident'[d]], MachineOf[i]),
           \A e \in Device : Exists(e) =>
               Exists(e)' /\ Same(MachineOf[ident'[e]], MachineOf[ident[e]])
    PROVE  HomesOK' /\ home' \in [Installation -> Device \cup {None}] /\ moved' \subseteq Installation
<1>1. /\ home \in [Installation -> Device \cup {None}] /\ moved \subseteq Installation
      /\ home' = [home EXCEPT ![i] = IF home[i] = None THEN d ELSE home[i]]
      /\ moved' = IF home[i] \in {None, d} THEN moved ELSE moved \cup {i}
      /\ UNCHANGED <<shy, mixed, overlapped>>
  BY DEF Given, IInv, Typed
<1>2. (\A j \in Installation : home[j] # None =>
          Exists(home[j]) /\ Same(MachineOf[ident[home[j]]], MachineOf[j]))'
  <2> SUFFICES ASSUME NEW j \in Installation, home'[j] # None
               PROVE  Exists(home[j])' /\ Same(MachineOf[ident'[home'[j]]], MachineOf[j])
    BY <1>1
  <2>1. CASE j = i /\ home[i] = None
    BY <1>1, <2>1
  <2>2. CASE ~(j = i /\ home[i] = None)
    <3>1. home'[j] = home[j]
      BY <1>1, <2>2
    <3>2. home[j] \in Device /\ Exists(home[j]) /\ Same(MachineOf[ident[home[j]]], MachineOf[j])
      BY <1>1, <3>1 DEF IInv, HomesOK
    <3> QED
      BY <3>1, <3>2
  <2> QED
    BY <2>1, <2>2
<1>3. ASSUME home[i] \notin {None, d}
      PROVE  Astray(i)'
  <2> SUFFICES ASSUME MachineOf[i] \notin mixed
               PROVE  ~Alone(i) /\ ~Orderly(MachineOf[i])'
    BY <1>1 DEF Astray, Alone
  <2>1. /\ home[i] \in Device /\ home[i] # d /\ ident'[home[i]] # None
        /\ MachineOf[ident'[home[i]]] = MachineOf[i]
        /\ MachineOf[ident'[d]] = MachineOf[i]
    BY <1>1, <1>3 DEF IInv, HomesOK, Exists
  <2>2. ident'[home[i]] # ident'[d] /\ ident'[d] # None
    BY <2>1 DEF RowsOK, Exists
  <2>5. MachineOf[i] # None
    BY MachineOfInstallations, NoneIsNothing
  <2>3. ~Alone(i)
    <3>1. ident'[home[i]] \in Installation /\ ident'[d] \in Installation
      BY <2>1, <2>2
    <3> QED
      BY <2>1, <2>2, <3>1 DEF Alone
  <2>4. ~Orderly(MachineOf[i])'
    <3> SUFFICES ASSUME MachineOf[i] \notin shy', MachineOf[i] \notin overlapped'
                 PROVE  FALSE
      BY DEF Orderly
    <3>1. mac'[home[i]] = MachineOf[i] /\ mac'[d] = MachineOf[i]
      BY <1>1, <2>1, <2>2 DEF RowsOK, Exists
    <3> QED
      BY <1>1, <2>1, <2>5, <3>1 DEF RowsOK
  <2> QED
    BY <2>3, <2>4
<1>4. IdentityIsCanonical'
  BY <1>1, <1>3 DEF IInv, HomesOK, IdentityIsCanonical, Astray, Orderly, Alone
<1> QED
  BY <1>1, <1>2, <1>4 DEF HomesOK

LEMMA RewriteStep ==
    ASSUME IInv, NEW t \in Task, Rewrite(t)
    PROVE  IInv'
<1> DEFINE d == task[t].row
           i == task[t].from
<1>1. /\ task[t] \in TaskState /\ task[t].at = "rewrite" /\ Exists(d) /\ ~Taken(i, d)
      /\ CallOK(task[t]) /\ SeenOK(task[t])
      /\ ident' = [ident EXCEPT ![d] = i] /\ mac' = [mac EXCEPT ![d] = task[t].mac]
      /\ Given(i, d) /\ Done(t)
  BY DEF Rewrite, IInv, Typed, CallsOK
<1>2. /\ d \in Device /\ i \in Installation /\ task[t].mac # None
      /\ Same(MachineOf[ident[d]], MachineOf[i])
      /\ UNCHANGED <<shy, mixed, overlapped>>
  BY <1>1, NoneIsNothing DEF CallOK, Given
<1>3. Ended(t)
  BY <1>1, DoneEnds DEF IInv
<1> HIDE DEF d, i
<1>4. /\ ident' \in [Device -> Installation \cup {None}]
      /\ mac' \in [Device -> Machine \cup {None}]
      /\ RowsOK'
      /\ \A e \in Device : Exists(e)' <=> Exists(e)
      /\ \A e \in Device : Exists(e) => Same(MachineOf[ident'[e]], MachineOf[ident[e]])
      /\ \A u \in Task \ {t} : CallOK(task[u])' /\ SeenOK(task[u])'
  BY <1>1, <1>2, <1>3, RowWritten DEF Ended, SeenOK, d, i
<1>5. ident'[d] # None /\ Same(MachineOf[ident'[d]], MachineOf[i])
  BY <1>1, <1>2, <1>4 DEF Exists
<1>6. /\ HomesOK'
      /\ home' \in [Installation -> Device \cup {None}] /\ moved' \subseteq Installation
  BY <1>1, <1>2, <1>4, <1>5, GivenHome DEF Exists
<1>7. Typed'
  BY <1>2, <1>3, <1>4, <1>6 DEF IInv, Typed, Ended
<1>8. CallOK(task[t])' /\ SeenOK(task[t])'
  BY <1>3 DEF Ended, CallOK, SeenOK
<1>9. AloneOK'
  BY <1>2, <1>3, StillAlone DEF Ended
<1> QED
  BY <1>4, <1>6, <1>7, <1>8, <1>9 DEF IInv, CallsOK

LEMMA AnswerStep ==
    ASSUME IInv, NEW t \in Task, Answer(t)
    PROVE  IInv'
<1> DEFINE d == task[t].row
           i == task[t].from
<1>1. /\ task[t].at = "answer" /\ Exists(d) /\ CallOK(task[t]) /\ SeenOK(task[t])
      /\ Given(i, d) /\ Done(t) /\ UNCHANGED <<ident, mac, shy, mixed, overlapped>>
  BY DEF Answer, IInv, CallsOK, Given, rows
<1>2. d \in Device /\ i \in Installation /\ Same(MachineOf[ident[d]], MachineOf[i])
  BY <1>1, NoneIsNothing DEF CallOK
<1>3. Ended(t)
  BY <1>1, DoneEnds DEF IInv
<1> HIDE DEF d, i
<1>4. RowsOK'
  BY <1>1 DEF IInv, RowsOK, Exists
<1>5. /\ HomesOK'
      /\ home' \in [Installation -> Device \cup {None}] /\ moved' \subseteq Installation
  BY <1>1, <1>2, <1>4, GivenHome DEF Exists, IInv, Typed
<1>6. Typed'
  BY <1>1, <1>3, <1>5 DEF IInv, Typed, Ended
<1>7. ASSUME NEW u \in Task
      PROVE  (CallOK(task[u]) /\ SeenOK(task[u]))'
  <2>1. CASE u = t
    BY <1>3, <2>1 DEF Ended, CallOK, SeenOK
  <2>2. CASE u # t
    <3>1. task'[u] = task[u] /\ CallOK(task[u]) /\ SeenOK(task[u])
      BY <1>3, <2>2 DEF Ended, IInv, CallsOK
    <3>2. CallOK(task[u])'
      BY <1>1, <3>1 DEF CallOK, Exists
    <3>3. SeenOK(task[u])'
      BY <1>1, <3>1 DEF SeenOK, WithMac, Exists
    <3> QED
      BY <3>2, <3>3
  <2> QED
    BY <2>1, <2>2
<1>8. AloneOK'
  BY <1>1, <1>3, StillAlone DEF Ended
<1> QED
  BY <1>4, <1>5, <1>6, <1>7, <1>8 DEF IInv, CallsOK

LEMMA RemoveDeviceStep ==
    ASSUME IInv, NEW d \in Device, RemoveDevice(d)
    PROVE  IInv'
<1>1. /\ UNCHANGED <<task, moved, shy, mixed, overlapped>>
      /\ ident' \in [Device -> Installation \cup {None}]
      /\ mac' \in [Device -> Machine \cup {None}]
      /\ ident'[d] = None /\ mac'[d] = None
      /\ \A e \in Device \ {d} : ident'[e] = ident[e] /\ mac'[e] = mac[e]
      /\ home' \in [Installation -> Device \cup {None}]
      /\ \A i \in Installation : home'[i] # None => home'[i] = home[i] /\ home[i] # d
  BY DEF RemoveDevice, IInv, Typed
<1>2. Typed'
  BY <1>1 DEF IInv, Typed
<1>3. RowsOK'
  BY <1>1 DEF IInv, RowsOK, Exists
<1>4. HomesOK'
  <2>1. ASSUME NEW i \in Installation, home'[i] # None
        PROVE  (Exists(home[i]) /\ Same(MachineOf[ident[home[i]]], MachineOf[i]))'
    BY <1>1, <2>1 DEF IInv, HomesOK, Exists, Typed
  <2>2. IdentityIsCanonical'
    BY <1>1 DEF IInv, HomesOK, IdentityIsCanonical, Astray, Orderly, Alone
  <2> QED
    BY <2>1, <2>2 DEF HomesOK
<1>5. ASSUME NEW u \in Task
      PROVE  (CallOK(task[u]) /\ SeenOK(task[u]))'
  <2>1. task'[u] = task[u] /\ CallOK(task[u]) /\ SeenOK(task[u]) /\ task[u] \in TaskState
    BY <1>1 DEF IInv, CallsOK, Typed
  <2>2. CallOK(task[u])'
    BY <1>1, <2>1 DEF CallOK, Exists, TaskState
  <2>3. WithMac(task[u].mac)' \subseteq WithMac(task[u].mac)
    BY <1>1, <2>1 DEF WithMac, Exists
  <2>4. SeenOK(task[u])'
    BY <1>1, <2>1, <2>3 DEF SeenOK
  <2> QED
    BY <2>2, <2>4
<1>6. AloneOK'
  BY <1>1 DEF IInv, CallsOK, AloneOK
<1> QED
  BY <1>2, <1>3, <1>4, <1>5, <1>6 DEF IInv, CallsOK

-----------------------------------------------------------------------------
LEMMA InitIInv == Init => IInv
<1> SUFFICES ASSUME Init PROVE IInv
  OBVIOUS
<1>1. Typed /\ \A t \in Task : task[t] = Idle
  BY IdleFacts DEF Init, Typed
<1>2. RowsOK
  BY DEF Init, RowsOK, Exists
<1>3. CallsOK
  BY <1>1, IdleFacts DEF CallsOK, CallOK, SeenOK, AloneOK
<1>4. HomesOK
  BY DEF Init, HomesOK, IdentityIsCanonical
<1> QED
  BY <1>1, <1>2, <1>3, <1>4 DEF IInv

LEMMA NextIInv == IInv /\ [Next]_vars => IInv'
<1> SUFFICES ASSUME IInv, [Next]_vars PROVE IInv'
  OBVIOUS
<1>1. ASSUME NEW t \in Task, NEW entry \in Entry, NEW i \in Installation,
             NEW m \in Machine \cup {None}, Call(t, entry, i, m)
      PROVE  IInv'
  BY <1>1, CallStep
<1>2. ASSUME NEW t \in Task, FindByMac(t) PROVE IInv'
  BY <1>2, FindByMacStep
<1>3. ASSUME NEW t \in Task, FindByIdentifier(t) PROVE IInv'
  BY <1>3, FindByIdentifierStep
<1>4. ASSUME NEW t \in Task, NEW d \in Device, CreateRow(t, d) PROVE IInv'
  BY <1>4, CreateRowStep
<1>5. ASSUME NEW t \in Task, Backfill(t) PROVE IInv'
  BY <1>5, BackfillStep
<1>6. ASSUME NEW t \in Task, Rewrite(t) PROVE IInv'
  BY <1>6, RewriteStep
<1>7. ASSUME NEW t \in Task, Answer(t) PROVE IInv'
  BY <1>7, AnswerStep
<1>8. ASSUME NEW t \in Task,
             CreateRejected(t) \/ RewriteRejected(t) \/ RowMissing(t) \/ HandlerFails(t)
      PROVE  IInv'
  <2>1. Done(t) /\ UNCHANGED <<rows, noted>>
    BY <1>8 DEF CreateRejected, RewriteRejected, RowMissing, HandlerFails
  <2> QED
    BY <2>1, EndStep
<1>9. ASSUME NEW d \in Device, RemoveDevice(d) PROVE IInv'
  BY <1>9, RemoveDeviceStep
<1>10. CASE UNCHANGED vars
  <2>1. Typed' /\ RowsOK'
    BY <1>10 DEF vars, IInv, Typed, RowsOK, Exists
  <2>2. CallsOK'
    BY <1>10 DEF vars, IInv, CallsOK, CallOK, SeenOK, AloneOK, WithMac, Exists
  <2>3. HomesOK'
    BY <1>10 DEF vars, IInv, HomesOK, IdentityIsCanonical, Astray, Orderly, Alone, Exists
  <2> QED
    BY <2>1, <2>2, <2>3 DEF IInv
<1> QED
  BY <1>1, <1>2, <1>3, <1>4, <1>5, <1>6, <1>7, <1>8, <1>9, <1>10
     DEF Next, Normalized

LEMMA Invariance == Spec => []IInv
BY InitIInv, NextIInv, PTL DEF Spec

-----------------------------------------------------------------------------
\* Every variable has its type, and a handler past the look-ups has a row.
THEOREM TypeCorrect == Spec => []TypeOK
<1>1. IInv => TypeOK
  BY DEF IInv, Typed, RowsOK, CallsOK, CallOK, TypeOK
<1> QED
  BY <1>1, Invariance, PTL

\* No entry point gives a machine that no call mixed with another the row of
\* another machine (resolveOrCreateDevice, presentFromPrintApp,
\* presentForTenant), whatever the other machines send and however the calls
\* interleave.
THEOREM StrangersStayApart == Spec => []StrangersApart
<1>1. IInv => StrangersApart
  BY DEF IInv, RowsOK, CallsOK, CallOK, StrangersApart
<1> QED
  BY <1>1, Invariance, PTL

\* Two rows with a MAC address come only of overlapping calls of two
\* installations, or of a call that mixed two machines: print_devices has no
\* unique index on it.
THEOREM MacIsInOneRow == Spec => []OneRowPerMac
<1>1. ASSUME IInv, NEW d \in Device, NEW e \in Device,
             mac[d] = mac[e], mac[d] # None, mac[d] \notin mixed, d # e
      PROVE  /\ mac[d] \in overlapped
             /\ \E i \in Installation : MachineOf[i] = mac[d] /\ ~Alone(i)
  <2>1. mac[d] \in overlapped
    BY <1>1 DEF IInv, RowsOK
  <2>2. /\ ident[d] \in Installation /\ MachineOf[ident[d]] = mac[d]
        /\ ident[e] \in Installation /\ MachineOf[ident[e]] = mac[d]
        /\ ident[d] # ident[e]
    BY <1>1 DEF IInv, Typed, RowsOK, Exists
  <2> QED
    BY <2>1, <2>2 DEF Alone
<1>2. IInv => OneRowPerMac
  BY <1>1 DEF OneRowPerMac
<1> QED
  BY <1>2, Invariance, PTL

\* An installation keeps the row it was given first, unless its look-ups may go
\* astray.
THEOREM IdentityStays == Spec => []IdentityIsCanonical
<1>1. IInv => IdentityIsCanonical
  BY DEF IInv, HomesOK
<1> QED
  BY <1>1, Invariance, PTL

\* The update of presentForTenant is not rejected by the unique index, unless
\* the look-ups of its installation may go astray.
THEOREM HelperWrites == Spec => []HelperIsAccepted
<1>1. ASSUME IInv, NEW t \in Task,
             task[t].at = "rewrite", Exists(task[t].row), Taken(task[t].from, task[t].row)
      PROVE  Astray(task[t].from)
  <2> DEFINE d == task[t].row
             i == task[t].from
  <2> SUFFICES ASSUME MachineOf[i] \notin mixed
               PROVE  ~Alone(i) /\ ~Orderly(MachineOf[i])
    BY DEF Astray
  <2>1. CallOK(task[t]) /\ d \in Device /\ i \in Installation /\ MachineOf[i] # None
    BY <1>1, MachineOfInstallations, NoneIsNothing DEF IInv, CallsOK, CallOK
  <2>2. MachineOf[ident[d]] = MachineOf[i]
    BY <1>1, <2>1, NoneIsNothing DEF CallOK
  <2>3. PICK e \in Device \ {d} : ident[e] = i
    BY <1>1 DEF Taken
  <2>4. Exists(e) /\ ident[d] # i /\ ident[d] \in Installation
    BY <1>1, <2>1, <2>3, NoneIsNothing DEF IInv, Typed, RowsOK, Exists
  <2>5. ~Alone(i)
    BY <2>1, <2>2, <2>4 DEF Alone
  <2>6. ~Orderly(MachineOf[i])
    BY <1>1, <2>1, <2>2, <2>3, <2>4 DEF IInv, RowsOK, Orderly
  <2> QED
    BY <2>5, <2>6
<1>2. IInv => HelperIsAccepted
  BY <1>1 DEF HelperIsAccepted
<1> QED
  BY <1>2, Invariance, PTL
=============================================================================
