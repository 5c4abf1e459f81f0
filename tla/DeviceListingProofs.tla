-------------------------- MODULE DeviceListingProofs --------------------------
(***************************************************************************)
(* Theorems about DeviceListing, for every set of sockets, devices,        *)
(* requests and readers and every set of moves.                            *)
(*                                                                         *)
(* The list is fresh because a handler that changes which devices are      *)
(* available is from then on one that has yet to delete the list (ActKeeps)*)
(* and stays one until it does; the only step that could lose sight of it, *)
(* a disconnect that starts over an earlier one, cannot happen, since a    *)
(* socket that has left is closed (LeftIsClosed).                          *)
(***************************************************************************)
EXTENDS DeviceListing, DevicePresenceProofs

\* A socket whose handleDisconnect is in flight is closed.
LeftIsClosed == \A s \in Socket : leaving[s].at # "idle" => conn[s] = "closed"

\* What a reader is about to store is what is available, or is late.
ReadersOK ==
    \A r \in Reader : reader[r].at = "store" /\ ~reader[r].late => reader[r].list = Available

IInv == TypeOK /\ ListingTypeOK /\ LeftIsClosed /\ ReadersOK /\ ListIsFresh

-----------------------------------------------------------------------------
(* Handlers that have yet to delete the list still have to after a step.   *)

PresentKept ==
    \A s \in Socket : present[s].at \in {"resume", "invalidate"} =>
        present'[s].at \in {"resume", "invalidate"}

LeavingKept == \A s \in Socket : leaving[s].at = "invalidate" => leaving'[s].at = "invalidate"

HttpKept == \A h \in Http : http[h].at = "invalidate" => http'[h].at = "invalidate"

LEMMA PendingKept ==
    ASSUME PresentKept, LeavingKept, HttpKept, InvalidationPending
    PROVE  InvalidationPending'
BY DEF PresentKept, LeavingKept, HttpKept, InvalidationPending

LEMMA PresentingKeeps ==
    ASSUME TypeOK, NEW s \in Socket, NEW at, NEW d, Presenting(s, at, d),
           present[s].at \in {"resume", "invalidate"} => at \in {"resume", "invalidate"}
    PROVE  PresentKept /\ present'[s].at = at
BY DEF TypeOK, Presenting, PresentKept

LEMMA LeavingKeeps ==
    ASSUME TypeOK, NEW s \in Socket, NEW at, NEW ds, Leaving(s, at, ds),
           leaving[s].at = "invalidate" => at = "invalidate"
    PROVE  LeavingKept /\ leaving'[s].at = at
BY DEF TypeOK, Leaving, LeavingKept

LEMMA ServingKeeps ==
    ASSUME TypeOK, NEW h \in Http, NEW at, NEW d, NEW st, Serving(h, at, d, st),
           http[h].at = "invalidate" => at = "invalidate"
    PROVE  HttpKept /\ http'[h].at = at
BY DEF TypeOK, Serving, HttpKept

LEMMA UnchangedKept ==
    /\ UNCHANGED present => PresentKept
    /\ UNCHANGED leaving => LeavingKept
    /\ UNCHANGED http => HttpKept
BY DEF PresentKept, LeavingKept, HttpKept

\* What the lemmas below conclude of a step of DevicePresence.
Kept ==
    /\ PresentKept /\ LeavingKept /\ HttpKept
    /\ Available' = Available \/ InvalidationPending'

LEMMA DisconnectKeeps ==
    ASSUME TypeOK, LeftIsClosed, NEW s \in Socket, conn[s] = "open", HandleDisconnect(s)
    PROVE  LeavingKept /\ LeftIsClosed'
<1>1. leaving[s].at = "idle" /\ conn' = [conn EXCEPT ![s] = "closed"]
  BY DEF LeftIsClosed, HandleDisconnect
<1>2. \A x \in Socket \ {s} : leaving'[x] = leaving[x]
  BY DEF HandleDisconnect, Leaving, TypeOK
<1> QED
  BY <1>1, <1>2 DEF LeavingKept, LeftIsClosed, TypeOK

LEMMA SocketKeeps ==
    ASSUME TypeOK, LeftIsClosed, NEW s \in Socket,
           Connect(s) \/ Disconnect(s) \/ Resume(s) \/ Message(s) \/ PresentFails(s) \/ LeaveFails(s)
    PROVE  Kept /\ LeftIsClosed'
<1>1. CASE \/ Connect(s) \/ Authenticate(s)
           \/ (\E ds \in SUBSET Device : Report(s, ds)) \/ Logout(s)
  <2>1. UNCHANGED <<status, present, leaving, http>>
    BY <1>1 DEF Connect, Authenticate, Report, Logout
  <2>2. LeftIsClosed'
    BY <1>1, <2>1 DEF Connect, Authenticate, Report, Logout, LeftIsClosed, TypeOK
  <2> QED
    BY <2>1, <2>2, UnchangedKept DEF Kept, Available
<1>2. CASE Disconnect(s) \/ Reject(s)
  <2>1. UNCHANGED <<status, present, http>>
    BY <1>2 DEF Disconnect, Reject
  <2>2. \/ conn[s] = "open" /\ HandleDisconnect(s)
        \/ UNCHANGED <<conn, leaving>>
    BY <1>2 DEF Disconnect, Reject
  <2>3. LeavingKept /\ LeftIsClosed'
    BY <2>2, DisconnectKeeps, UnchangedKept DEF LeftIsClosed
  <2> QED
    BY <2>1, <2>3, UnchangedKept DEF Kept, Available
<1>3. CASE MarkOffline(s)
  <2>1. /\ leaving[s].at = "write" /\ UNCHANGED <<conn, present, http>>
        /\ Leaving(s, IF status' # status THEN "invalidate" ELSE "idle", {})
    BY <1>3 DEF MarkOffline
  <2>2. /\ LeavingKept
        /\ leaving'[s].at = IF status' # status THEN "invalidate" ELSE "idle"
    BY <2>1, LeavingKeeps
  <2>3. Available' = Available \/ InvalidationPending'
    BY <2>2 DEF Available, InvalidationPending
  <2>4. LeftIsClosed'
    BY <2>1 DEF Leaving, LeftIsClosed, TypeOK
  <2> QED
    BY <2>1, <2>2, <2>3, <2>4, UnchangedKept DEF Kept
<1>4. CASE PresentLookup(s) \/ PresentCreateRejected(s) \/ PresentResume(s) \/ PresentFails(s)
  <2>1. UNCHANGED <<conn, status, leaving, http>>
    BY <1>4 DEF PresentLookup, PresentCreateRejected, PresentResume, PresentFails
  <2>2. PresentKept
    BY <1>4, PresentingKeeps
       DEF PresentLookup, PresentCreateRejected, PresentResume, PresentFails
  <2> QED
    BY <2>1, <2>2, UnchangedKept DEF Kept, Available, LeftIsClosed
<1>5. CASE \E d \in Device : PresentCreate(s, d)
  <2>1. PICK d \in Device : PresentCreate(s, d)
    BY <1>5
  <2>2. UNCHANGED <<conn, leaving, http>> /\ PresentKept
    BY <2>1, PresentingKeeps DEF PresentCreate
  <2>3. Available' = Available
    BY <2>1 DEF PresentCreate, Available, On, TypeOK
  <2> QED
    BY <2>2, <2>3, UnchangedKept DEF Kept, LeftIsClosed
<1>6. CASE PresentWrite(s)
  <2>1. UNCHANGED <<conn, leaving, http>>
    BY <1>6 DEF PresentWrite
  <2>2. CASE Presenting(s, "resume", present[s].device)
    <3>1. PresentKept /\ present'[s].at = "resume"
      BY <2>2, PresentingKeeps
    <3> QED
      BY <2>1, <3>1, UnchangedKept DEF Kept, LeftIsClosed, InvalidationPending
  <2>3. CASE Presenting(s, "idle", None) /\ UNCHANGED status
    <3>1. PresentKept
      BY <1>6, <2>3, PresentingKeeps DEF PresentWrite
    <3> QED
      BY <2>1, <2>3, <3>1, UnchangedKept DEF Kept, LeftIsClosed, Available
  <2> QED
    BY <1>6, <2>2, <2>3 DEF PresentWrite
<1>7. CASE LeaveFails(s)
  <2>1. leaving[s].at = "write" /\ Leaving(s, "idle", {})
        /\ UNCHANGED <<conn, status, present, http>>
    BY <1>7 DEF LeaveFails
  <2>2. LeavingKept /\ LeftIsClosed'
    BY <2>1, LeavingKeeps DEF Leaving, LeftIsClosed, TypeOK
  <2> QED
    BY <2>1, <2>2, UnchangedKept DEF Kept, Available
<1> QED
  BY <1>1, <1>2, <1>3, <1>4, <1>5, <1>6, <1>7 DEF Resume, Message

LEMMA HttpKeeps ==
    ASSUME TypeOK, LeftIsClosed, NEW h \in Http, HttpStep(h) \/ HttpFails(h)
    PROVE  Kept /\ LeftIsClosed'
<1>0. UNCHANGED <<conn, present, leaving>>
  BY DEF HttpStep, HelperLookup, HelperCreate, HelperWrite, HelperRejected, AdminCreate,
         AdminPatch, AdminDelete, HttpFails
<1>1. CASE HelperLookup(h) \/ HelperRejected(h) \/ HttpFails(h)
  <2>1. UNCHANGED status
    BY <1>1 DEF HelperLookup, HelperRejected, HttpFails
  <2>2. HttpKept
    BY <1>1, ServingKeeps DEF HelperLookup, HelperRejected, HttpFails
  <2> QED
    BY <1>0, <2>1, <2>2, UnchangedKept DEF Kept, LeftIsClosed, Available
<1>2. CASE \E d \in Device : HelperCreate(h, d)
  <2>1. PICK d \in Device : HelperCreate(h, d)
    BY <1>2
  <2>2. HttpKept
    BY <2>1, ServingKeeps DEF HelperCreate
  <2>3. Available' = Available
    BY <2>1 DEF HelperCreate, Available, On, TypeOK
  <2> QED
    BY <1>0, <2>2, <2>3, UnchangedKept DEF Kept, LeftIsClosed
<1>3. CASE \/ HelperWrite(h)
           \/ \E d \in Device, st \in AdminStatus : AdminCreate(h, d, st)
           \/ \E d \in Device : \E st \in AdminStatus \cup {status[d]} : AdminPatch(h, d, st)
           \/ \E d \in Device : AdminDelete(h, d)
  <2>1. http[h].at \in {"idle", "write"} /\ Serving(h, "invalidate", None, "unknown")
    BY <1>3 DEF HelperWrite, AdminCreate, AdminPatch, AdminDelete
  <2>2. HttpKept /\ http'[h].at = "invalidate"
    BY <2>1, ServingKeeps
  <2> QED
    BY <1>0, <2>2, UnchangedKept DEF Kept, LeftIsClosed, InvalidationPending
<1> QED
  BY <1>1, <1>2, <1>3 DEF HttpStep

LEMMA ActKeeps ==
    ASSUME TypeOK, LeftIsClosed, Act
    PROVE  Kept /\ LeftIsClosed'
BY SocketKeeps, HttpKeeps DEF Act, Fail

-----------------------------------------------------------------------------
(* The list and its readers.                                               *)

ReaderState == [at : ReaderStage, list : SUBSET Device, late : BOOLEAN]

LEMMA ListFacts ==
    /\ ~NoList.some
    /\ \A ds : List(ds).some /\ List(ds).devices = ds
BY DEF NoList, List

LEMMA ListTyped ==
    ASSUME ListingTypeOK
    PROVE  cache.some \in BOOLEAN /\ excused \in BOOLEAN /\ (excused => cache.some)
<1>1. cache = NoList \/ \E ds \in SUBSET Device : cache = List(ds)
  BY DEF ListingTypeOK
<1>2. NoList.some = FALSE /\ \A ds : List(ds).some = TRUE
  BY DEF NoList, List
<1>3. cache.some \in BOOLEAN
  BY <1>1, <1>2
<1> QED
  BY <1>3 DEF ListingTypeOK

\* A reader goes on with the list it read, or none.
LEMMA ReadingOK ==
    ASSUME ListingTypeOK, NEW r \in Reader, NEW at \in ReaderStage, NEW ds \in SUBSET Device,
           Reading(r, at, ds)
    PROVE  /\ reader' \in [Reader -> ReaderState]
           /\ reader'[r].at = at /\ reader'[r].list = ds
           /\ \A x \in Reader \ {r} : reader'[x] = reader[x]
<1> DEFINE p == [IdleReader EXCEPT !.at = at, !.list = ds]
<1>1. p \in ReaderState /\ p.at = at /\ p.list = ds
  BY DEF IdleReader, ReaderState, ReaderStage
<1>2. reader' = [reader EXCEPT ![r] = p] /\ reader \in [Reader -> ReaderState]
  BY DEF Reading, ListingTypeOK, ReaderState
<1> HIDE DEF p
<1> QED
  BY <1>1, <1>2

LEMMA AvailableIsSet == Available \in SUBSET Device
BY DEF Available

LEMMA ReaderSteps ==
    ASSUME IInv, NEW r \in Reader,
           \/ ListRequest(r) \/ FindTenant(r) \/ StoreTenant(r)
           \/ GetDevices(r) \/ FindDevices(r) \/ StoreDevices(r)
    PROVE  IInv'
<1>0. TypeOK /\ ListingTypeOK /\ LeftIsClosed /\ ReadersOK /\ ListIsFresh
  BY DEF IInv
<1>1. UNCHANGED <<vars, active>>
  BY DEF ListRequest, FindTenant, StoreTenant, GetDevices, FindDevices, StoreDevices
<1>2. /\ TypeOK' /\ LeftIsClosed' /\ Available' = Available
      /\ InvalidationPending' = InvalidationPending
  BY <1>0, <1>1 DEF vars, TypeOK, LeftIsClosed, Available, InvalidationPending
<1>3. tenantCached' \in BOOLEAN
  BY <1>0 DEF ListingTypeOK, ListRequest, FindTenant, StoreTenant, GetDevices, FindDevices,
        StoreDevices
<1>4. PICK at \in ReaderStage, ds \in SUBSET Device :
          Reading(r, at, ds) /\ (at = "store" => ds = Available)
  <2>1. CASE FindDevices(r)
    BY <2>1, AvailableIsSet DEF FindDevices, ReaderStage
  <2>2. CASE ~FindDevices(r)
    <3>1. \E at \in ReaderStage \ {"store"} : Reading(r, at, {})
      BY <2>2 DEF ListRequest, FindTenant, StoreTenant, GetDevices, StoreDevices, ReaderStage
    <3> QED
      BY <3>1
  <2> QED
    BY <2>1, <2>2
<1>5. /\ reader' \in [Reader -> ReaderState]
      /\ reader'[r].at = at /\ reader'[r].list = ds
      /\ \A x \in Reader \ {r} : reader'[x] = reader[x]
  BY <1>0, <1>4, ReadingOK
<1>6. ReadersOK'
  BY <1>0, <1>2, <1>4, <1>5 DEF ReadersOK
<1>7. CASE UNCHANGED <<cache, excused>>
  BY <1>0, <1>1, <1>2, <1>3, <1>5, <1>6, <1>7
     DEF IInv, ListingTypeOK, ReaderState, ListIsFresh, vars
<1>8. CASE /\ reader[r].at = "store"
           /\ cache' = List(reader[r].list) /\ excused' = reader[r].late
  <2>1. reader[r].list \in SUBSET Device /\ reader[r].late \in BOOLEAN
    BY <1>0 DEF ListingTypeOK
  <2>2. ListingTypeOK'
    <3>1. cache' \in {NoList} \cup {List(es) : es \in SUBSET Device}
      BY <1>8, <2>1
    <3>2. excused' \in BOOLEAN /\ (excused' => cache'.some)
      BY <1>8, <2>1, ListFacts
    <3> QED
      BY <1>0, <1>1, <1>3, <1>5, <3>1, <3>2 DEF ListingTypeOK, ReaderState
  <2>3. ListIsFresh'
    <3>1. cache'.devices = reader[r].list
      BY <1>8, ListFacts
    <3>2. excused' \/ cache'.devices = Available'
      BY <1>0, <1>2, <1>8, <3>1 DEF ReadersOK
    <3> QED
      BY <3>2 DEF ListIsFresh, Available
  <2> QED
    BY <1>2, <1>6, <2>2, <2>3 DEF IInv
<1> QED
  BY <1>7, <1>8
     DEF ListRequest, FindTenant, StoreTenant, GetDevices, FindDevices, StoreDevices

\* The list goes, and nobody needs to delete it any more.
LEMMA ListGone ==
    ASSUME IInv, TypeOK', LeftIsClosed', UNCHANGED <<status, active, reader>>,
           tenantCached' \in BOOLEAN, cache' = NoList, excused' = FALSE
    PROVE  IInv'
<1>1. ListingTypeOK'
  BY DEF IInv, ListingTypeOK
<1>2. ReadersOK'
  BY DEF IInv, ReadersOK, Available
<1>3. ListIsFresh'
  BY ListFacts DEF ListIsFresh
<1> QED
  BY <1>1, <1>2, <1>3 DEF IInv

LEMMA ListKept ==
    ASSUME IInv, TypeOK', LeftIsClosed', UNCHANGED <<status, cache>>,
           tenantCached' \in BOOLEAN, active' \in BOOLEAN,
           reader' \in [Reader -> ReaderState],
           \A r \in Reader : reader'[r] = reader[r] \/ reader'[r].at # "store",
           excused' \in BOOLEAN, excused' => cache.some, excused => excused',
           cache.some /\ InvalidationPending => InvalidationPending' \/ excused'
    PROVE  IInv'
<1>1. ListingTypeOK'
  BY DEF IInv, ListingTypeOK, ReaderState
<1>2. ReadersOK'
  BY DEF IInv, ReadersOK, Available
<1>3. ListIsFresh'
  BY DEF IInv, ListIsFresh
<1> QED
  BY <1>1, <1>2, <1>3 DEF IInv

LEMMA InvalidateSteps ==
    ASSUME IInv, InvalidateList
    PROVE  IInv'
<1>1. UNCHANGED <<status, conn, active, tenantCached, reader>>
  BY DEF InvalidateList, Invalidate, PresentInvalidate, LeaveInvalidate, HttpInvalidate
<1>2. TypeOK'
  BY TypeStep DEF IInv, InvalidateList, Next
<1>3. LeftIsClosed'
  <2>1. leaving' = leaving \/ \E s \in Socket : Leaving(s, "idle", {})
    BY DEF InvalidateList, Invalidate, PresentInvalidate, LeaveInvalidate, HttpInvalidate
  <2>2. CASE leaving' = leaving
    BY <1>1, <2>2 DEF IInv, LeftIsClosed
  <2>3. ASSUME NEW s \in Socket, Leaving(s, "idle", {}) PROVE LeftIsClosed'
    <3>1. leaving'[s].at = "idle" /\ \A x \in Socket \ {s} : leaving'[x] = leaving[x]
      BY <2>3 DEF IInv, TypeOK, Leaving
    <3> QED
      BY <1>1, <3>1 DEF IInv, LeftIsClosed
  <2> QED
    BY <2>1, <2>2, <2>3
<1>4. CASE cache' = AfterDel /\ excused' = FALSE
  BY <1>1, <1>2, <1>3, <1>4, ListGone DEF AfterDel, IInv, ListingTypeOK
<1>5. CASE UNCHANGED cache /\ excused' = cache.some
  <2>1. cache.some \in BOOLEAN /\ (excused => cache.some)
    BY ListTyped DEF IInv
  <2> QED
    BY <1>1, <1>2, <1>3, <1>5, <2>1, ListKept DEF IInv, ListingTypeOK, ReaderState
<1> QED
  BY <1>4, <1>5 DEF InvalidateList

LEMMA PresenceSteps ==
    ASSUME IInv, PresenceStep
    PROVE  IInv'
<1>0. TypeOK /\ ListingTypeOK /\ LeftIsClosed /\ ReadersOK /\ ListIsFresh
  BY DEF IInv
<1>1. /\ Act /\ UNCHANGED <<active, tenantCached, cache, excused>>
      /\ reader' = [r \in Reader |->
             [reader[r] EXCEPT !.late = reader[r].late
                                        \/ (reader[r].at = "store" /\ status' # status)]]
  BY DEF PresenceStep
<1>2. TypeOK'
  BY <1>0, <1>1, TypeStep DEF Next
<1>3. Kept /\ LeftIsClosed'
  BY <1>0, <1>1, ActKeeps
<1>4. ASSUME NEW r \in Reader
      PROVE  /\ reader'[r] \in ReaderState
             /\ reader'[r].at = reader[r].at /\ reader'[r].list = reader[r].list
             /\ reader'[r].at = "store" /\ ~reader'[r].late =>
                    ~reader[r].late /\ status' = status
  <2>1. reader[r] \in ReaderState
    BY <1>0 DEF ListingTypeOK, ReaderState
  <2> QED
    BY <1>1, <2>1 DEF ReaderState
<1>5. ListingTypeOK'
  BY <1>0, <1>1, <1>4 DEF ListingTypeOK, ReaderState
<1>6. ReadersOK'
  BY <1>0, <1>4 DEF ReadersOK, Available
<1>7. ListIsFresh'
  <2>1. InvalidationPending => InvalidationPending'
    BY <1>3, PendingKept DEF Kept
  <2>2. ListIsFresh <=> (cache.some => \/ \A d \in Device : d \in cache.devices <=> d \in Available
                                      \/ InvalidationPending \/ excused)
    BY DEF ListIsFresh, Available
  <2>3. ListIsFresh' <=> (cache'.some => \/ \A d \in Device : d \in cache'.devices <=> d \in Available'
                                        \/ InvalidationPending' \/ excused')
    BY DEF ListIsFresh, Available
  <2> QED
    BY <1>0, <1>1, <1>3, <2>1, <2>2, <2>3 DEF Kept
<1> QED
  BY <1>2, <1>3, <1>5, <1>6, <1>7 DEF IInv

LEMMA OtherSteps ==
    ASSUME IInv, ExpireDevices \/ ExpireTenant \/ SetTenantStatus \/ CrashListing
    PROVE  IInv'
<1>1. CASE ExpireDevices
  <2>1. TypeOK' /\ LeftIsClosed'
    BY <1>1 DEF ExpireDevices, vars, IInv, TypeOK, LeftIsClosed
  <2> QED
    BY <1>1, <2>1, ListGone DEF ExpireDevices, vars, IInv, ListingTypeOK
<1>2. CASE ExpireTenant \/ SetTenantStatus
  <2>1. UNCHANGED <<vars, cache, reader, excused>>
    BY <1>2 DEF ExpireTenant, SetTenantStatus
  <2>2. TypeOK' /\ LeftIsClosed' /\ InvalidationPending' = InvalidationPending
    BY <2>1 DEF vars, IInv, TypeOK, LeftIsClosed, InvalidationPending
  <2>3. tenantCached' \in BOOLEAN /\ active' \in BOOLEAN
    BY <1>2 DEF ExpireTenant, SetTenantStatus, IInv, ListingTypeOK
  <2> QED
    BY <2>1, <2>2, <2>3, ListKept DEF vars, IInv, ListingTypeOK, ReaderState
<1>3. CASE CrashListing
  <2>1. Crash /\ UNCHANGED <<status, active, tenantCached, cache>>
        /\ reader' = [r \in Reader |-> IdleReader]
        /\ excused' = (excused \/ (cache.some /\ InvalidationPending))
    BY <1>3 DEF CrashListing, Crash
  <2>2. TypeOK'
    BY <2>1, TypeStep DEF IInv, Next
  <2>3. LeftIsClosed'
    BY <2>1 DEF Crash, LeftIsClosed, IdleLeave
  <2>4. IdleReader \in ReaderState /\ IdleReader.at = "idle"
    BY DEF IdleReader, ReaderState, ReaderStage
  <2>5. cache.some \in BOOLEAN /\ excused \in BOOLEAN /\ (excused => cache.some)
    BY ListTyped DEF IInv
  <2>6. InvalidationPending \in BOOLEAN
    BY DEF InvalidationPending
  <2> QED
    BY <2>1, <2>2, <2>3, <2>4, <2>5, <2>6, ListKept DEF IInv, ListingTypeOK
<1> QED
  BY <1>1, <1>2, <1>3

-----------------------------------------------------------------------------
LEMMA ListingInitIInv == ListingInit => IInv
<1> SUFFICES ASSUME ListingInit PROVE IInv
  OBVIOUS
<1>1. TypeOK
  BY TypeInit DEF ListingInit
<1>2. ListingTypeOK
  <2>1. IdleReader \in ReaderState
    BY DEF IdleReader, ReaderState, ReaderStage
  <2> QED
    BY <2>1 DEF ListingInit, ListingTypeOK, ReaderState
<1>3. LeftIsClosed
  BY DEF ListingInit, Init, LeftIsClosed, IdleLeave
<1>4. ReadersOK /\ ListIsFresh
  BY ListFacts DEF ListingInit, ReadersOK, ListIsFresh, IdleReader
<1> QED
  BY <1>1, <1>2, <1>3, <1>4 DEF IInv

LEMMA ListingNextIInv == IInv /\ [ListingNext]_listingVars => IInv'
<1> SUFFICES ASSUME IInv, [ListingNext]_listingVars PROVE IInv'
  OBVIOUS
<1>1. CASE UNCHANGED listingVars
  BY <1>1 DEF listingVars, listing, vars, IInv, TypeOK, ListingTypeOK, LeftIsClosed, ReadersOK,
        Available, ListIsFresh, InvalidationPending
<1> QED
  BY <1>1, PresenceSteps, InvalidateSteps, OtherSteps, ReaderSteps DEF ListingNext

LEMMA ListingInvariance == ListingSpec => []IInv
BY ListingInitIInv, ListingNextIInv, PTL DEF ListingSpec

-----------------------------------------------------------------------------
\* Every variable of the list has its type.
THEOREM ListingTypeCorrect == ListingSpec => []ListingTypeOK
<1>1. IInv => ListingTypeOK
  BY DEF IInv
<1> QED
  BY <1>1, ListingInvariance, PTL

\* The cached list of devices is stale only while a handler has yet to delete
\* it, or with one of the two excuses, for all the handlers that write a row.
THEOREM ListStaysFresh == ListingSpec => []ListIsFresh
<1>1. IInv => ListIsFresh
  BY DEF IInv
<1> QED
  BY <1>1, ListingInvariance, PTL

-----------------------------------------------------------------------------
(* What is proved of DevicePresence holds with the list attached.          *)

\* A step of the composition is a step of DevicePresence (a handler, the del
\* that ends one, a crash) or leaves its variables alone.
LEMMA ListingStepIsPresenceStep == [ListingNext]_listingVars => [Next]_vars
<1> SUFFICES ASSUME [ListingNext]_listingVars PROVE [Next]_vars
  OBVIOUS
<1>1. CASE PresenceStep \/ InvalidateList \/ CrashListing
  BY <1>1 DEF PresenceStep, InvalidateList, CrashListing, Next
<1>2. CASE \/ ExpireDevices \/ ExpireTenant \/ SetTenantStatus
           \/ \E r \in Reader : \/ ListRequest(r) \/ FindTenant(r) \/ StoreTenant(r)
                               \/ GetDevices(r) \/ FindDevices(r) \/ StoreDevices(r)
  <2>1. UNCHANGED vars
    BY <1>2 DEF ExpireDevices, ExpireTenant, SetTenantStatus, ListRequest, FindTenant,
       StoreTenant, GetDevices, FindDevices, StoreDevices
  <2> QED
    BY <2>1
<1>3. CASE UNCHANGED listingVars
  BY <1>3 DEF listingVars
<1> QED
  BY <1>1, <1>2, <1>3 DEF ListingNext

\* The public list and its caches only watch the gateway: the composition
\* implements DevicePresence, so its theorems hold of it.
THEOREM RunsDevicePresence == ListingSpec => Spec
<1>1. ListingInit => Init
  BY DEF ListingInit
<1> QED
  BY <1>1, ListingStepIsPresenceStep, PTL DEF ListingSpec, Spec

\* A client that is shown d in the list may count on an agent: the room that
\* print.job.dispatch is sent to has an open socket in it, or a handler is
\* about to settle or to publish the change, or the list is excused.
ListedIsServed ==
    Ordinary /\ cache.some =>
        \A d \in cache.devices \cap Device :
            (\E s \in Socket : Attends(s, d)) \/ InvalidationPending \/ excused

\* The promise of the public API across its two halves, the gateway's rows
\* and the cached list (listAvailableDevices, handleDisconnect): a listed
\* device can be delivered to, as long as clients are ordinary and nothing
\* fails but Redis' entries, which may expire at any moment.
THEOREM ListedIsServedHolds == ListingSpec => []ListedIsServed
<1>1. ListIsFresh /\ OnlineIsServed => ListedIsServed
  BY DEF ListIsFresh, OnlineIsServed, ListedIsServed, Ordinary, Attends
<1> QED
  BY <1>1, ListStaysFresh, RunsDevicePresence, OnlineIsServedHolds, PTL
=============================================================================
