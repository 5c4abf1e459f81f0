---------------------------- MODULE DeviceListing -----------------------------
(***************************************************************************)
(* The public device list (GET of the public print API) over the rows of   *)
(* DevicePresence: listAvailableDevices answers from two Redis entries, the *)
(* tenant by its slug (300 s) and the tenant's devices (15 s), and fills   *)
(* them when they are missing.  Every handler of DevicePresence that writes *)
(* a row ends with a redis.del of the list; nothing deletes the tenant's.   *)
(*                                                                         *)
(* Time is abstract: an entry may expire at any moment after it is set.    *)
(* Redis outlives the process, and while it cannot be reached a get finds  *)
(* nothing and a set or a del does nothing.                                *)
(***************************************************************************)
EXTENDS DevicePresence

CONSTANT Reader  \* slots for list requests in flight (bound)

\* The move of this module:
\* redis: a call to Redis finds it unavailable

VARIABLES
    active,        \* tenants.status is active
    tenantCached,  \* cache:tenant:slug:<slug> is set
    cache,         \* cache:public:devices:tenant:<id>, or NoList
    reader,        \* reader[r]: the request in slot r, the list it read, and
                   \*   whether a row changed since (late, not stored)
    excused        \* the list was stored late, or a del of it was lost (not
                   \*   stored: the properties need it)

listing == <<active, tenantCached, cache, reader, excused>>
listingVars == <<vars, listing>>

ReaderStage == {"idle", "tenant", "storeTenant", "devices", "read", "store"}
NoList == [some |-> FALSE, devices |-> {}]
List(ds) == [some |-> TRUE, devices |-> ds]

IdleReader == [at |-> "idle", list |-> {}, late |-> FALSE]

Reading(r, at, ds) ==
    reader' = [reader EXCEPT ![r] = [IdleReader EXCEPT !.at = at, !.list = ds]]

ListingInit ==
    /\ Init
    /\ active = TRUE
    /\ tenantCached = FALSE
    /\ cache = NoList
    /\ reader = [r \in Reader |-> IdleReader]
    /\ excused = FALSE

Unreachable == "redis" \in Moves

-----------------------------------------------------------------------------
(* listAvailableDevices.                                                   *)

\* findActiveTenantBySlug: the cached tenant, or its row.
ListRequest(r) ==
    /\ reader[r].at = "idle"
    /\ \/ tenantCached /\ Reading(r, "devices", {})
       \/ (~tenantCached \/ Unreachable) /\ Reading(r, "tenant", {})
    /\ UNCHANGED <<vars, active, tenantCached, cache, excused>>

FindTenant(r) ==
    /\ reader[r].at = "tenant"
    /\ Reading(r, IF active THEN "storeTenant" ELSE "idle", {})
    /\ UNCHANGED <<vars, active, tenantCached, cache, excused>>

StoreTenant(r) ==
    /\ reader[r].at = "storeTenant"
    /\ tenantCached' = TRUE \/ (Unreachable /\ UNCHANGED tenantCached)
    /\ Reading(r, "devices", {})
    /\ UNCHANGED <<vars, active, cache, excused>>

\* A cached list, even an empty one, is the answer.
GetDevices(r) ==
    /\ reader[r].at = "devices"
    /\ \/ cache.some /\ Reading(r, "idle", {})
       \/ (~cache.some \/ Unreachable) /\ Reading(r, "read", {})
    /\ UNCHANGED <<vars, active, tenantCached, cache, excused>>

Available == {d \in Device : status[d] \in On}

FindDevices(r) ==
    /\ reader[r].at = "read"
    /\ Reading(r, "store", Available)
    /\ UNCHANGED <<vars, active, tenantCached, cache, excused>>

StoreDevices(r) ==
    /\ reader[r].at = "store"
    /\ \/ cache' = List(reader[r].list) /\ excused' = reader[r].late
       \/ Unreachable /\ UNCHANGED <<cache, excused>>
    /\ Reading(r, "idle", {})
    /\ UNCHANGED <<vars, active, tenantCached>>

-----------------------------------------------------------------------------
\* Variant: entries are stored without a time to live.
NeverExpires == FALSE

\* EX: both entries are stored with a time to live.
Expires == TRUE

ExpireDevices ==
    /\ Expires
    /\ cache.some
    /\ cache' = NoList
    /\ excused' = FALSE
    /\ UNCHANGED <<vars, active, tenantCached, reader>>

ExpireTenant ==
    /\ Expires
    /\ tenantCached
    /\ tenantCached' = FALSE
    /\ UNCHANGED <<vars, active, cache, reader, excused>>

\* PATCH /tenants/:id: no Redis call.
SetTenantStatus ==
    /\ active' = ~active
    /\ UNCHANGED <<vars, tenantCached, cache, reader, excused>>

\* Variant: the list is left alone.
KeepList == cache

\* invalidatePublicDevicesCache: what the del leaves.
AfterDel == NoList

InvalidateList ==
    /\ Invalidate
    /\ \/ cache' = AfterDel /\ excused' = FALSE
       \/ Unreachable /\ UNCHANGED cache /\ excused' = cache.some
    /\ UNCHANGED <<active, tenantCached, reader>>

\* A handler that wrote a row has yet to delete the cached list.
InvalidationPending ==
    \/ \E s \in Socket : \/ present[s].at \in {"resume", "invalidate"}
                         \/ leaving[s].at = "invalidate"
    \/ \E h \in Http : http[h].at = "invalidate"

\* A step of DevicePresence that leaves the list alone.
PresenceStep ==
    /\ Act
    /\ reader' = [r \in Reader |->
                     [reader[r] EXCEPT !.late = @ \/ (reader[r].at = "store" /\ status' # status)]]
    /\ UNCHANGED <<active, tenantCached, cache, excused>>

CrashListing ==
    /\ Crash
    /\ reader' = [r \in Reader |-> IdleReader]
    /\ excused' = (excused \/ (cache.some /\ InvalidationPending))
    /\ UNCHANGED <<active, tenantCached, cache>>

ListingNext ==
    \/ PresenceStep
    \/ InvalidateList
    \/ CrashListing
    \/ \E r \in Reader :
          \/ ListRequest(r)
          \/ FindTenant(r)
          \/ StoreTenant(r)
          \/ GetDevices(r)
          \/ FindDevices(r)
          \/ StoreDevices(r)
    \/ ExpireDevices
    \/ ExpireTenant
    \/ SetTenantStatus

ListingSpec == ListingInit /\ [][ListingNext]_listingVars

\* Redis expires entries.  (An entry that is set again starts anew, but only
\* finitely many requests can carry a reading older than the present rows.)
ListingFairSpec ==
    /\ ListingSpec
    /\ WF_listingVars(ExpireDevices)
    /\ WF_listingVars(ExpireTenant)

-----------------------------------------------------------------------------
(* Properties.                                                             *)

\* Every variable has its type, and only a list that is there has an excuse.
ListingTypeOK ==
    /\ active \in BOOLEAN
    /\ tenantCached \in BOOLEAN
    /\ cache \in {NoList} \cup {List(ds) : ds \in SUBSET Device}
    /\ reader \in [Reader -> [at : ReaderStage, list : SUBSET Device, late : BOOLEAN]]
    /\ excused \in BOOLEAN
    /\ excused => cache.some

\* The cached list is the list of the rows unless an invalidation is on its
\* way: every change of a device's presence invalidates it
\* (docs/ficha-tecnica/08-pruebas-checklist.md:33).  Two things excuse a stale
\* list: a row changed between its reading and its storing, or its del was
\* lost with the process or Redis.
ListIsFresh ==
    cache.some =>
        \/ \A d \in Device : d \in cache.devices <=> status[d] \in On
        \/ InvalidationPending
        \/ excused

\* Whatever fails, a device that stays off disappears from the list for good:
\* a stale list, stored late or never invalidated, expires.
OffIsDelisted ==
    \A d \in Device :
        <>[](status[d] \notin On) => <>[](d \notin cache.devices)

\* A tenant that stays suspended ends up refused, although nothing deletes
\* its cache entry.
SuspendedIsRefused == <>[](~active) => <>[](~tenantCached)
=============================================================================
