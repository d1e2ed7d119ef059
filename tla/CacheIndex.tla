----------------------------- MODULE CacheIndex -----------------------------
(****************************************************************************)
(* Which device (an index into lidars_) a lidar has: CacheIndex and its      *)
(* callers.                                                                  *)
(*                                                                           *)
(* Indices are given out by one thread at a time, first the main thread for  *)
(* the lidars of the configuration file (LdsLidar::InitLivoxLidar), later    *)
(* the SDK's thread that reports lidars (LidarInfoChangeCallback).           *)
(* GetFreeIndex does so in two critical sections.  Other threads look        *)
(* indices up meanwhile with GetIndex, which searches the map without the    *)
(* mutex and reads it under the mutex.                                       *)
(*                                                                           *)
(* A search that races with an insertion is a data race.  A search of        *)
(* std::map during the rebalancing of an insertion may miss any key, and may *)
(* already find the new one.  It compares whole keys, so it never finds a    *)
(* key that is not there.                                                    *)
(****************************************************************************)
EXTENDS Integers

CONSTANTS
    Handle,     \* the lidars, by their address
    NoHandle,   \* the address 0 of a device nobody filled in
    N,          \* devices: kMaxSourceLidar in the code
    Looker      \* threads that look indices up

ASSUME CacheAssumption == N \in Nat \ {0} /\ NoHandle \notin Handle

Index == 0 .. N - 1
NoIndex == -1          \* the key is not in map_index_

VARIABLES
    map_index,     \* map_index_
    index_cache,   \* indices marked in index_cache_
    listening,     \* the info change callback is registered
    stage,         \* where GetFreeIndex or its caller is ...
    key,           \* ... for which lidar ...
    slot,          \* ... and with which index
    lidar_type,    \* devices whose lidar_type is set
    handle,        \* lidars_[i].handle
    look_at,       \* where each looker is in GetIndex ...
    look_key,      \* ... for which lidar ...
    look_index     \* ... and the index it got

regVars == <<listening, stage, key, slot>>
lookVars == <<look_at, look_key, look_index>>
deviceVars == <<lidar_type, handle>>
cacheVars == <<map_index, index_cache, listening, stage, key, slot,
               lidar_type, handle, look_at, look_key, look_index>>

CacheInit ==
    /\ map_index = [h \in Handle |-> NoIndex]
    /\ index_cache = {}
    /\ listening = FALSE
    /\ stage = "idle" /\ key = NoHandle /\ slot = NoIndex
    /\ lidar_type = {}
    /\ handle = [i \in Index |-> NoHandle]
    /\ look_at = [t \in Looker |-> "idle"]
    /\ look_key = [t \in Looker |-> NoHandle]
    /\ look_index = [t \in Looker |-> NoIndex]

-----------------------------------------------------------------------------
(* GetFreeIndex, two critical sections                                       *)

\* Fault: the key is not searched for.
GetFreeIndexUnsearched(h) ==
    /\ stage = "idle"
    /\ key' = h
    /\ stage' = "scan" /\ slot' = slot
    /\ UNCHANGED <<map_index, index_cache, deviceVars, lookVars>>

\* The first: the lidar has an index already, or the second is entered.
GetFreeIndex(h) ==
    /\ stage = "idle"
    /\ key' = h
    /\ IF map_index[h] # NoIndex
          THEN stage' = "described" /\ slot' = map_index[h]
          ELSE stage' = "scan" /\ slot' = slot
    /\ UNCHANGED <<map_index, index_cache, deviceVars, lookVars>>

\* Fault: the index is not marked.
ScanFreeUnmarked ==
    /\ stage = "scan"
    /\ \E i \in Index \ index_cache :
        /\ \A j \in Index \ index_cache : i <= j
        /\ slot' = i
    /\ stage' = "insert"
    /\ UNCHANGED <<map_index, index_cache, listening, key, deviceVars, lookVars>>

\* The second: the first free index is marked ...
ScanFree ==
    /\ stage = "scan"
    /\ \E i \in Index \ index_cache :
        /\ \A j \in Index \ index_cache : i <= j
        /\ slot' = i
        /\ index_cache' = index_cache \cup {i}
    /\ stage' = "insert"
    /\ UNCHANGED <<map_index, listening, key, deviceVars, lookVars>>

ScanNone ==
    /\ stage = "scan"
    /\ Index \subseteq index_cache
    /\ stage' = "idle" /\ key' = NoHandle /\ slot' = NoIndex
    /\ UNCHANGED <<map_index, index_cache, listening, deviceVars, lookVars>>

\* ... and entered into the map.
Insert ==
    /\ stage = "insert"
    /\ map_index' = [map_index EXCEPT ![key] = slot]
    /\ stage' = "described"
    /\ UNCHANGED <<index_cache, listening, key, slot, deviceVars, lookVars>>

-----------------------------------------------------------------------------
(* The callers of GetFreeIndex                                               *)

\* InitLivoxLidar: an entry of the configuration file, which may name a lidar
\* twice.
FillIn(h) == ~listening /\ GetFreeIndex(h) /\ UNCHANGED listening

\* The end of InitLivoxLidar: SetLivoxLidarInfoChangeCallback.
Listen ==
    /\ ~listening /\ stage = "idle"
    /\ listening' = TRUE
    /\ UNCHANGED <<map_index, index_cache, stage, key, slot, deviceVars, lookVars>>

\* LidarInfoChangeCallback for a lidar that GetLidarDevice does not know.
Discover(h) ==
    /\ listening /\ map_index[h] = NoIndex
    /\ GetFreeIndex(h)
    /\ UNCHANGED listening

\* What the caller then writes into the device: InitLivoxLidar also its handle,
\* LidarInfoChangeCallback only its type.
Describe ==
    /\ stage = "described"
    /\ lidar_type' = lidar_type \cup {slot}
    /\ handle' = IF listening THEN handle ELSE [handle EXCEPT ![slot] = key]
    /\ stage' = "idle" /\ key' = NoHandle /\ slot' = NoIndex
    /\ UNCHANGED <<map_index, index_cache, listening, lookVars>>

-----------------------------------------------------------------------------
(* GetIndex                                                                  *)

Locked == stage = "insert"        \* GetFreeIndex holds index_mutex_

\* What the search for h may find.
FindOutcomes(h) ==
    IF Locked /\ (map_index[h] # NoIndex \/ h = key) THEN BOOLEAN
    ELSE {map_index[h] # NoIndex}

\* Fault: no search, as if operator[] could tell a missing key.
FindAlways(t, h) ==
    /\ look_at[t] = "idle"
    /\ look_at' = [look_at EXCEPT ![t] = "found"]
    /\ look_key' = [look_key EXCEPT ![t] = h]
    /\ UNCHANGED <<map_index, index_cache, regVars, deviceVars, look_index>>

\* The unlocked search.  If it fails, GetIndex fails and the datum is dropped.
Find(t, h) ==
    /\ look_at[t] = "idle"
    /\ TRUE \in FindOutcomes(h)
    /\ look_at' = [look_at EXCEPT ![t] = "found"]
    /\ look_key' = [look_key EXCEPT ![t] = h]
    /\ UNCHANGED <<map_index, index_cache, regVars, deviceVars, look_index>>

\* map_index_[key], which enters the index 0 for a key that is not there.
Read(t) ==
    /\ look_at[t] = "found" /\ ~Locked
    /\ LET k == look_key[t]
           entry == IF map_index[k] = NoIndex THEN 0 ELSE map_index[k]
       IN  /\ map_index' = [map_index EXCEPT ![k] = entry]
           /\ look_index' = [look_index EXCEPT ![t] = entry]
    /\ look_at' = [look_at EXCEPT ![t] = "got"]
    /\ UNCHANGED <<index_cache, regVars, deviceVars, look_key>>

\* The caller has done what it wanted the index for.
Use(t) ==
    /\ look_at[t] = "got"
    /\ look_at' = [look_at EXCEPT ![t] = "idle"]
    /\ look_key' = [look_key EXCEPT ![t] = NoHandle]
    /\ look_index' = [look_index EXCEPT ![t] = NoIndex]
    /\ UNCHANGED <<map_index, index_cache, regVars, deviceVars>>

-----------------------------------------------------------------------------
Registering ==
    \/ \E h \in Handle : FillIn(h) \/ Discover(h)
    \/ Listen
    \/ ScanFree \/ ScanNone \/ Insert
    \/ Describe

LookingUp(t) == (\E h \in Handle : Find(t, h)) \/ Read(t) \/ Use(t)

CacheNext == Registering \/ \E t \in Looker : LookingUp(t)

CacheSpec == CacheInit /\ [][CacheNext]_cacheVars

-----------------------------------------------------------------------------
(* Properties                                                                *)

\* Every variable has its type.
CacheTypeOK ==
    /\ map_index \in [Handle -> Index \cup {NoIndex}]
    /\ index_cache \subseteq Index
    /\ listening \in BOOLEAN
    /\ stage \in {"idle", "scan", "insert", "described"}
    /\ key \in Handle \cup {NoHandle} /\ slot \in Index \cup {NoIndex}
    /\ lidar_type \subseteq Index
    /\ handle \in [Index -> Handle \cup {NoHandle}]
    /\ look_at \in [Looker -> {"idle", "found", "got"}]
    /\ look_key \in [Looker -> Handle \cup {NoHandle}]
    /\ look_index \in [Looker -> Index \cup {NoIndex}]

\* Two lidars never share a device.
IndexUnique ==
    \A g, h \in Handle : map_index[g] = map_index[h] => g = h \/ map_index[g] = NoIndex

\* No device is lost: an index is marked exactly while a lidar has it or is
\* being given it, so that GetFreeIndex fails only when N lidars have one.
NoIndexLost ==
    \A i \in Index :
        i \in index_cache <=> (\E h \in Handle : map_index[h] = i)
                              \/ (stage = "insert" /\ slot = i)

\* An index that a lookup found is that of its lidar, and still is when the
\* caller uses it, although the map was searched without the mutex and may have
\* changed since.
LookupRight ==
    \A t \in Looker : look_at[t] = "got" => look_index[t] = map_index[look_key[t]]

\* A lidar keeps its device for good: frames, IMU data and commands that are
\* attributed to it at different times go to one device.
IndexStable ==
    [][\A h \in Handle : map_index[h] # NoIndex => map_index'[h] = map_index[h]]_cacheVars
=============================================================================
