--------------------------- MODULE CacheIndexProofs ---------------------------
(* Which device a lidar has, for any number of lidars, devices and threads.  *)
EXTENDS CacheIndex, TLAPS

-----------------------------------------------------------------------------
(* The inductive invariant                                                   *)

\* What GetFreeIndex knows of its lidar between its two critical sections and
\* in the second: nobody else enters it into the map meanwhile, so the search
\* of the first still holds in the second.
InRegistration ==
    /\ stage # "idle" => key \in Handle
    /\ stage \in {"scan", "insert"} => map_index[key] = NoIndex
    /\ stage = "insert" => slot \in Index /\ \A h \in Handle : map_index[h] # slot
    /\ stage = "described" => slot \in Index /\ map_index[key] = slot

\* What a lookup knows: a key that was found is in the map, or is being entered
\* by the thread that holds the mutex.
InLookup(t) ==
    /\ look_at[t] # "idle" => look_key[t] \in Handle
    /\ look_at[t] = "found" =>
          map_index[look_key[t]] # NoIndex \/ (Locked /\ look_key[t] = key)
    /\ look_at[t] = "got" =>
          look_index[t] # NoIndex /\ look_index[t] = map_index[look_key[t]]

CacheIInv ==
    /\ CacheTypeOK
    /\ IndexUnique
    /\ NoIndexLost
    /\ InRegistration
    /\ \A t \in Looker : InLookup(t)

\* Before anything is registered.
LEMMA InitCacheIInv == CacheInit => CacheIInv
<1> SUFFICES ASSUME CacheInit
             PROVE  CacheIInv
  OBVIOUS
<1>1. CacheTypeOK
  BY DEF CacheInit, CacheTypeOK
<1>2. NoIndex \notin Index
  BY CacheAssumption DEF Index, NoIndex
<1>3. \A h \in Handle : map_index[h] = NoIndex
  BY DEF CacheInit
<1>4. IndexUnique /\ NoIndexLost /\ InRegistration
  BY <1>2, <1>3 DEF CacheInit, IndexUnique, NoIndexLost, InRegistration
<1>5. \A t \in Looker : InLookup(t)
  BY DEF CacheInit, InLookup
<1> QED
  BY <1>1, <1>4, <1>5 DEF CacheIInv

-----------------------------------------------------------------------------
(* One lemma for each action that is more than bookkeeping                   *)

\* The first critical section of GetFreeIndex.
LEMMA GetFreeIndexStep ==
    ASSUME CacheIInv, NEW h \in Handle, GetFreeIndex(h), listening' \in BOOLEAN
    PROVE  CacheIInv'
<1>1. CacheTypeOK'
  BY DEF CacheIInv, CacheTypeOK, GetFreeIndex, deviceVars, lookVars
<1>2. IndexUnique'
  BY DEF CacheIInv, IndexUnique, GetFreeIndex
<1>3. NoIndexLost'
  BY DEF CacheIInv, NoIndexLost, GetFreeIndex
<1>4. InRegistration'
  BY DEF CacheIInv, CacheTypeOK, InRegistration, GetFreeIndex
<1>5. ~Locked
  BY DEF Locked, GetFreeIndex
<1>6. \A t \in Looker : InLookup(t)'
  BY <1>5 DEF CacheIInv, InLookup, GetFreeIndex, lookVars, Locked
<1> QED
  BY <1>1, <1>2, <1>3, <1>4, <1>6 DEF CacheIInv

\* The scan of the second marks an index that no lidar has.
LEMMA ScanFreeStep == CacheIInv /\ ScanFree => CacheIInv'
<1> SUFFICES ASSUME CacheIInv, ScanFree
             PROVE  CacheIInv'
  OBVIOUS
<1>1. /\ slot' \in Index \ index_cache
      /\ index_cache' = index_cache \cup {slot'}
  BY DEF ScanFree
<1>2. CacheTypeOK'
  BY <1>1 DEF CacheIInv, CacheTypeOK, ScanFree, deviceVars, lookVars
<1>3. IndexUnique'
  BY DEF CacheIInv, IndexUnique, ScanFree
<1>4. \A h \in Handle : map_index[h] # slot'
  BY <1>1 DEF CacheIInv, NoIndexLost
<1>5. NoIndexLost'
  BY <1>1 DEF CacheIInv, NoIndexLost, ScanFree
<1>6. InRegistration'
  BY <1>1, <1>4 DEF CacheIInv, InRegistration, ScanFree
<1>7. \A t \in Looker : InLookup(t)'
  BY DEF CacheIInv, InLookup, ScanFree, lookVars, Locked
<1> QED
  BY <1>2, <1>3, <1>5, <1>6, <1>7 DEF CacheIInv

\* The insertion gives it to the lidar that the scan was for.
LEMMA InsertStep == CacheIInv /\ Insert => CacheIInv'
<1> SUFFICES ASSUME CacheIInv, Insert
             PROVE  CacheIInv'
  OBVIOUS
<1>1. /\ key \in Handle /\ slot \in Index
      /\ map_index[key] = NoIndex
      /\ \A h \in Handle : map_index[h] # slot
  BY DEF CacheIInv, InRegistration, Insert
<1>2. \A h \in Handle : map_index'[h] = IF h = key THEN slot ELSE map_index[h]
  BY <1>1 DEF CacheIInv, CacheTypeOK, Insert
<1>3. slot # NoIndex
  BY <1>1, CacheAssumption DEF Index, NoIndex
<1>4. CacheTypeOK'
  BY <1>1 DEF CacheIInv, CacheTypeOK, Insert, deviceVars, lookVars
<1>5. IndexUnique'
  BY <1>1, <1>2, <1>3 DEF CacheIInv, IndexUnique
<1>6. NoIndexLost'
  <2> SUFFICES ASSUME NEW i \in Index
               PROVE  i \in index_cache <=> \E h \in Handle : map_index'[h] = i
    BY DEF NoIndexLost, Insert
  <2>1. CASE i = slot
    BY <1>1, <1>2, <2>1 DEF CacheIInv, NoIndexLost, Insert
  <2>2. CASE i # slot
    <3>1. i # NoIndex
      BY CacheAssumption DEF Index, NoIndex
    <3>2. (\E h \in Handle : map_index'[h] = i) <=> (\E h \in Handle : map_index[h] = i)
      BY <1>1, <1>2, <2>2, <3>1
    <3> QED
      BY <2>2, <3>2 DEF CacheIInv, NoIndexLost
  <2> QED
    BY <2>1, <2>2
<1>7. InRegistration'
  BY <1>1, <1>2 DEF InRegistration, Insert
<1>8. ASSUME NEW t \in Looker
      PROVE  InLookup(t)'
  <2>1. InLookup(t) /\ UNCHANGED lookVars /\ stage' = "described"
    BY DEF CacheIInv, Insert
  <2>2. look_at[t] # "idle" => map_index'[look_key[t]] # NoIndex
    BY <1>2, <1>3, <2>1 DEF InLookup, CacheIInv, CacheTypeOK
  <2>3. look_at[t] = "got" => map_index'[look_key[t]] = map_index[look_key[t]]
    BY <1>1, <1>2, <2>1 DEF InLookup
  <2> QED
    BY <2>1, <2>2, <2>3 DEF InLookup, lookVars
<1> QED
  BY <1>4, <1>5, <1>6, <1>7, <1>8 DEF CacheIInv

\* The search of GetIndex, without the mutex.
LEMMA FindStep ==
    ASSUME CacheIInv, NEW t \in Looker, NEW h \in Handle, Find(t, h)
    PROVE  CacheIInv'
<1>1. map_index[h] # NoIndex \/ (Locked /\ h = key)
  BY DEF Find, FindOutcomes
<1>2. CacheTypeOK'
  BY DEF CacheIInv, CacheTypeOK, Find, deviceVars, regVars
<1>3. IndexUnique' /\ NoIndexLost' /\ InRegistration'
  BY DEF CacheIInv, IndexUnique, NoIndexLost, InRegistration, Find, regVars
<1>4. ASSUME NEW u \in Looker
      PROVE  InLookup(u)'
  BY <1>1 DEF CacheIInv, CacheTypeOK, InLookup, Find, regVars, Locked
<1> QED
  BY <1>2, <1>3, <1>4 DEF CacheIInv

\* Reading the map under the mutex: the key is there, so operator[] adds none.
LEMMA ReadStep ==
    ASSUME CacheIInv, NEW t \in Looker, Read(t)
    PROVE  CacheIInv' /\ map_index' = map_index
<1>1. look_key[t] \in Handle /\ map_index[look_key[t]] # NoIndex
  BY DEF CacheIInv, InLookup, Read
<1>2. map_index' = map_index /\ look_index' = [look_index EXCEPT ![t] = map_index[look_key[t]]]
  BY <1>1 DEF CacheIInv, CacheTypeOK, Read
<1>3. CacheTypeOK'
  BY <1>1, <1>2 DEF CacheIInv, CacheTypeOK, Read, deviceVars, regVars
<1>4. IndexUnique' /\ NoIndexLost' /\ InRegistration'
  BY <1>2 DEF CacheIInv, IndexUnique, NoIndexLost, InRegistration, Read, regVars
<1>5. ASSUME NEW u \in Looker
      PROVE  InLookup(u)'
  BY <1>1, <1>2 DEF CacheIInv, CacheTypeOK, InLookup, Read, regVars, Locked
<1> QED
  BY <1>2, <1>3, <1>4, <1>5 DEF CacheIInv

\* The end of a lookup.
LEMMA UseStep ==
    ASSUME CacheIInv, NEW t \in Looker, Use(t)
    PROVE  CacheIInv'
<1>1. CacheTypeOK'
  BY DEF CacheIInv, CacheTypeOK, Use, deviceVars, regVars
<1>2. IndexUnique' /\ NoIndexLost' /\ InRegistration'
  BY DEF CacheIInv, IndexUnique, NoIndexLost, InRegistration, Use, regVars
<1>3. ASSUME NEW u \in Looker
      PROVE  InLookup(u)'
  BY DEF CacheIInv, CacheTypeOK, InLookup, Use, regVars, Locked
<1> QED
  BY <1>1, <1>2, <1>3 DEF CacheIInv

\* The steps that leave the map, the marks and the lookups alone.
LEMMA OtherSteps == CacheIInv /\ (ScanNone \/ Describe \/ Listen) => CacheIInv'
<1> SUFFICES ASSUME CacheIInv, ScanNone \/ Describe \/ Listen
             PROVE  CacheIInv'
  OBVIOUS
<1>1. /\ UNCHANGED <<map_index, index_cache, lookVars>>
      /\ stage' = "idle" /\ stage # "insert"
  BY DEF ScanNone, Describe, Listen
<1>2. CacheTypeOK'
  <2>1. CASE ScanNone
    BY <2>1 DEF CacheIInv, CacheTypeOK, ScanNone, deviceVars, lookVars
  <2>2. CASE Describe
    BY <2>2 DEF CacheIInv, CacheTypeOK, InRegistration, Describe, lookVars
  <2>3. CASE Listen
    BY <2>3 DEF CacheIInv, CacheTypeOK, Listen, deviceVars, lookVars
  <2> QED
    BY <2>1, <2>2, <2>3
<1>3. IndexUnique' /\ NoIndexLost' /\ InRegistration'
  BY <1>1 DEF CacheIInv, IndexUnique, NoIndexLost, InRegistration
<1>4. \A t \in Looker : InLookup(t)'
  BY <1>1 DEF CacheIInv, InLookup, lookVars, Locked
<1> QED
  BY <1>2, <1>3, <1>4 DEF CacheIInv

\* A step that changes none of the variables.
LEMMA CacheStutter == CacheIInv /\ UNCHANGED cacheVars => CacheIInv'
  BY DEF CacheIInv, CacheTypeOK, IndexUnique, NoIndexLost, InRegistration, InLookup,
         Locked, cacheVars

-----------------------------------------------------------------------------
(* The theorems                                                              *)

\* Every step keeps the invariant.
LEMMA CacheNextStep == CacheIInv /\ [CacheNext]_cacheVars => CacheIInv'
<1> SUFFICES ASSUME CacheIInv, [CacheNext]_cacheVars
             PROVE  CacheIInv'
  OBVIOUS
<1>1. CASE Registering
  <2>1. ASSUME NEW h \in Handle, FillIn(h) \/ Discover(h)
        PROVE  CacheIInv'
    <3>1. GetFreeIndex(h) /\ listening' \in BOOLEAN
      BY <2>1 DEF FillIn, Discover, CacheIInv, CacheTypeOK
    <3> QED
      BY <3>1, GetFreeIndexStep
  <2> QED
    BY <1>1, <2>1, ScanFreeStep, InsertStep, OtherSteps DEF Registering
<1>2. ASSUME NEW t \in Looker, LookingUp(t)
      PROVE  CacheIInv'
  BY <1>2, FindStep, ReadStep, UseStep DEF LookingUp
<1>3. CASE UNCHANGED cacheVars
  BY <1>3, CacheStutter
<1> QED
  BY <1>1, <1>2, <1>3 DEF CacheNext

\* The invariant holds for any number of lidars, devices and threads that look
\* indices up.
THEOREM CacheInvariance == CacheSpec => []CacheIInv
  BY InitCacheIInv, CacheNextStep, PTL DEF CacheSpec

\* Every variable has its type; no index outside lidars_ is given out.
THEOREM CacheTypes == CacheSpec => []CacheTypeOK
<1>1. CacheIInv => CacheTypeOK
  BY DEF CacheIInv
<1> QED
  BY <1>1, CacheInvariance, PTL

\* Two lidars never share a device, with indices given out by one thread at a time.
THEOREM DevicesUnique == CacheSpec => []IndexUnique
<1>1. CacheIInv => IndexUnique
  BY DEF CacheIInv
<1> QED
  BY <1>1, CacheInvariance, PTL

\* No device is lost.
THEOREM DevicesKept == CacheSpec => []NoIndexLost
<1>1. CacheIInv => NoIndexLost
  BY DEF CacheIInv
<1> QED
  BY <1>1, CacheInvariance, PTL

\* The index a lookup got is that of its lidar, though it searched the map
\* without the mutex.
THEOREM LookupsRight == CacheSpec => []LookupRight
<1>1. CacheIInv => LookupRight
  BY DEF CacheIInv, InLookup, LookupRight
<1> QED
  BY <1>1, CacheInvariance, PTL

\* No step takes a lidar's device away.
LEMMA DeviceKept ==
    ASSUME CacheIInv, [CacheNext]_cacheVars, NEW h \in Handle, map_index[h] # NoIndex
    PROVE  map_index'[h] = map_index[h]
<1>1. CASE Registering
  <2>1. CASE Insert
    BY <2>1 DEF Insert, CacheIInv, CacheTypeOK, InRegistration
  <2>2. CASE ~Insert
    BY <1>1, <2>2 DEF Registering, FillIn, Discover, GetFreeIndex, Listen, ScanFree,
                      ScanNone, Describe
  <2> QED
    BY <2>1, <2>2
<1>2. ASSUME NEW t \in Looker, LookingUp(t)
      PROVE  map_index'[h] = map_index[h]
  <2>1. CASE Read(t)
    BY <2>1, ReadStep
  <2>2. CASE ~Read(t)
    BY <1>2, <2>2 DEF LookingUp, Find, Use
  <2> QED
    BY <2>1, <2>2
<1>3. CASE UNCHANGED cacheVars
  BY <1>3 DEF cacheVars
<1> QED
  BY <1>1, <1>2, <1>3 DEF CacheNext

\* A lidar keeps its device for good.
THEOREM DevicesStable == CacheSpec => IndexStable
<1> DEFINE Kept == \A h \in Handle : map_index[h] # NoIndex => map_index'[h] = map_index[h]
<1>1. CacheIInv /\ [CacheNext]_cacheVars => [Kept]_cacheVars
  BY DeviceKept
<1> QED
  BY <1>1, CacheInvariance, PTL DEF CacheSpec, IndexStable

-----------------------------------------------------------------------------
(* The handle of a device                                                    *)

\* A device's handle is that of its lidar, and one that was described before
\* the callback was registered has it.
HandlesNamed ==
    /\ \A i \in Index :
          handle[i] # NoHandle => handle[i] \in Handle /\ map_index[handle[i]] = i
    /\ \A i \in lidar_type : ~listening => handle[i] # NoHandle

\* A device that has its type keeps its handle: the name of its lidar, or none,
\* does not change any more.
LEMMA HandlesStep ==
    ASSUME CacheIInv, HandlesNamed, [CacheNext]_cacheVars
    PROVE  /\ HandlesNamed'
           /\ lidar_type \subseteq lidar_type'
           /\ \A i \in lidar_type : handle'[i] = handle[i]
<1>1. \A h \in Handle : map_index[h] # NoIndex => map_index'[h] = map_index[h]
  BY DeviceKept
<1>2. NoIndex \notin Index /\ NoHandle \notin Handle
  BY CacheAssumption DEF Index, NoIndex
<1>3. ASSUME UNCHANGED deviceVars, listening => listening'
      PROVE  /\ HandlesNamed'
             /\ lidar_type \subseteq lidar_type'
             /\ \A i \in lidar_type : handle'[i] = handle[i]
  BY <1>1, <1>2, <1>3 DEF HandlesNamed, deviceVars
<1>4. CASE Describe
  <2>1. /\ key \in Handle /\ slot \in Index /\ map_index[key] = slot
        /\ lidar_type' = lidar_type \cup {slot}
        /\ UNCHANGED <<map_index, listening>>
        /\ handle \in [Index -> Handle \cup {NoHandle}] /\ lidar_type \subseteq Index
    BY <1>4 DEF Describe, CacheIInv, CacheTypeOK, InRegistration
  <2>2. CASE listening
    BY <1>4, <2>1, <2>2 DEF Describe, HandlesNamed
  <2>3. CASE ~listening
    <3>1. \A i \in Index : handle'[i] = IF i = slot THEN key ELSE handle[i]
      BY <1>4, <2>1, <2>3 DEF Describe
    <3>2. HandlesNamed'
      BY <1>2, <2>1, <3>1 DEF HandlesNamed
    <3>3. slot \in lidar_type => handle[slot] = key
      <4> SUFFICES ASSUME slot \in lidar_type
                   PROVE  handle[slot] = key
        OBVIOUS
      <4>1. handle[slot] \in Handle /\ map_index[handle[slot]] = slot
        BY <2>1, <2>3 DEF HandlesNamed
      <4> QED
        BY <1>2, <2>1, <4>1 DEF CacheIInv, IndexUnique
    <3> QED
      BY <2>1, <3>1, <3>2, <3>3
  <2> QED
    BY <2>2, <2>3
<1>5. CASE ~Describe
  <2>1. UNCHANGED deviceVars /\ (listening => listening')
    <3>1. CASE Registering
      BY <1>5, <3>1 DEF Registering, FillIn, Discover, GetFreeIndex, Listen, ScanFree, ScanNone,
                        Insert, deviceVars
    <3>2. ASSUME NEW t \in Looker, LookingUp(t)
          PROVE  UNCHANGED <<lidar_type, handle, listening>>
      BY <3>2 DEF LookingUp, Find, Read, Use, deviceVars, regVars
    <3>3. CASE UNCHANGED cacheVars
      BY <3>3 DEF cacheVars, deviceVars
    <3> QED
      BY <3>1, <3>2, <3>3 DEF CacheNext, deviceVars
  <2> QED
    BY <1>3, <2>1
<1> QED
  BY <1>4, <1>5
=============================================================================
