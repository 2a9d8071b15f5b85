--------------------------- MODULE ServicesProofs ---------------------------
(***************************************************************************)
(* Proofs about the parts of MCServices, for every value of their          *)
(* constants: the inference engine, the cache of embedders and rerankers,  *)
(* the row of a job, and the index of a source.                            *)
(***************************************************************************)
EXTENDS MCServices, FiniteSetTheorems, TLAPS

-----------------------------------------------------------------------------
(* Inference.                                                              *)

(* The steps of a call under the lock.                                     *)
Inside == {"loading", "loaded", "touched", "generating", "chatting"}

Calls ==
  [op : {"none", "load", "unload", "generate", "chat"},
   at : {"idle", "waiting"} \cup Inside, model : Models \cup {None}, safe : BOOLEAN]

CallTypes ==
  /\ call \in [Requests -> Calls]
  /\ lock \in Requests \cup {None}
  /\ model \in Models \cup {None} /\ path \in Models \cup {None}

(* The lock is held by the one call that is under it, and the engine is    *)
(* busy while that call generates.                                         *)
OneInside ==
  /\ \A r \in Requests : call[r].at \in Inside <=> lock = r
  /\ busy = IF \E r \in Requests : call[r].at = "generating" THEN 1 ELSE 0

(* What a load has put in memory has no path yet.                          *)
LoadInPieces ==
  \A r \in Requests :
    /\ call[r].at = "loading" => model = None /\ path = None
    /\ call[r].at = "loaded" => model \in {None, call[r].model} /\ path = None

(* A timer thread that is still to come makes a generation unsafe.         *)
SafeFromTimer ==
  \A r \in Requests : call[r].at = "generating" /\ call[r].safe => ~due

EngineInv ==
  /\ CallTypes /\ OneInside /\ StatusNamesModel /\ LoadInPieces
  /\ SafeFromTimer /\ BusyKeepsModel

(* A call that is through is none.                                         *)
LEMMA IdleFacts == Idle \in Calls /\ Idle.at = "idle"
BY DEF Idle, Calls

LEMMA EngineInit == InfInit => EngineInv
<1> SUFFICES ASSUME InfInit PROVE EngineInv
  OBVIOUS
<1>1. CallTypes
  BY IdleFacts DEF InfInit, CallTypes
<1>2. \A r \in Requests : call[r].at = "idle"
  BY IdleFacts DEF InfInit
<1> QED
  BY <1>1, <1>2, InferenceAssumption DEF InfInit, EngineInv, OneInside,
  StatusNamesModel, LoadInPieces, SafeFromTimer, BusyKeepsModel, Inside

LEMMA EngineStep == EngineInv /\ [InfNext]_infVars => EngineInv'
<1> SUFFICES ASSUME EngineInv, [InfNext]_infVars PROVE EngineInv'
  OBVIOUS
<1> USE InferenceAssumption, IdleFacts DEF EngineInv, CallTypes, OneInside,
        StatusNamesModel, LoadInPieces, SafeFromTimer, BusyKeepsModel, Inside,
        engine, Step, Answer, Begins, Unloaded
<1>1. ASSUME NEW r \in Requests, NEW m \in Models \cup {None},
             NEW op \in {"load", "unload", "generate", "chat"}, Ask(r, op, m)
      PROVE  EngineInv'
  BY <1>1 DEF Ask, Calls
<1>2. ASSUME NEW r \in Requests, Unload(r) PROVE EngineInv'
  BY <1>2 DEF Unload
<1>3. ASSUME NEW r \in Requests, LoadBegins(r) PROVE EngineInv'
  BY <1>3 DEF LoadBegins, Calls
<1>4. ASSUME NEW r \in Requests, LoadFails(r) PROVE EngineInv'
  BY <1>4 DEF LoadFails
<1>5. ASSUME NEW r \in Requests, LoadModel(r) PROVE EngineInv'
  BY <1>5 DEF LoadModel, Calls
<1>6. ASSUME NEW r \in Requests, LoadEnds(r) PROVE EngineInv'
  BY <1>6 DEF LoadEnds, Calls
<1>7. ASSUME NEW r \in Requests, GenerateRefused(r) PROVE EngineInv'
  BY <1>7 DEF GenerateRefused
<1>8. ASSUME NEW r \in Requests, GenerateBegins(r) PROVE EngineInv'
  BY <1>8 DEF GenerateBegins, Calls
<1>9. ASSUME NEW r \in Requests, Generates(r) PROVE EngineInv'
  <2>1. CallTypes'
    <3>1. (~due) \in BOOLEAN
      OBVIOUS
    <3>2. ASSUME NEW s \in BOOLEAN
          PROVE  [call[r] EXCEPT !.at = "generating", !.model = model, !.safe = s] \in Calls
      <4>1. call[r] \in Calls /\ model \in Models \cup {None}
        OBVIOUS
      <4> QED BY <4>1 DEF Calls
    <3>3. call' \in [Requests -> Calls]
      BY <1>9, <3>1, <3>2, Zenon DEF Generates, CallTypes
    <3> QED BY <1>9, <3>3 DEF Generates
  <2>2. OneInside'
    BY <1>9 DEF Generates, Calls
  <2>3. (StatusNamesModel /\ LoadInPieces)'
    BY <1>9 DEF Generates, Calls
  <2>4. (SafeFromTimer /\ BusyKeepsModel)'
    BY <1>9 DEF Generates, Calls
  <2> QED BY <2>1, <2>2, <2>3, <2>4
<1>10. ASSUME NEW r \in Requests, GenerateEnds(r) PROVE EngineInv'
  BY <1>10 DEF GenerateEnds
<1>11. ASSUME NEW r \in Requests, ChatBegins(r) PROVE EngineInv'
  BY <1>11 DEF ChatBegins, Calls
<1>12. ASSUME NEW r \in Requests, ChatEnds(r) PROVE EngineInv'
  BY <1>12 DEF ChatEnds
<1>13. CASE TimerFires
  <2>2. OneInside'
    BY <1>13 DEF TimerFires
  <2>3. CallTypes' /\ (StatusNamesModel /\ LoadInPieces)'
    BY <1>13 DEF TimerFires
  <2>4. SafeFromTimer'
    <3>1. due' = due \/ busy = 0
      BY <1>13 DEF TimerFires
    <3>2. busy = 0 => \A r \in Requests : call[r].at # "generating"
      OBVIOUS
    <3> QED BY <1>13, <3>1, <3>2 DEF TimerFires
  <2>5. BusyKeepsModel'
    BY <1>13 DEF TimerFires
  <2> QED BY <2>2, <2>3, <2>4, <2>5
<1>14. CASE AutoUnload
  BY <1>14 DEF AutoUnload
<1>15. CASE WorkerDies
  BY <1>15 DEF WorkerDies
<1>16. CASE UNCHANGED infVars
  BY <1>16 DEF infVars
<1> HIDE DEF EngineInv, CallTypes, OneInside, StatusNamesModel, LoadInPieces,
        SafeFromTimer, BusyKeepsModel, Inside, engine, Step, Answer, Begins, Unloaded
<1> QED
  BY <1>1, <1>2, <1>3, <1>4, <1>5, <1>6, <1>7, <1>8, <1>9, <1>10, <1>11, <1>12,
     <1>13, <1>14, <1>15, <1>16 DEF InfNext, Serve

LEMMA EngineInvariance == InfSpec => []EngineInv
BY EngineInit, EngineStep, PTL DEF InfSpec

(* The engine's flags. *)
Flags == timer \in BOOLEAN /\ after \in BOOLEAN /\ due \in BOOLEAN

LEMMA FlagsStep == Flags /\ [InfNext]_infVars => Flags'
<1> SUFFICES ASSUME Flags, [InfNext]_infVars PROVE Flags'
  OBVIOUS
<1> USE DEF Flags, engine, Unloaded
<1>1. ASSUME NEW r \in Requests, NEW m \in Models \cup {None},
             NEW op \in {"load", "unload", "generate", "chat"}, Ask(r, op, m)
      PROVE  Flags'
  BY <1>1, Zenon DEF Ask
<1>2. ASSUME NEW r \in Requests, Serve(r) PROVE Flags'
  <2>1. CASE Unload(r) \/ LoadBegins(r) \/ LoadFails(r) \/ LoadModel(r) \/ LoadEnds(r)
    BY <2>1, Zenon DEF Unload, LoadBegins, LoadFails, LoadModel, LoadEnds
  <2>2. CASE \/ GenerateRefused(r) \/ GenerateBegins(r) \/ Generates(r)
             \/ GenerateEnds(r) \/ ChatBegins(r) \/ ChatEnds(r)
    BY <2>2, Zenon DEF GenerateRefused, GenerateBegins, Generates, GenerateEnds,
       ChatBegins, ChatEnds
  <2> QED BY <1>2, <2>1, <2>2 DEF Serve
<1>3. CASE TimerFires \/ AutoUnload \/ WorkerDies \/ UNCHANGED infVars
  BY <1>3, Zenon DEF TimerFires, AutoUnload, WorkerDies, infVars
<1> QED BY <1>1, <1>2, <1>3 DEF InfNext

(* For any number of requests: a generation keeps its model against every  *)
(* load, unload and timer that comes after it began (testing/inference.py  *)
(* _auto_unload's look at busy). Not against a timer thread that had found *)
(* the engine idle before it began and unloads it now: `safe` is FALSE of  *)
(* a generation that begins beside such a thread.                          *)
THEOREM GenerationKeepsModel == InfSpec => []BusyKeepsModel
<1>1. EngineInv => BusyKeepsModel
  BY DEF EngineInv
<1> QED BY <1>1, EngineInvariance, PTL

(* The status of the worker names no model but the one in memory           *)
(* (inference/worker.py status), whatever loads, timers and deaths come.   *)
THEOREM StatusIsTrue == InfSpec => []StatusNamesModel
<1>1. EngineInv => StatusNamesModel
  BY DEF EngineInv
<1> QED BY <1>1, EngineInvariance, PTL

-----------------------------------------------------------------------------
(* ModelCache.                                                             *)

Requesters ==
  [at : {"out", "waits", "loads", "has", "uses"}, key : Keys \cup {NoKey},
   entry : 0..MaxLoads, gen : 0..MaxReleases]

(* The types of what the table's lock guards. *)
TableTypes ==
  /\ table \in [Keys -> 0..MaxLoads] /\ loadedAt \in [Entries -> 0..MaxReleases]
  /\ caller \in [Callers -> Requesters]
  /\ generation \in 0..MaxReleases /\ loads \in 0..MaxLoads

Ticks == [fired : Nat, expiring : Nat, arming : Nat]

(* The others. *)
UseTypes ==
  /\ inUse \in [Entries -> SUBSET Callers] /\ idle \subseteq Entries
  /\ handle \in {"none", "asleep", "fired"}
  /\ strays \in Nat /\ ticks \in Ticks

(* The table names loaded models only; while a key is being loaded, by one *)
(* request, it has no model.                                               *)
KeyLocked ==
  /\ \A k \in Keys : table[k] <= loads
  /\ \A c \in Callers :
       /\ caller[c].at \in {"waits", "loads"} => caller[c].key \in Keys
       /\ caller[c].at = "loads" => table[caller[c].key] = 0
  /\ \A c, d \in Callers :
       caller[c].at = "loads" /\ caller[d].at = "loads" /\ caller[c].key = caller[d].key
         => c = d

CacheInv == TableTypes /\ KeyLocked /\ ReleaseIsFinal

LEMMA OutFacts == Out \in Requesters /\ Out.at = "out"
BY CacheAssumption DEF Out, Requesters

LEMMA CacheInitInv == CacheInit => CacheInv /\ UseTypes
<1> SUFFICES ASSUME CacheInit PROVE CacheInv /\ UseTypes
  OBVIOUS
<1>1. TableTypes
  BY OutFacts, CacheAssumption DEF CacheInit, TableTypes
<1>2. \A c \in Callers : caller[c].at = "out"
  BY OutFacts DEF CacheInit
<1>3. KeyLocked /\ ReleaseIsFinal
  BY <1>2, CacheAssumption DEF CacheInit, KeyLocked, ReleaseIsFinal
<1>4. UseTypes
  BY DEF CacheInit, UseTypes, Ticks
<1> QED BY <1>1, <1>3, <1>4 DEF CacheInv

(* A request that moves on and leaves the table as it is.                  *)
LEMMA RequestMoves ==
  ASSUME CacheInv, NEW c \in Callers, NEW q \in Requesters,
         caller' = [caller EXCEPT ![c] = q],
         table' = table, loadedAt' = loadedAt, generation' = generation, loads' = loads,
         q.at \in {"waits", "loads"} => q.key \in Keys,
         q.at = "loads" =>
           /\ table[q.key] = 0
           /\ \A d \in Callers : ~(caller[d].at = "loads" /\ caller[d].key = q.key)
  PROVE  CacheInv'
<1>1. TableTypes'
  BY DEF CacheInv, TableTypes
<1>2. KeyLocked'
  BY DEF CacheInv, KeyLocked, TableTypes
<1>3. ReleaseIsFinal'
  BY DEF CacheInv, ReleaseIsFinal
<1> QED BY <1>1, <1>2, <1>3 DEF CacheInv

LEMMA CacheStep == CacheInv /\ [CacheNext]_cacheVars => CacheInv'
<1> SUFFICES ASSUME CacheInv, [CacheNext]_cacheVars PROVE CacheInv'
  OBVIOUS
<1> USE CacheAssumption, OutFacts DEF CacheInv, TableTypes, KeyLocked, ReleaseIsFinal,
        Entries, Goes, Gets, timers
<1>1. ASSUME NEW c \in Callers, NEW k \in Keys, Looks(c, k) PROVE CacheInv'
  <2> DEFINE q == IF table[k] # 0
                  THEN [Out EXCEPT !.at = "has", !.key = k, !.entry = table[k]]
                  ELSE [Out EXCEPT !.at = "waits", !.key = k]
  <2>1. q \in Requesters /\ q.at # "loads" /\ q.key \in Keys
    BY DEF Requesters, Out
  <2>2. caller' = [caller EXCEPT ![c] = q]
    BY <1>1 DEF Looks
  <2> HIDE DEF q
  <2> QED BY <1>1, <2>1, <2>2, RequestMoves DEF Looks
<1>2. ASSUME NEW c \in Callers, BeginsLoad(c) PROVE CacheInv'
  <2> DEFINE k == caller[c].key
             q == IF table[k] # 0
                  THEN [caller[c] EXCEPT !.at = "has", !.entry = table[k]]
                  ELSE [caller[c] EXCEPT !.at = "loads", !.gen = generation]
  <2>1. k \in Keys
    BY <1>2 DEF BeginsLoad
  <2>2. /\ q \in Requesters
        /\ q.at \in {"waits", "loads"} => q.key = k /\ table[k] = 0
    BY <2>1 DEF Requesters
  <2>3. caller' = [caller EXCEPT ![c] = q]
    BY <1>2 DEF BeginsLoad
  <2>4. \A d \in Callers : ~(caller[d].at = "loads" /\ caller[d].key = k)
    BY <1>2 DEF BeginsLoad
  <2> HIDE DEF q
  <2> QED BY <1>2, <2>1, <2>2, <2>3, <2>4, RequestMoves DEF BeginsLoad
<1>3. ASSUME NEW c \in Callers, LoaderRaises(c) PROVE CacheInv'
  BY <1>3, RequestMoves DEF LoaderRaises
<1>4. ASSUME NEW c \in Callers, Loaded(c) PROVE CacheInv'
  <2> DEFINE e == loads + 1
             q == [caller[c] EXCEPT !.at = "has", !.entry = e]
  <2>1. e \in Entries /\ loads' = e /\ generation' = generation
    BY <1>4 DEF Loaded, HasLoaded
  <2>2. q \in Requesters /\ q.at = "has"
    <3>1. e \in 0..MaxLoads /\ caller[c] \in Requesters
      BY <2>1
    <3> HIDE DEF e
    <3> QED BY <3>1 DEF Requesters
  <2>3. caller' = [caller EXCEPT ![c] = q]
    BY <1>4 DEF Loaded, HasLoaded
  <2>4. /\ caller[c].at = "loads" /\ caller[c].key \in Keys
        /\ caller[c].gen \in 0..MaxReleases
    BY <1>4 DEF Loaded, HasLoaded, Requesters
  <2>5. loadedAt' = [loadedAt EXCEPT ![e] = caller[c].gen]
    BY <1>4 DEF Loaded, HasLoaded
  <2>6. \/ caller[c].gen = generation /\ table' = [table EXCEPT ![caller[c].key] = e]
        \/ table' = table
    BY <1>4 DEF Loaded
  <2> HIDE DEF e, q
  <2>7. TableTypes'
    <3>1. e \in 0..MaxLoads
      BY <2>1
    <3>2. table' \in [Keys -> 0..MaxLoads] /\ loads' \in 0..MaxLoads
      BY <2>1, <2>6, <3>1
    <3>3. loadedAt' \in [Entries -> 0..MaxReleases] /\ generation' \in 0..MaxReleases
      <4> HIDE DEF Entries
      <4> QED BY <2>1, <2>4, <2>5
    <3>4. caller' \in [Callers -> Requesters]
      BY <2>2, <2>3
    <3> QED BY <3>2, <3>3, <3>4
  <2>8. KeyLocked'
    <3>1. e = loads + 1
      BY DEF e
    <3>2. \A k \in Keys : table'[k] <= loads'
      BY <2>1, <2>4, <2>6, <3>1, SMTT(60)
    <3>3. \A d \in Callers : caller'[d].at = "loads" => d # c /\ caller'[d] = caller[d]
      BY <2>2, <2>3, SMTT(30)
    <3>4. \A d \in Callers : caller'[d].at \in {"waits", "loads"} => caller'[d] = caller[d]
      BY <2>2, <2>3
    <3>5. \A d \in Callers : caller'[d].at = "loads" => table'[caller'[d].key] = 0
      BY <2>4, <2>6, <3>3
    <3> QED BY <3>2, <3>3, <3>4, <3>5
  <2>9. ReleaseIsFinal'
    <3>1. \A k \in Keys : table[k] # e
      BY <2>1 DEF e
    <3> QED BY <2>1, <2>4, <2>5, <2>6, <3>1
  <2> QED BY <2>7, <2>8, <2>9
<1>5. ASSUME NEW c \in Callers, BeginsUse(c) PROVE CacheInv'
  <2> DEFINE q == [caller[c] EXCEPT !.at = "uses"]
  <2>1. caller[c] \in Requesters
    OBVIOUS
  <2>2. q \in Requesters /\ q.at = "uses"
    BY <2>1 DEF Requesters
  <2>3. caller' = [caller EXCEPT ![c] = q]
    BY <1>5 DEF BeginsUse
  <2> HIDE DEF q
  <2> QED BY <1>5, <2>2, <2>3, RequestMoves DEF BeginsUse
<1>6. ASSUME NEW c \in Callers, EndsUse(c) PROVE CacheInv'
  <2> DEFINE q == [caller[c] EXCEPT !.at = "has"]
  <2>1. caller[c] \in Requesters
    OBVIOUS
  <2>2. q \in Requesters /\ q.at = "has"
    BY <2>1 DEF Requesters
  <2>3. caller' = [caller EXCEPT ![c] = q]
    BY <1>6 DEF EndsUse
  <2> HIDE DEF q
  <2> QED BY <1>6, <2>2, <2>3, RequestMoves DEF EndsUse
<1>7. ASSUME NEW c \in Callers, Forgets(c) PROVE CacheInv'
  BY <1>7 DEF Forgets
<1>8. CASE Releases
  BY <1>8 DEF Releases
<1>9. ASSUME NEW e \in Entries, Ages(e) PROVE CacheInv'
  BY <1>9 DEF Ages
<1>10. CASE TimerMoves
  <2>1. CASE TimerWakes \/ TimerClears \/ TimerArms
    BY <2>1 DEF TimerWakes, TimerClears, TimerArms
  <2>2. CASE TimerExpires
    BY <2>2 DEF TimerExpires
  <2> QED BY <1>10, <2>1, <2>2 DEF TimerMoves
<1>11. CASE UNCHANGED cacheVars
  BY <1>11 DEF cacheVars
<1> QED
  BY <1>1, <1>2, <1>3, <1>4, <1>5, <1>6, <1>7, <1>8, <1>9, <1>10, <1>11 DEF CacheNext

(* A timer thread goes from one step to the next.                          *)
LEMMA TickFacts ==
  ASSUME NEW t \in Ticks, NEW n \in Nat, NEW m \in Nat
  PROVE  /\ [t EXCEPT !.fired = n, !.expiring = m] \in Ticks
         /\ [t EXCEPT !.expiring = n, !.arming = m] \in Ticks
         /\ [t EXCEPT !.fired = n] \in Ticks
         /\ [t EXCEPT !.arming = n] \in Ticks
BY DEF Ticks

LEMMA TicksStep == ASSUME ticks \in Ticks, TimerMoves PROVE ticks' \in Ticks
<1>1. ticks.fired \in Nat /\ ticks.expiring \in Nat /\ ticks.arming \in Nat
  BY DEF Ticks
<1>2. CASE TimerWakes
  <2>1. ticks' = [ticks EXCEPT !.fired = ticks.fired + 1]
    BY <1>2 DEF TimerWakes
  <2>2. ticks.fired + 1 \in Nat
    BY <1>1
  <2> QED BY <2>1, <2>2, TickFacts
<1>3. CASE TimerClears
  <2>1. ticks' = [ticks EXCEPT !.fired = ticks.fired - 1, !.expiring = ticks.expiring + 1]
    BY <1>3 DEF TimerClears
  <2>2. ticks.fired - 1 \in Nat /\ ticks.expiring + 1 \in Nat
    BY <1>1, <1>3 DEF TimerClears
  <2> QED BY <2>1, <2>2, TickFacts
<1>4. CASE TimerExpires
  <2>1. ticks' = [ticks EXCEPT !.expiring = ticks.expiring - 1, !.arming = ticks.arming + 1]
    BY <1>4 DEF TimerExpires
  <2>2. ticks.expiring - 1 \in Nat /\ ticks.arming + 1 \in Nat
    BY <1>1, <1>4 DEF TimerExpires
  <2> QED BY <2>1, <2>2, TickFacts
<1>5. CASE TimerArms
  <2>1. ticks' = [ticks EXCEPT !.arming = ticks.arming - 1]
    BY <1>5 DEF TimerArms
  <2>2. ticks.arming - 1 \in Nat
    BY <1>1, <1>5 DEF TimerArms
  <2> QED BY <2>1, <2>2, TickFacts
<1> QED BY <1>2, <1>3, <1>4, <1>5 DEF TimerMoves

LEMMA UseStep == UseTypes /\ CacheInv /\ [CacheNext]_cacheVars => UseTypes'
<1> SUFFICES ASSUME UseTypes, CacheInv, [CacheNext]_cacheVars PROVE UseTypes'
  OBVIOUS
<1> USE CacheAssumption DEF UseTypes, Entries, timers
<1>1. ASSUME NEW c \in Callers,
             \/ \E k \in Keys : Looks(c, k)
             \/ BeginsLoad(c) \/ LoaderRaises(c) \/ Forgets(c)
      PROVE  UseTypes'
  BY <1>1 DEF Looks, BeginsLoad, LoaderRaises, Forgets
<1>2. ASSUME NEW c \in Callers, Loaded(c) PROVE UseTypes'
  BY <1>2 DEF Loaded, HasLoaded, Arms
<1>3. ASSUME NEW c \in Callers, BeginsUse(c) \/ EndsUse(c) PROVE UseTypes'
  <2>1. CASE BeginsUse(c)
    BY <2>1 DEF BeginsUse
  <2>2. CASE EndsUse(c)
    BY <2>2 DEF EndsUse
  <2> QED BY <1>3, <2>1, <2>2
<1>4. CASE Releases
  BY <1>4 DEF Releases
<1>5. ASSUME NEW e \in Entries, Ages(e) PROVE UseTypes'
  BY <1>5 DEF Ages
<1>6. CASE TimerMoves
  <2>1. ticks' \in Ticks
    BY <1>6, TicksStep
  <2>2. inUse' = inUse /\ idle' = idle
    BY <1>6 DEF TimerMoves, TimerWakes, TimerClears, TimerExpires, TimerArms
  <2>3. handle' \in {"none", "asleep", "fired"}
    BY <1>6 DEF TimerMoves, TimerWakes, TimerClears, TimerExpires, TimerArms, Arms
  <2>4. strays' \in Nat
    BY <1>6 DEF TimerMoves, TimerWakes, TimerClears, TimerExpires, TimerArms
  <2> QED BY <2>1, <2>2, <2>3, <2>4
<1>7. CASE UNCHANGED cacheVars
  BY <1>7 DEF cacheVars
<1> QED
  BY <1>1, <1>2, <1>3, <1>4, <1>5, <1>6, <1>7 DEF CacheNext

(* An entry is put where there is none, under the lock of its key.         *)
LEMMA EntryStep ==
  CacheInv /\ [CacheNext]_cacheVars =>
    \A k \in Keys : table[k] # 0 /\ table'[k] # table[k] =>
      table'[k] = 0 /\ (generation' # generation \/ table[k] \in Expired)
<1> SUFFICES ASSUME CacheInv, [CacheNext]_cacheVars,
                    NEW k \in Keys, table[k] # 0, table'[k] # table[k]
             PROVE  table'[k] = 0 /\ (generation' # generation \/ table[k] \in Expired)
  OBVIOUS
<1> USE CacheAssumption DEF CacheInv, TableTypes, KeyLocked, timers
<1>1. ASSUME NEW c \in Callers,
             \/ \E l \in Keys : Looks(c, l)
             \/ BeginsLoad(c) \/ LoaderRaises(c) \/ Forgets(c) \/ BeginsUse(c) \/ EndsUse(c)
      PROVE  FALSE
  BY <1>1 DEF Looks, BeginsLoad, LoaderRaises, Forgets, BeginsUse, EndsUse
<1>2. ASSUME NEW c \in Callers, Loaded(c) PROVE FALSE
  BY <1>2 DEF Loaded, HasLoaded
<1>3. CASE Releases
  BY <1>3 DEF Releases
<1>4. ASSUME NEW e \in Entries, Ages(e) PROVE FALSE
  BY <1>4 DEF Ages
<1>5. CASE TimerExpires
  BY <1>5 DEF TimerExpires
<1>6. CASE TimerWakes \/ TimerClears \/ TimerArms \/ UNCHANGED cacheVars
  BY <1>6 DEF TimerWakes, TimerClears, TimerArms, cacheVars
<1> QED
  BY <1>1, <1>2, <1>3, <1>4, <1>5, <1>6 DEF CacheNext, TimerMoves

LEMMA CacheInvariance == CacheSpec => [](CacheInv /\ UseTypes)
BY CacheInitInv, CacheStep, UseStep, PTL DEF CacheSpec

(* A release is final and no cached model is replaced or evicted while it  *)
(* is busy (model_cache.py get_or_load, release_all, expire_idle), for any *)
(* number of requests and keys.                                            *)
THEOREM CacheIsHeld == CacheSpec => CacheHolds
<1>1. CacheInv => ReleaseIsFinal
  BY DEF CacheInv
<1>2. CacheInv /\ [CacheNext]_cacheVars =>
        [\A k \in Keys : table[k] # 0 /\ table'[k] # table[k] =>
           table'[k] = 0 /\ (generation' # generation \/ table[k] \in Expired)]_cacheVars
  BY EntryStep
<1> QED BY <1>1, <1>2, CacheInvariance, PTL DEF CacheSpec, CacheHolds, EntriesStay

-----------------------------------------------------------------------------
(* JobRows.                                                                *)

RowTypes ==
  /\ kind \in Kinds /\ row \in {"none"} \cup Active \cup Final
  /\ starter \in {"idle", "created", "wrote", "over"}
  /\ job \in {"none", "spec", "alive", "dead"}
  /\ stage \in {"none", "entry", "work", "ending"}
  /\ web \in {"up", "down"} /\ deaths \in 0..MaxDeaths

(* A row is there once it was created, and done only by a job that is      *)
(* ending, so neither the start nor the begin of a job finds it done.      *)
DoneByJob ==
  /\ starter = "idle" => row = "none"
  /\ starter # "over" => stage = "none"
  /\ row = "done" => stage = "ending"

RowInv == RowTypes /\ DoneByJob

(* What is final stays. *)
RowStays == row = "done" \/ (kind = "download" /\ row \in Final) => row' = row

LEMMA RowStep ==
  RowInv /\ [RowNext]_rowVars =>
    RowInv' /\ RowStays
<1> SUFFICES ASSUME RowInv, [RowNext]_rowVars PROVE RowInv' /\ RowStays
  OBVIOUS
<1> USE RowsAssumption DEF RowInv, RowTypes, DoneByJob, RowStays, Kinds, Active,
        Final, jobSide, watcher, Running, FinishIfActive
<1>1. CASE Create \/ WriteSpec \/ Spawn
  BY <1>1 DEF Create, WriteSpec, Spawn
<1>2. CASE Rejected
  BY <1>2 DEF Rejected
<1>3. CASE JobBegins
  BY <1>3 DEF JobBegins
<1>4. ASSUME NEW s \in Final, JobResult(s)
      PROVE  RowInv' /\ RowStays
  BY <1>4 DEF JobResult
<1>5. CASE JobExits \/ JobKilled
  BY <1>5 DEF JobExits, JobKilled
<1>6. CASE Cancel
  BY <1>6 DEF Cancel
<1>7. CASE SettleReads \/ SettleWrites
  BY <1>7 DEF SettleReads, SettleWrites
<1>8. CASE WatchPolls \/ WatchPollsNone
  BY <1>8 DEF WatchPolls, WatchPollsNone
<1>9. CASE WebDies \/ WebBoots
  BY <1>9 DEF WebDies, WebBoots
<1>10. CASE UNCHANGED rowVars
  BY <1>10 DEF rowVars
<1> QED
  BY <1>1, <1>2, <1>3, <1>4, <1>5, <1>6, <1>7, <1>8, <1>9, <1>10
  DEF RowNext, JobStopped

(* Its marks. *)
Marks ==
  /\ stop \in BOOLEAN /\ settling \in BOOLEAN
  /\ seen \in BOOLEAN /\ handled \in BOOLEAN /\ first \in BOOLEAN

LEMMA MarksStep == Marks /\ [RowNext]_rowVars => Marks'
<1> SUFFICES ASSUME Marks, [RowNext]_rowVars PROVE Marks'
  OBVIOUS
<1> USE DEF Marks, jobSide, watcher
<1>1. CASE Create \/ WriteSpec \/ Spawn \/ Rejected
  BY <1>1, Zenon DEF Create, WriteSpec, Spawn, Rejected
<1>2. CASE \/ JobBegins \/ JobStopped \/ JobExits \/ JobKilled
           \/ \E s \in Final : JobResult(s)
  BY <1>2, Zenon DEF JobBegins, JobStopped, JobExits, JobKilled, JobResult
<1>3. CASE Cancel \/ SettleReads \/ SettleWrites
  BY <1>3, Zenon DEF Cancel, SettleReads, SettleWrites
<1>4. CASE WatchPolls \/ WatchPollsNone
  BY <1>4, Zenon DEF WatchPolls, WatchPollsNone
<1>5. CASE WebDies \/ WebBoots \/ UNCHANGED rowVars
  BY <1>5, Zenon DEF WebDies, WebBoots, rowVars
<1> QED BY <1>1, <1>2, <1>3, <1>4, <1>5 DEF RowNext, Final

LEMMA RowInvariance == RowSpec => []RowInv
<1>1. RowInit => RowInv
  BY RowsAssumption DEF RowInit, RowInv, RowTypes, DoneByJob
<1> QED BY <1>1, RowStep, PTL DEF RowSpec

(* The final state of a download, and the success of a build or an export, *)
(* are for good: cancel, result, settle and restart never overwrite them   *)
(* (db/hf_downloads.py finish_if_active).                                  *)
THEOREM FinalRows == RowSpec => RowsFinal
<1>1. RowInv /\ [RowNext]_rowVars =>
        [row = "done" \/ (kind = "download" /\ row \in Final) => row' = row]_rowVars
  BY RowStep DEF RowStays
<1> QED BY <1>1, RowInvariance, PTL DEF RowSpec, RowsFinal

-----------------------------------------------------------------------------
(* BrainIndex.                                                             *)

Savings ==
  [at : {"idle", "reads", "text", "clear", "chunks", "row"}, text : Texts \cup {"none"}]

Builds ==
  [at : {"idle", "begun", "read", "hashed", "written"},
   doc : Texts \cup {"none", "part", "mixed"},
   hash : Texts \cup {"none", "blank", "without"}]

SourceTypes ==
  /\ text \in Texts \cup {"none"} /\ chunks \subseteq Texts
  /\ status \in {"unstaged", "queued", "parsing", "ready", "error"}
  /\ sha \in Texts \cup {"none"}
  /\ saving \in [Writers -> Savings]
  /\ \A w \in Writers :
       saving[w].at \in {"text", "clear", "chunks", "row"} => saving[w].text \in Texts
  /\ toParse \in {"no", "plain", "forced"}

BuildTypes ==
  /\ builder \in Builds
  /\ indexed \in Texts \cup {"none", "part", "mixed"}
  /\ claims \in Texts \cup {"absent", "without", "blank", "none"}

(* If no saving has crossed another or died since one did not, the saving  *)
(* that is on its way is alone with chunks/, and a row that is ready names *)
(* what lies there.                                                        *)
OneSaving ==
  tangled \/
    /\ \A v, w \in Midway : v = w
    /\ \A w \in Writers : saving[w].at = "chunks" => chunks = {}
    /\ \A w \in Writers : saving[w].at = "row" => chunks = {saving[w].text}
    /\ Midway = {} /\ Ready => chunks = {sha}

(* A build no saving has crossed holds the passages of the row, and then   *)
(* the hash that goes with them.                                           *)
ReadingKept ==
  crossed \/
    /\ builder.at = "read" /\ builder.doc # "none" => builder.doc = sha
    /\ builder.at \in {"hashed", "written"} =>
         builder.hash \in {"without", "blank", builder.doc}

(* A build that has written the passages has not yet said of what they     *)
(* are; the claim of a build that was not crossed names what the index     *)
(* holds.                                                                  *)
ClaimsKept ==
  /\ builder.at = "written" => unsure /\ indexed = builder.doc
  /\ unsure \/ claims \in {"absent", "without", "blank", indexed}

History == tangled \in BOOLEAN /\ crossed \in BOOLEAN /\ unsure \in BOOLEAN

IndexInv ==
  SourceTypes /\ BuildTypes /\ History /\ OneSaving /\ ReadingKept /\ ClaimsKept

LEMMA NoFacts ==
  /\ Still \in Savings /\ Still.at = "idle"
  /\ NoBuild \in Builds /\ NoBuild.at = "idle"
BY DEF Still, Savings, NoBuild, Builds

(* One writer goes to its next step.                                       *)
LEMMA WriterMoves ==
  ASSUME saving \in [Writers -> Savings], NEW w \in Writers, NEW t,
         NEW at \in {"idle", "reads", "text", "clear", "chunks", "row"},
         Turns(w, at, t),
         t \in Texts \/ (t = "none" /\ at \in {"idle", "reads"}),
         \A v \in Writers :
           saving[v].at \in {"text", "clear", "chunks", "row"} => saving[v].text \in Texts
  PROVE  /\ saving' \in [Writers -> Savings]
         /\ \A v \in Writers :
              saving'[v].at \in {"text", "clear", "chunks", "row"} => saving'[v].text \in Texts
<1> DEFINE q == [at |-> at, text |-> t]
<1>1. /\ q \in Savings
      /\ q.at \in {"text", "clear", "chunks", "row"} => q.text \in Texts
  BY DEF Savings
<1>2. saving' = [saving EXCEPT ![w] = q]
  BY DEF Turns
<1> HIDE DEF q
<1> QED BY <1>1, <1>2

LEMMA IndexInit0 == IndexInit => IndexInv
<1> SUFFICES ASSUME IndexInit PROVE IndexInv
  OBVIOUS
<1>1. SourceTypes /\ BuildTypes /\ ReadingKept /\ ClaimsKept
  BY NoFacts DEF IndexInit, SourceTypes, BuildTypes, ReadingKept, ClaimsKept
<1>2. History
  BY Zenon DEF IndexInit, History
<1>3. OneSaving
  BY NoFacts DEF IndexInit, OneSaving, Midway, Ready
<1> QED BY <1>1, <1>2, <1>3 DEF IndexInv

LEMMA SourceStep == IndexInv /\ [IndexNext]_indexVars => SourceTypes'
<1> SUFFICES ASSUME IndexInv, [IndexNext]_indexVars PROVE SourceTypes'
  OBVIOUS
<1> USE DEF IndexInv, SourceTypes, source, index, bounds
<1>1. CASE Stage \/ Reparse
  BY <1>1 DEF Stage, Reparse
<1>2. CASE ParseBegins
  BY <1>2, WriterMoves DEF ParseBegins, Writers
<1>3. CASE BuildParses
  BY <1>3, WriterMoves DEF BuildParses, Writers
<1>4. ASSUME NEW t \in Edits, EditBegins(t) PROVE SourceTypes'
  BY <1>4, WriterMoves DEF EditBegins, Writers, Texts
<1>5. ASSUME NEW w \in Writers, ParseEnds(w) PROVE SourceTypes'
  BY <1>5, WriterMoves DEF ParseEnds, Texts
<1>6. ASSUME NEW w \in Writers, WritesText(w) PROVE SourceTypes'
  BY <1>6, WriterMoves DEF WritesText
<1>7. ASSUME NEW w \in Writers, ClearsPassages(w) PROVE SourceTypes'
  BY <1>7, WriterMoves DEF ClearsPassages
<1>8. ASSUME NEW w \in Writers, WritesPassages(w) PROVE SourceTypes'
  BY <1>8, WriterMoves DEF WritesPassages
<1>9. ASSUME NEW w \in Writers, WritesRow(w) PROVE SourceTypes'
  BY <1>9, WriterMoves DEF WritesRow
<1>10. CASE BuildBegins \/ BuildReads \/ BuildResets \/ BuildHashes \/ BuildWrites \/ BuildClaims
  BY <1>10 DEF BuildBegins, BuildReads, BuildResets, BuildHashes, BuildWrites, BuildClaims
<1>11. CASE BuildDies
  BY <1>11, WriterMoves DEF BuildDies, Writers
<1>12. CASE ServerDies
  BY <1>12, NoFacts DEF ServerDies, Writers
<1>13. CASE ServerBoots
  BY <1>13 DEF ServerBoots
<1>14. CASE UNCHANGED indexVars
  BY <1>14 DEF indexVars
<1> QED
  BY <1>1, <1>2, <1>3, <1>4, <1>5, <1>6, <1>7, <1>8, <1>9, <1>10, <1>11, <1>12,
     <1>13, <1>14 DEF IndexNext, WriterSteps

(* What a writer's next step does to those that are midway.                *)
LEMMA Turned ==
  ASSUME saving \in [Writers -> Savings], NEW w \in Writers, NEW t, NEW at, Turns(w, at, t)
  PROVE  /\ saving'[w].at = at /\ saving'[w].text = t
         /\ \A v \in Writers : v # w => saving'[v] = saving[v]
BY DEF Turns

(* No writer comes to the passages or leaves them, and no row gets ready.  *)
AwayFromChunks ==
  /\ \A v \in Writers :
       \/ saving'[v] = saving[v]
       \/ {saving[v].at, saving'[v].at} \cap {"chunks", "row"} = {}
  /\ status' = status \/ status' # "ready"
  /\ UNCHANGED <<chunks, sha, tangled>>

LEMMA AwayStep == OneSaving /\ AwayFromChunks => OneSaving'
<1> SUFFICES ASSUME OneSaving, AwayFromChunks PROVE OneSaving'
  OBVIOUS
<1>0. CASE tangled
  <2>1. tangled'
    BY <1>0, Zenon DEF AwayFromChunks
  <2> QED BY <2>1, Zenon DEF OneSaving
<1>1. Midway' = Midway
  BY DEF AwayFromChunks, Midway
<1>2. \A w \in Writers : saving'[w].at \in {"chunks", "row"} => saving'[w] = saving[w]
  BY DEF AwayFromChunks
<1>3. CASE ~tangled
  BY <1>1, <1>2, <1>3 DEF OneSaving, AwayFromChunks, Ready
<1> QED BY <1>0, <1>3

LEMMA SavingStep == IndexInv /\ [IndexNext]_indexVars => OneSaving'
<1> SUFFICES ASSUME IndexInv, [IndexNext]_indexVars PROVE OneSaving'
  OBVIOUS
<1> USE DEF source, index, bounds
<1>t. saving \in [Writers -> Savings] /\ OneSaving /\ tangled \in BOOLEAN
  BY DEF IndexInv, SourceTypes, History
<1>1. CASE \/ Stage \/ Reparse \/ BuildBegins \/ BuildReads \/ BuildResets \/ BuildHashes
           \/ BuildWrites \/ BuildClaims \/ ServerBoots \/ UNCHANGED indexVars
  <2>1. UNCHANGED <<saving, chunks, sha, tangled>> /\ (status' = status \/ status' # "ready")
    BY <1>1 DEF Stage, Reparse, BuildBegins, BuildReads, BuildResets, BuildHashes,
       BuildWrites, BuildClaims, ServerBoots, indexVars
  <2> QED BY <1>t, <2>1, AwayStep DEF AwayFromChunks
<1>2. CASE ParseBegins
  <2>1. AwayFromChunks
    BY <1>t, <1>2, Turned DEF ParseBegins, Writers, AwayFromChunks
  <2> QED BY <1>t, <2>1, AwayStep
<1>3. CASE BuildParses
  <2>1. AwayFromChunks
    BY <1>t, <1>3, Turned DEF BuildParses, Writers, AwayFromChunks
  <2> QED BY <1>t, <2>1, AwayStep
<1>4. ASSUME NEW t \in Edits, EditBegins(t) PROVE OneSaving'
  <2>1. AwayFromChunks
    BY <1>t, <1>4, Turned DEF EditBegins, Writers, AwayFromChunks
  <2> QED BY <1>t, <2>1, AwayStep
<1>5. ASSUME NEW w \in Writers, ParseEnds(w) \/ WritesText(w) PROVE OneSaving'
  <2>1. AwayFromChunks
    BY <1>t, <1>5, Turned DEF ParseEnds, WritesText, AwayFromChunks
  <2> QED BY <1>t, <2>1, AwayStep
<1>6. ASSUME NEW w \in Writers, ClearsPassages(w) PROVE OneSaving'
  <2>1. Turns(w, "chunks", saving[w].text)
    BY <1>6 DEF ClearsPassages
  <2>2. /\ saving'[w].at = "chunks"
        /\ \A v \in Writers : v # w => saving'[v] = saving[v]
    BY <1>t, <2>1, Turned
  <2> QED BY <1>6, <2>2 DEF ClearsPassages, OneSaving, Midway
<1>7. ASSUME NEW w \in Writers, WritesPassages(w) PROVE OneSaving'
  <2>1. Turns(w, "row", saving[w].text)
    BY <1>7 DEF WritesPassages
  <2>2. /\ saving'[w].at = "row" /\ saving'[w].text = saving[w].text
        /\ \A v \in Writers : v # w => saving'[v] = saving[v]
    BY <1>t, <2>1, Turned
  <2>3. tangled \/ (chunks = {} /\ \A v \in Midway : v = w)
    BY <1>t, <1>7 DEF WritesPassages, OneSaving, Midway
  <2>4. tangled \/ chunks' = {saving[w].text}
    BY <1>7, <2>3 DEF WritesPassages
  <2> QED BY <1>7, <2>2, <2>3, <2>4 DEF WritesPassages, OneSaving, Midway
<1>8. ASSUME NEW w \in Writers, WritesRow(w) PROVE OneSaving'
  <2>1. Turns(w, "idle", "none")
    BY <1>8 DEF WritesRow
  <2>2. /\ saving'[w].at = "idle"
        /\ \A v \in Writers : v # w => saving'[v] = saving[v]
    BY <1>t, <2>1, Turned
  <2>3. tangled \/ (chunks = {saving[w].text} /\ \A v \in Midway : v = w)
    BY <1>t, <1>8 DEF WritesRow, OneSaving, Midway
  <2> QED BY <1>8, <2>2, <2>3 DEF WritesRow, OneSaving, Midway
<1>9. CASE BuildDies
  <2>1. Turns("build", "idle", "none")
    BY <1>9 DEF BuildDies
  <2>2. /\ saving'["build"].at = "idle"
        /\ \A v \in Writers : v # "build" => saving'[v] = saving[v]
    BY <1>t, <2>1, Turned DEF Writers
  <2>3. CASE "build" \in Midway
    BY <1>9, <2>3 DEF BuildDies, OneSaving
  <2>4. CASE "build" \notin Midway
    <3>1. AwayFromChunks
      <4>1. tangled' = tangled
        BY <1>9, <2>4, <1>t DEF BuildDies
      <4> QED BY <1>9, <2>2, <2>4, <4>1 DEF BuildDies, AwayFromChunks, Midway, Writers
    <3> QED BY <1>t, <3>1, AwayStep
  <2> QED BY <2>3, <2>4
<1>10. CASE ServerDies
  <2>1. /\ saving'["parser"].at = "idle" /\ saving'["editor"].at = "idle"
        /\ saving'["build"] = saving["build"]
    BY <1>t, <1>10, NoFacts DEF ServerDies, Writers
  <2>2. CASE Midway \cap {"parser", "editor"} # {}
    BY <1>10, <2>2 DEF ServerDies, OneSaving
  <2>3. CASE Midway \cap {"parser", "editor"} = {}
    <3>1. AwayFromChunks
      <4>1. tangled' = tangled
        BY <1>10, <2>3, <1>t DEF ServerDies
      <4> QED BY <1>10, <2>1, <2>3, <4>1 DEF ServerDies, AwayFromChunks, Midway, Writers
    <3> QED BY <1>t, <3>1, AwayStep
  <2> QED BY <2>2, <2>3
<1> QED
  BY <1>1, <1>2, <1>3, <1>4, <1>5, <1>6, <1>7, <1>8, <1>9, <1>10
  DEF IndexNext, WriterSteps

(* The steps that leave the build and the index alone, and the row's hash. *)
LEMMA BuildRests ==
  ASSUME \/ Stage \/ Reparse \/ ParseBegins \/ BuildParses
         \/ \E t \in Edits : EditBegins(t)
         \/ \E w \in Writers : ParseEnds(w) \/ WritesText(w) \/ ClearsPassages(w)
                               \/ WritesPassages(w)
         \/ ServerDies \/ ServerBoots \/ UNCHANGED indexVars
  PROVE  UNCHANGED <<index, sha>>
BY DEF index, source, Stage, Reparse, ParseBegins, BuildParses, EditBegins, ParseEnds,
   WritesText, ClearsPassages, WritesPassages, ServerDies, ServerBoots, indexVars

(* What a build reads of passages nobody is writing.                       *)
LEMMA QuietRead ==
  ASSUME SourceTypes, OneSaving, ~tangled, Midway = {}, Ready, NEW d \in Passages
  PROVE  d = sha
<1>1. chunks = {sha}
  BY DEF OneSaving
<1>2. Cardinality(chunks) = 1
  BY <1>1, FS_Singleton
<1> QED BY <1>1, <1>2 DEF Passages

LEMMA BuildStep == IndexInv /\ [IndexNext]_indexVars => (BuildTypes /\ ReadingKept /\ ClaimsKept)'
<1> SUFFICES ASSUME IndexInv, [IndexNext]_indexVars
    PROVE  (BuildTypes /\ ReadingKept /\ ClaimsKept)'
  OBVIOUS
<1> USE DEF IndexInv, BuildTypes, ReadingKept, ClaimsKept, index
<1>1. CASE BuildBegins
  BY <1>1, NoFacts DEF BuildBegins, Builds
<1>2. CASE BuildReads
  <2>1. Passages \subseteq Texts \cup {"none", "part", "mixed"}
    BY DEF Passages, SourceTypes
  <2>2. PICK d \in IF Ready THEN Passages ELSE {"none"} :
          builder' = [builder EXCEPT !.at = "read", !.doc = d]
    BY <1>2 DEF BuildReads
  <2>3. crossed' \/ (~tangled /\ Midway = {})
    BY <1>2 DEF BuildReads
  <2>4. crossed' \/ d = "none" \/ d = sha
    BY <2>2, <2>3, QuietRead
  <2>5. builder'.at = "read" /\ builder'.doc = d /\ sha' = sha
    BY <1>2, <2>2 DEF BuildReads, Builds, source
  <2>6. BuildTypes' /\ ClaimsKept'
    BY <1>2, <2>1, <2>2 DEF BuildReads, Builds
  <2> QED BY <2>4, <2>5, <2>6
<1>3. CASE BuildResets
  BY <1>3 DEF BuildResets, Builds, source
<1>4. CASE BuildHashes
  BY <1>4 DEF BuildHashes, SourceTypes, Builds, source
<1>5. CASE BuildWrites
  BY <1>5 DEF BuildWrites, Builds, source
<1>6. CASE BuildClaims
  BY <1>6, NoFacts DEF BuildClaims, Builds, source
<1>7. CASE BuildDies
  BY <1>7, NoFacts DEF BuildDies
<1>8. ASSUME NEW w \in Writers, WritesRow(w)
      PROVE  (BuildTypes /\ ReadingKept /\ ClaimsKept)'
  BY <1>8 DEF WritesRow
<1>9. CASE \/ Stage \/ Reparse \/ ParseBegins \/ BuildParses
           \/ \E t \in Edits : EditBegins(t)
           \/ \E w \in Writers : ParseEnds(w) \/ WritesText(w) \/ ClearsPassages(w)
                                 \/ WritesPassages(w)
           \/ ServerDies \/ ServerBoots \/ UNCHANGED indexVars
  BY <1>9, BuildRests
<1> QED
  BY <1>1, <1>2, <1>3, <1>4, <1>5, <1>6, <1>7, <1>8, <1>9 DEF IndexNext, WriterSteps

LEMMA HistoryStep == History /\ [IndexNext]_indexVars => History'
<1> SUFFICES ASSUME History, [IndexNext]_indexVars PROVE History'
  OBVIOUS
<1> USE DEF History, index, source
<1>1. CASE BuildBegins \/ BuildReads \/ BuildResets \/ BuildHashes \/ BuildWrites
  BY <1>1, Zenon DEF BuildBegins, BuildReads, BuildResets, BuildHashes, BuildWrites
<1>2. CASE BuildClaims \/ BuildDies \/ UNCHANGED indexVars
  BY <1>2, Zenon DEF BuildClaims, BuildDies, indexVars
<1>3. CASE \/ Stage \/ Reparse \/ ParseBegins \/ BuildParses
           \/ \E t \in Edits : EditBegins(t)
           \/ ServerDies \/ ServerBoots
  BY <1>3, Zenon DEF Stage, Reparse, ParseBegins, BuildParses, EditBegins, ServerDies,
     ServerBoots
<1>4. CASE \E w \in Writers : WriterSteps(w)
  BY <1>4, Zenon DEF WriterSteps, ParseEnds, WritesText, ClearsPassages,
     WritesPassages, WritesRow
<1> QED BY <1>1, <1>2, <1>3, <1>4 DEF IndexNext

LEMMA IndexInvariance == IndexSpec => []IndexInv
<1>1. IndexInv /\ [IndexNext]_indexVars => IndexInv'
  BY SourceStep, SavingStep, BuildStep, HistoryStep DEF IndexInv
<1> QED BY <1>1, IndexInit0, PTL DEF IndexSpec

(* With any number of texts, parses, edits, builds and deaths: a source is *)
(* called indexed only if the index holds its text (knowledge/index.py     *)
(* state, build), unless the build that wrote it read the passages while   *)
(* they were rewritten, or after savings that crossed or died, or read the *)
(* hash after a later saving, or died before its manifest. What is said by *)
(* history alone is that such a crossing happened, never what it did.      *)
THEOREM IndexIsCurrent == IndexSpec => []IndexedIsCurrent
<1>1. IndexInv => IndexedIsCurrent
  BY IndexAssumption DEF IndexInv, SourceTypes, ClaimsKept, IndexedIsCurrent,
     CalledIndexed, Texts
<1> QED BY <1>1, IndexInvariance, PTL

(* How often things have happened. *)
Counts ==
  server \in {"up", "down"} /\ writes \in 0..MaxWrites /\ restarts \in 0..MaxRestarts

LEMMA CountsStep == Counts /\ [IndexNext]_indexVars => Counts'
<1> SUFFICES ASSUME Counts, [IndexNext]_indexVars PROVE Counts'
  OBVIOUS
<1> USE IndexAssumption DEF Counts, Bounded, bounds
<1>1. CASE Stage \/ Reparse \/ BuildBegins \/ \E t \in Edits : EditBegins(t)
  BY <1>1 DEF Stage, Reparse, BuildBegins, EditBegins
<1>2. CASE ServerDies \/ ServerBoots
  BY <1>2 DEF ServerDies, ServerBoots
<1>3. CASE \/ ParseBegins \/ BuildParses \/ \E w \in Writers : WriterSteps(w)
           \/ BuildReads \/ BuildResets \/ BuildHashes \/ BuildWrites \/ BuildClaims
           \/ BuildDies \/ UNCHANGED indexVars
  BY <1>3 DEF ParseBegins, BuildParses, WriterSteps, ParseEnds, WritesText,
     ClearsPassages, WritesPassages, WritesRow, BuildReads, BuildResets, BuildHashes,
     BuildWrites, BuildClaims, BuildDies, indexVars
<1> QED BY <1>1, <1>2, <1>3 DEF IndexNext

-----------------------------------------------------------------------------
(* The parts beside each other.                                            *)

EngineAll == EngineInv /\ Flags
CacheAll == CacheInv /\ UseTypes
RowAll == RowInv /\ Marks
IndexAll == IndexInv /\ Counts

LEMMA PartTypes ==
  /\ EngineAll => InfTypeOK
  /\ CacheAll => CacheTypeOK
  /\ RowAll => RowTypeOK
  /\ IndexAll => IndexTypeOK
<1>1. EngineAll => InfTypeOK
  <2>1. EngineInv => busy \in 0..1
    BY DEF EngineInv, OneInside
  <2> QED BY <2>1 DEF EngineAll, EngineInv, CallTypes, Calls, Inside, Flags, InfTypeOK
<1>2. CacheAll => CacheTypeOK
  BY DEF CacheAll, CacheInv, UseTypes, TableTypes, Requesters, Ticks, CacheTypeOK
<1>3. RowAll => RowTypeOK
  BY DEF RowAll, RowInv, RowTypes, Marks, RowTypeOK
<1>4. IndexAll => IndexTypeOK
  BY DEF IndexAll, IndexInv, SourceTypes, BuildTypes, History, Savings, Builds,
     Counts, IndexTypeOK
<1> QED BY <1>1, <1>2, <1>3, <1>4

LEMMA PartInits ==
  /\ InfInit => EngineAll
  /\ CacheInit => CacheAll
  /\ RowInit => RowAll
  /\ IndexInit => IndexAll
<1>1. InfInit => Flags
  BY DEF InfInit, Flags
<1>2. RowInit => RowInv
  BY RowsAssumption DEF RowInit, RowInv, RowTypes, DoneByJob
<1>3. RowInit => Marks
  BY Zenon DEF RowInit, Marks
<1>4. IndexInit => Counts
  BY IndexAssumption DEF IndexInit, Counts
<1> QED
  BY <1>1, <1>2, <1>3, <1>4, EngineInit, CacheInitInv, IndexInit0
  DEF EngineAll, CacheAll, RowAll, IndexAll

LEMMA PartSteps ==
  /\ EngineAll /\ [InfNext]_infVars => EngineAll'
  /\ CacheAll /\ [CacheNext]_cacheVars => CacheAll'
  /\ RowAll /\ [RowNext]_rowVars => RowAll'
  /\ IndexAll /\ [IndexNext]_indexVars => IndexAll'
BY EngineStep, FlagsStep, CacheStep, UseStep, RowStep, MarksStep, SourceStep, SavingStep,
   BuildStep, HistoryStep, CountsStep DEF EngineAll, CacheAll, RowAll, IndexAll, IndexInv

LEMMA ServiceInits == ServiceInit => EngineAll /\ CacheAll /\ RowAll /\ IndexAll
  BY PartInits DEF ServiceInit

(* A step of the services is a step of each part, or leaves it alone.      *)
LEMMA StepsOfServices ==
  [ServiceNext]_ServiceVars =>
    /\ [InfNext]_infVars /\ [CacheNext]_cacheVars
    /\ [RowNext]_rowVars /\ [IndexNext]_indexVars
BY DEF ServiceNext, ServiceVars

LEMMA ServiceInvariance == ServiceSpec => [](EngineAll /\ CacheAll /\ RowAll /\ IndexAll)
<1> DEFINE All == EngineAll /\ CacheAll /\ RowAll /\ IndexAll
<1>1. All /\ [ServiceNext]_ServiceVars => All'
  BY StepsOfServices, PartSteps
<1> QED BY <1>1, ServiceInits, PTL DEF ServiceSpec

(* Every variable of every service keeps its type: for each part, whatever *)
(* its constants.                                                          *)
THEOREM ServiceTypes == ServiceSpec => []ServiceTypeOK
<1>1. EngineAll /\ CacheAll /\ RowAll /\ IndexAll => ServiceTypeOK
  BY PartTypes DEF ServiceTypeOK
<1> QED BY <1>1, ServiceInvariance, PTL

(* What each service promises holds of the services beside each other,     *)
(* which is what TLC runs.                                                 *)
THEOREM ServicesKeep ==
  ServiceSpec => [](IndexedIsCurrent /\ BusyKeepsModel) /\ CacheHolds /\ RowsFinal
<1> DEFINE All == EngineAll /\ CacheAll /\ RowAll /\ IndexAll
<1>1. IndexAll => IndexedIsCurrent
  BY IndexAssumption DEF IndexAll, IndexInv, SourceTypes, ClaimsKept, IndexedIsCurrent,
     CalledIndexed, Texts
<1>2. EngineAll => BusyKeepsModel
  BY DEF EngineAll, EngineInv
<1>3. CacheAll => ReleaseIsFinal
  BY DEF CacheAll, CacheInv
<1>4. All /\ [ServiceNext]_ServiceVars =>
        [\A k \in Keys : table[k] # 0 /\ table'[k] # table[k] =>
           table'[k] = 0 /\ (generation' # generation \/ table[k] \in Expired)]_cacheVars
  BY StepsOfServices, EntryStep DEF CacheAll
<1>5. All /\ [ServiceNext]_ServiceVars =>
        [row = "done" \/ (kind = "download" /\ row \in Final) => row' = row]_rowVars
  BY StepsOfServices, RowStep DEF RowAll, RowStays
<1> QED
  BY <1>1, <1>2, <1>3, <1>4, <1>5, ServiceInvariance, PTL
     DEF ServiceSpec, CacheHolds, EntriesStay, RowsFinal
=============================================================================
