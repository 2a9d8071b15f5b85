----------------------------- MODULE ModelCache -----------------------------
(***************************************************************************)
(* The cache of embedders and rerankers (smart_brain/model_cache.py): the  *)
(* requests that look up, load and use them, the idle timer, and the       *)
(* release before anything that needs the card.  One step per section      *)
(* under the table's lock; loads happen outside it, under the key's own.   *)
(* Time is left out: an entry has been idle for the timeout, or not.       *)
(***************************************************************************)
EXTENDS Naturals

CONSTANTS Callers, Keys, NoKey,
          MaxLoads,    \* bound: models loaded
          MaxReleases  \* bound: calls of release_all

ASSUME CacheAssumption ==
  NoKey \notin Keys /\ MaxLoads \in Nat /\ MaxReleases \in Nat

Entries == 1..MaxLoads

VARIABLES
  table,      \* key -> its entry, 0 if there is none
  loadedAt,   \* entry -> generation read before its load began
  inUse,      \* entry -> callers inside its model (busy)
  idle,       \* entries not used for the timeout
  caller,     \* what each request does: step, key, entry it got, generation
  generation,
  handle,     \* _timer: none, asleep, or fired and not yet run
  strays,     \* timers asleep that _timer does not name any more
  ticks,      \* timer threads at each step of _on_timer
  loads

cacheVars == <<table, loadedAt, inUse, idle, caller, generation, handle,
               strays, ticks, loads>>

timers == <<handle, strays, ticks>>

Out == [at |-> "out", key |-> NoKey, entry |-> 0, gen |-> 0]

CacheInit ==
  /\ table = [k \in Keys |-> 0]
  /\ loadedAt = [e \in Entries |-> 0]
  /\ inUse = [e \in Entries |-> {}]
  /\ idle = {}
  /\ caller = [c \in Callers |-> Out]
  /\ generation = 0
  /\ handle = "none" /\ strays = 0
  /\ ticks = [fired |-> 0, expiring |-> 0, arming |-> 0]
  /\ loads = 0

Goes(c, at) == caller' = [caller EXCEPT ![c].at = at]

Gets(c, e) == caller' = [caller EXCEPT ![c].at = "has", ![c].entry = e]

(* _arm_timer_locked, once the table is t. *)
Arms(t) ==
  handle' = IF handle = "none" /\ (\E k \in Keys : t[k] # 0)
            THEN "asleep" ELSE handle

-----------------------------------------------------------------------------
(* get_or_load: a hit is a use.                                            *)
Looks(c, k) ==
  /\ caller[c].at = "out"
  /\ IF table[k] # 0
     THEN /\ caller' = [caller EXCEPT ![c] =
               [Out EXCEPT !.at = "has", !.key = k, !.entry = table[k]]]
          /\ idle' = idle \ {table[k]}
     ELSE /\ caller' = [caller EXCEPT ![c] = [Out EXCEPT !.at = "waits", !.key = k]]
          /\ UNCHANGED idle
  /\ UNCHANGED <<table, loadedAt, inUse, generation, timers, loads>>

(* Slip: the table is not looked at again once the key's lock is held.     *)
BeginsLoadBlind(c) ==
  /\ caller[c].at = "waits"
  /\ \A d \in Callers : ~(caller[d].at = "loads" /\ caller[d].key = caller[c].key)
  /\ caller' = [caller EXCEPT ![c].at = "loads", ![c].gen = generation]
  /\ UNCHANGED <<table, loadedAt, inUse, idle, generation, timers, loads>>

(* Under the key's lock: somebody else may have loaded it meanwhile.       *)
BeginsLoad(c) ==
  LET k == caller[c].key IN
  /\ caller[c].at = "waits"
  /\ \A d \in Callers : ~(caller[d].at = "loads" /\ caller[d].key = k)
  /\ IF table[k] # 0
     THEN Gets(c, table[k]) /\ idle' = idle \ {table[k]}
     ELSE /\ caller' = [caller EXCEPT ![c].at = "loads", ![c].gen = generation]
          /\ UNCHANGED idle
  /\ UNCHANGED <<table, loadedAt, inUse, generation, timers, loads>>

LoaderRaises(c) ==
  /\ caller[c].at = "loads"
  /\ caller' = [caller EXCEPT ![c] = Out]
  /\ UNCHANGED <<table, loadedAt, inUse, idle, generation, timers, loads>>

(* What a load leaves behind, whether it is cached or not. *)
HasLoaded(c) ==
  /\ caller[c].at = "loads" /\ loads < MaxLoads
  /\ loads' = loads + 1
  /\ loadedAt' = [loadedAt EXCEPT ![loads + 1] = caller[c].gen]
  /\ Gets(c, loads + 1)
  /\ UNCHANGED <<inUse, idle, generation, strays, ticks>>

(* Slip: it is always cached.                                              *)
LoadsAcross(c) ==
  /\ HasLoaded(c)
  /\ table' = [table EXCEPT ![caller[c].key] = loads + 1]
  /\ Arms(table')

(* A model loaded across a release goes to its caller only. *)
Loaded(c) ==
  /\ HasLoaded(c)
  /\ IF caller[c].gen = generation
     THEN /\ table' = [table EXCEPT ![caller[c].key] = loads + 1]
          /\ Arms(table')
     ELSE UNCHANGED <<table, handle>>

(* _wrap: one caller at a time inside a model, cached or not any more.     *)
BeginsUse(c) ==
  LET e == caller[c].entry IN
  /\ caller[c].at = "has" /\ inUse[e] = {}
  /\ inUse' = [inUse EXCEPT ![e] = {c}]
  /\ idle' = idle \ {e}
  /\ Goes(c, "uses")
  /\ UNCHANGED <<table, loadedAt, generation, timers, loads>>

EndsUse(c) ==
  LET e == caller[c].entry IN
  /\ caller[c].at = "uses"
  /\ inUse' = [inUse EXCEPT ![e] = {}]
  /\ idle' = idle \ {e}
  /\ Goes(c, "has")
  /\ UNCHANGED <<table, loadedAt, generation, timers, loads>>

Forgets(c) ==
  /\ caller[c].at = "has"
  /\ caller' = [caller EXCEPT ![c] = Out]
  /\ UNCHANGED <<table, loadedAt, inUse, idle, generation, timers, loads>>

-----------------------------------------------------------------------------
(* release_all: the timer that _timer names is cancelled if it sleeps.     *)
Releases ==
  /\ generation < MaxReleases
  /\ generation' = generation + 1
  /\ table' = [k \in Keys |-> 0]
  /\ handle' = "none"
  /\ UNCHANGED <<loadedAt, inUse, idle, caller, strays, ticks, loads>>

Ages(e) ==
  /\ e \in 1..loads /\ e \notin idle
  /\ idle' = idle \cup {e}
  /\ UNCHANGED <<table, loadedAt, inUse, caller, generation, timers, loads>>

TimerWakes ==
  /\ \/ handle = "asleep" /\ handle' = "fired" /\ UNCHANGED strays
     \/ strays > 0 /\ strays' = strays - 1 /\ UNCHANGED handle
  /\ ticks' = [ticks EXCEPT !.fired = @ + 1]
  /\ UNCHANGED <<table, loadedAt, inUse, idle, caller, generation, loads>>

(* _on_timer clears _timer, whichever timer it names by now. *)
TimerClears ==
  /\ ticks.fired > 0
  /\ ticks' = [ticks EXCEPT !.fired = @ - 1, !.expiring = @ + 1]
  /\ strays' = strays + (IF handle = "asleep" THEN 1 ELSE 0)
  /\ handle' = "none"
  /\ UNCHANGED <<table, loadedAt, inUse, idle, caller, generation, loads>>

Expired == {e \in idle : inUse[e] = {}}

(* expire_idle. *)
TimerExpires ==
  /\ ticks.expiring > 0
  /\ ticks' = [ticks EXCEPT !.expiring = @ - 1, !.arming = @ + 1]
  /\ table' = [k \in Keys |-> IF table[k] \in Expired THEN 0 ELSE table[k]]
  /\ UNCHANGED <<loadedAt, inUse, idle, caller, generation, handle, strays, loads>>

(* Slip: the timer is armed by loads only.                                 *)
TimerRestsAfter ==
  /\ ticks.arming > 0
  /\ ticks' = [ticks EXCEPT !.arming = @ - 1]
  /\ UNCHANGED <<table, loadedAt, inUse, idle, caller, generation, handle, strays, loads>>

TimerArms ==
  /\ ticks.arming > 0
  /\ ticks' = [ticks EXCEPT !.arming = @ - 1]
  /\ Arms(table)
  /\ UNCHANGED <<table, loadedAt, inUse, idle, caller, generation, strays, loads>>

TimerMoves == TimerWakes \/ TimerClears \/ TimerExpires \/ TimerArms

CacheNext ==
  \/ \E c \in Callers :
       \/ \E k \in Keys : Looks(c, k)
       \/ BeginsLoad(c) \/ LoaderRaises(c) \/ Loaded(c)
       \/ BeginsUse(c) \/ EndsUse(c) \/ Forgets(c)
  \/ Releases \/ \E e \in Entries : Ages(e)
  \/ TimerMoves

CacheSpec ==
  /\ CacheInit /\ [][CacheNext]_cacheVars
  /\ WF_cacheVars(TimerWakes) /\ WF_cacheVars(TimerClears)
  /\ WF_cacheVars(TimerExpires) /\ WF_cacheVars(TimerArms)

-----------------------------------------------------------------------------
(* Every variable has its type.                                            *)
CacheTypeOK ==
  /\ table \in [Keys -> 0..MaxLoads] /\ loadedAt \in [Entries -> 0..MaxReleases]
  /\ inUse \in [Entries -> SUBSET Callers] /\ idle \subseteq Entries
  /\ caller \in [Callers -> [at : {"out", "waits", "loads", "has", "uses"},
       key : Keys \cup {NoKey}, entry : 0..MaxLoads, gen : 0..MaxReleases]]
  /\ generation \in 0..MaxReleases /\ handle \in {"none", "asleep", "fired"}
  /\ strays \in Nat /\ ticks \in [fired : Nat, expiring : Nat, arming : Nat]
  /\ loads \in 0..MaxLoads

(* "so a release is final" (model_cache.py:16): what was loading when the  *)
(* card was asked back never comes into the table.                         *)
ReleaseIsFinal ==
  \A k \in Keys : table[k] # 0 => loadedAt[table[k]] = generation

(* A cached model is never replaced by a second copy, and leaves only      *)
(* idle or by a release: "never a busy one" (model_cache.py:122).          *)
EntriesStay ==
  [][\A k \in Keys : table[k] # 0 /\ table'[k] # table[k] =>
       table'[k] = 0 /\ (generation' # generation \/ table[k] \in Expired)]_cacheVars

(* What the cache holds is current, and held until it may go.              *)
CacheHolds == []ReleaseIsFinal /\ EntriesStay

(* A model nobody uses leaves the card, whatever timers were cancelled,    *)
(* lost or late.                                                           *)
IdleExpires ==
  \A k \in Keys :
    (table[k] \in Expired) ~> (table[k] \notin Expired)

(* "Start the idle timer if none is pending" (model_cache.py:191).         *)
OneTimer == strays = 0
=============================================================================
