-------------------------------- MODULE Pool ---------------------------------
(***************************************************************************)
(* pool.MapPool (src/pool/map.go); pool.StringMapPool (stringmap.go) is    *)
(* the same code for map[string]string.                                    *)
(*                                                                         *)
(* The sync.Pool underneath holds any maps that were Put and not yet       *)
(* taken or dropped by the garbage collector; Get takes one of them, in no *)
(* particular order, or calls New.  A map is a model value of Maps, its    *)
(* contents the set of keys it holds.  Callers are the goroutines that     *)
(* use the pool: Get a map, write keys into it, Put it back.               *)
(***************************************************************************)
EXTENDS Naturals

CONSTANTS
    Callers,     \* goroutines sharing one MapPool
    Maps,        \* the maps alive at once: a map neither pooled nor held is
                 \* garbage, and New may hand its memory out again
    Keys,        \* keys callers write
    NoMap

ASSUME NoMap \notin Maps

VARIABLES
    pooled,      \* maps inside the sync.Pool
    content,     \* content[m]: the keys map m holds
    held         \* held[c]: the map caller c got and has not Put back

pvars == <<pooled, content, held>>

\* Maps New may allocate now: those no goroutine or pool refers to.
Free == Maps \ (pooled \cup {held[c] : c \in Callers})

\* NewMapPool: sync.Pool{New: make(map[string]interface{})}; nothing is
\* allocated until the first Get.
PInit ==
    /\ pooled = {}
    /\ content = [m \in Maps |-> {}]
    /\ held = [c \in Callers |-> NoMap]

\* MapPool.Get: mp.Pool.Get() gives a pooled map or, whatever the pool
\* holds (its per-P caches may be empty for this goroutine), a new one;
\* the type assertion succeeds for both, and every key is deleted.
Get(c) ==
    /\ held[c] = NoMap
    /\ \/ \E m \in pooled :
             /\ pooled' = pooled \ {m}
             /\ held' = [held EXCEPT ![c] = m]
             /\ content' = [content EXCEPT ![m] = {}]
       \/ \E m \in Free :
             /\ held' = [held EXCEPT ![c] = m]
             /\ content' = [content EXCEPT ![m] = {}]
             /\ UNCHANGED pooled

\* The caller stores a key in the map it holds.
Write(c, k) ==
    /\ held[c] # NoMap
    /\ content' = [content EXCEPT ![held[c]] = @ \cup {k}]
    /\ UNCHANGED <<pooled, held>>

\* MapPool.Put: mp.Pool.Put(m), with whatever the map still holds.
Put(c) ==
    /\ held[c] # NoMap
    /\ pooled' = pooled \cup {held[c]}
    /\ held' = [held EXCEPT ![c] = NoMap]
    /\ UNCHANGED content

\* The garbage collector empties the pool's victim cache.
Collect(m) ==
    /\ m \in pooled
    /\ pooled' = pooled \ {m}
    /\ UNCHANGED <<content, held>>

PNext ==
    \/ \E c \in Callers : Get(c) \/ Put(c)
    \/ \E c \in Callers, k \in Keys : Write(c, k)
    \/ \E m \in Maps : Collect(m)

PSpec == PInit /\ [][PNext]_pvars

-----------------------------------------------------------------------------

PoolTypeOK ==
    /\ pooled \subseteq Maps
    /\ content \in [Maps -> SUBSET Keys]
    /\ held \in [Callers -> Maps \cup {NoMap}]

=============================================================================
