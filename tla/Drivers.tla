------------------------------- MODULE Drivers -------------------------------
(***************************************************************************)
(* The store handles of drivers/redis.go and drivers/aerospike.go, built   *)
(* by NewRedisV2 and NewAsV2 from the options of Options.tla, and their    *)
(* operations against a server.                                            *)
(*                                                                         *)
(* Operations on different keys do not interact, so the server holds one  *)
(* key: for redis its value (none, an integer or another string) and       *)
(* whether it has a TTL; for aerospike its record (none, or the one bin    *)
(* the operations name, holding a scalar, a map or a list of values).      *)
(* Any call may fail on the network.  What a property reads of the         *)
(* monitor is the error counter MetricsError increments.                   *)
(***************************************************************************)
EXTENDS Options, FiniteSets

CONSTANTS
    Hosts,       \* the host strings NewAsV2 may get, as [parts, numeric]
    Vals,        \* the values AppendUniq and RemoveList take
    MaxCalls,    \* bound on operations called on a handle
    Library      \* the aerospike client's own default, left in place

VARIABLES
    monitored,   \* conn.monitorVec != nil
    policy,      \* the aerospike client's default read and write policies
    val,         \* redis: the key's value
    ttl,         \* redis: the key expires
    rec,         \* aerospike: the key's record
    calls,       \* operations called so far
    errCounted,  \* monitorVec.IncError calls
    panicked     \* a handle method panicked

handleVars == <<monitored, policy, val, ttl, rec, calls,
                errCounted, panicked>>
dvars == <<kind, o, requested, result, handleVars>>

NoRecord == [bin |-> "none", elems |-> {}]

\* NewAsV2's host loop, for one host: strings.Split(h, ":"), and
\* strconv.Atoi of the port when there are exactly two parts.
HostAtoiFails(h) == h.parts = 2 /\ ~h.numeric

\* Fault variant of AsPolicy: the policy is installed without
\* MaxRetries, so the library's retry count applies.
AsPolicyNoRetries(timeout) ==
    IF timeout > 0 THEN [timeout |-> timeout, retries |-> Library]
                   ELSE Library

\* The client policy NewAsV2 installs as DefaultPolicy or
\* DefaultWritePolicy when the timeout is positive; otherwise the client
\* keeps its own default policy.
AsPolicy(timeout) ==
    IF timeout > 0 THEN [timeout |-> timeout, retries |-> o.maxRetries]
                   ELSE Library

\* The error a method returns: nil, redis.Nil, or any other error.
Errs == {"nil", "redisNil", "other"}

\* The deferred MetricsError of a method that returns err.  Redis skips
\* redis.Nil; AsStore counts every non-nil error.
Return(err) ==
    /\ calls' = calls + 1
    /\ errCounted' = errCounted +
          (IF monitored /\ err # "nil" /\ ~(kind = "redis" /\ err = "redisNil")
             THEN 1 ELSE 0)
    /\ UNCHANGED panicked

\* A handle NewRedisV2 or NewAsV2 returned, before a panic and the bound.
Ready(k) == kind = k /\ result = "nil" /\ ~panicked /\ calls < MaxCalls

\* The command or the server call fails: the error is returned as it is.
Failed(store) == Return("other") /\ UNCHANGED store

\* The values Sets may write into the bin: a scalar, a map or a list.
BinValues == {[bin |-> "scalar", elems |-> {}], [bin |-> "map", elems |-> {}]}
             \cup {[bin |-> "list", elems |-> S] : S \in SUBSET Vals}

-----------------------------------------------------------------------------
(* Construction.                                                           *)

\* NewRedisV2 after its options: redis.NewClient(o.Format(address, db)) and
\* Ping; the deferred MetricsError("init", returnError) counts a failed
\* Ping on conn, whose monitor the options set.  The options are dead once
\* it returns.
NewRedisV2 ==
    /\ kind = "redis" /\ result = "building"
    /\ monitored' = o.monitorVec
    /\ \E ok \in BOOLEAN :
          /\ result' = IF ok THEN "nil" ELSE "ErrPing"
          /\ errCounted' = IF ~ok /\ o.monitorVec THEN 1 ELSE 0
    /\ o' = <<>> /\ requested' = <<>>
    /\ UNCHANGED <<kind, policy, val, ttl, rec, calls, panicked>>

\* NewAsV2 after its options: a host whose port does not parse returns
\* before the deferred MetricsError is registered; otherwise the client is
\* created, and on success the read and write policies are installed.
NewAsV2 ==
    /\ kind = "aerospike" /\ result = "building"
    /\ monitored' = o.monitorVec
    /\ \E h \in Hosts, ok \in BOOLEAN :
          CASE HostAtoiFails(h) ->
                 /\ result' = "ErrAtoi"
                 /\ UNCHANGED <<errCounted, policy>>
            [] ~ok ->
                 /\ result' = "ErrConnect"
                 /\ errCounted' = IF o.monitorVec THEN 1 ELSE 0
                 /\ UNCHANGED policy
            [] OTHER ->
                 /\ result' = "nil"
                 /\ policy' = [read |-> AsPolicy(o.readTimeout),
                               write |-> AsPolicy(o.writeTimeout)]
                 /\ UNCHANGED errCounted
    /\ o' = <<>> /\ requested' = <<>>
    /\ UNCHANGED <<kind, val, ttl, rec, calls, panicked>>

-----------------------------------------------------------------------------
(* Redis.  Every method runs one command when r.Client != nil (always, for *)
(* a handle NewRedisV2 returned) and returns its result.                   *)

\* Set(key, value, life): SET with an expiry when life > 0.
RedisSet(v, life) ==
    /\ Ready("redis")
    /\ \/ Failed(<<val, ttl>>)
       \/ val' = v /\ ttl' = life /\ Return("nil")

\* Get(key): a missing key (redis.Nil) is "", nil.
RedisGet ==
    /\ Ready("redis")
    /\ \/ Failed(<<val, ttl>>)
       \/ Return("nil") /\ UNCHANGED <<val, ttl>>

\* Incr(key): INCR on a string that is not an integer is a server error;
\* a missing key becomes 1.  The TTL is kept.
RedisIncr ==
    /\ Ready("redis")
    /\ \/ Failed(<<val, ttl>>)
       \/ val = "str" /\ Return("other") /\ UNCHANGED <<val, ttl>>
       \/ val # "str" /\ val' = "int" /\ Return("nil") /\ UNCHANGED ttl

\* Expire(key, life), life > 0: false on a missing key.
RedisExpire ==
    /\ Ready("redis")
    /\ \/ Failed(<<val, ttl>>)
       \/ Return("nil") /\ ttl' = (val # "none") /\ UNCHANGED val

\* Del(key), TTL(key): redis.Nil is 0, nil.
RedisDel ==
    /\ Ready("redis")
    /\ \/ Failed(<<val, ttl>>)
       \/ val' = "none" /\ ttl' = FALSE /\ Return("nil")

RedisTTL ==
    /\ Ready("redis")
    /\ \/ Failed(<<val, ttl>>)
       \/ Return("nil") /\ UNCHANGED <<val, ttl>>

\* GetIncr(k): GET, a missing key is 0, nil; cmd.Int64() of a value that
\* is not an integer is a strconv error.
RedisGetIncr ==
    /\ Ready("redis")
    /\ \/ Failed(<<val, ttl>>)
       \/ Return(IF val = "str" THEN "other" ELSE "nil") /\ UNCHANGED <<val, ttl>>

\* Setnx(expire, k, v): SETNX with time.Second * expire; false when the
\* key exists.
RedisSetnx(expire) ==
    /\ Ready("redis")
    /\ \/ Failed(<<val, ttl>>)
       \/ val # "none" /\ Return("nil") /\ UNCHANGED <<val, ttl>>
       \/ val = "none" /\ val' = "str" /\ ttl' = (expire > 0) /\ Return("nil")

\* The server expires a key whose TTL has run out.
RedisExpiry ==
    /\ kind = "redis" /\ ttl
    /\ val' = "none" /\ ttl' = FALSE
    /\ UNCHANGED <<kind, o, requested, result, monitored, policy, rec, calls,
                   errCounted, panicked>>

-----------------------------------------------------------------------------
(* AsStore.  aerospike.NewKey of string parts never fails; every method    *)
(* then calls the client, and the deferred MetricsError counts what it     *)
(* returns.  ErrKeyNotFound is mapped to a nil error only where the code   *)
(* compares with it.                                                       *)

Bin == rec.bin

\* Sets, SetHasPolicy: Put the bin.  A caller's write policy (for example
\* CREATE_ONLY, or a generation check) may make the server refuse it.
AsSets(v) ==
    /\ Ready("aerospike")
    /\ \/ Failed(rec)
       \/ rec' = v /\ Return("nil")

AsSetHasPolicy(v) ==
    /\ Ready("aerospike")
    /\ \/ Failed(rec)
       \/ rec' = v /\ Return("nil")
       \/ Bin # "none" /\ Return("other") /\ UNCHANGED rec

\* Get, GetList, GetListLen on a missing record: nil, nil or 0, nil.
\* GetListLen's ListSizeOp on a bin that is not a list is a server error.
AsGet ==
    /\ Ready("aerospike")
    /\ \/ Failed(rec)
       \/ Return("nil") /\ UNCHANGED rec

AsGetList ==
    /\ Ready("aerospike")
    /\ \/ Failed(rec)
       \/ Return("nil") /\ UNCHANGED rec

AsGetListLen ==
    /\ Ready("aerospike")
    /\ \/ Failed(rec)
       \/ Return(IF Bin \in {"scalar", "map"} THEN "other" ELSE "nil")
          /\ UNCHANGED rec

\* Delete, Exists: false, nil on a missing record.
AsDelete ==
    /\ Ready("aerospike")
    /\ \/ Failed(rec)
       \/ rec' = NoRecord /\ Return("nil")

AsExists ==
    /\ Ready("aerospike")
    /\ \/ Failed(rec)
       \/ Return("nil") /\ UNCHANGED rec

\* PutMap: MapPutOp creates the record or the map; on a bin of another
\* type the server answers with an error.
AsPutMap ==
    /\ Ready("aerospike")
    /\ \/ Failed(rec)
       \/ Bin \in {"none", "map"} /\ rec' = [bin |-> "map", elems |-> {}]
          /\ Return("nil")
       \/ Bin \in {"scalar", "list"} /\ Return("other") /\ UNCHANGED rec

\* GetMapValue: a missing record or bin is nil, nil; otherwise the bin is
\* type-asserted to map[interface{}]interface{}, which panics when the bin
\* holds anything else.
AsGetMapValue ==
    /\ Ready("aerospike")
    /\ \/ Failed(rec)
       \/ Bin \in {"none", "map"} /\ Return("nil") /\ UNCHANGED rec
       \/ Bin \in {"scalar", "list"} /\ panicked' = TRUE
          /\ UNCHANGED <<rec, calls, errCounted>>

\* AppendUniq(value): ListAppend with ADD_UNIQUE; a value already in the
\* list, or a bin that is not a list, is a server error.
AsAppendUniq(v) ==
    /\ Ready("aerospike")
    /\ \/ Failed(rec)
       \/ Bin = "none" /\ rec' = [bin |-> "list", elems |-> {v}] /\ Return("nil")
       \/ Bin = "list" /\ v \notin rec.elems
          /\ rec' = [rec EXCEPT !.elems = @ \cup {v}] /\ Return("nil")
       \/ \/ Bin \in {"scalar", "map"}
          \/ Bin = "list" /\ v \in rec.elems
          /\ Return("other") /\ UNCHANGED rec

\* RemoveList(values): ListRemoveByValueList; a missing record is
\* ErrKeyNotFound, which RemoveList returns as it is.
AsRemoveList(vs) ==
    /\ Ready("aerospike")
    /\ \/ Failed(rec)
       \/ Bin = "list" /\ rec' = [rec EXCEPT !.elems = @ \ vs] /\ Return("nil")
       \/ Bin # "list" /\ Return("other") /\ UNCHANGED rec

-----------------------------------------------------------------------------

DInit ==
    /\ Init
    /\ monitored = FALSE /\ policy = Library
    /\ val = "none" /\ ttl = FALSE /\ rec = NoRecord
    /\ calls = 0 /\ errCounted = 0 /\ panicked = FALSE

\* Nothing more happens: the constructor failed, the handle panicked, or
\* the bound on calls is reached.
Finished ==
    /\ result \notin {"building", "nil"} \/ panicked \/ calls = MaxCalls
    /\ UNCHANGED dvars

RedisOps ==
    \/ \E v \in {"int", "str"}, life \in BOOLEAN : RedisSet(v, life)
    \/ RedisGet \/ RedisIncr \/ RedisExpire \/ RedisDel \/ RedisTTL
    \/ RedisGetIncr \/ \E e \in {0, 1} : RedisSetnx(e)

AsOps ==
    \/ \E v \in BinValues : AsSets(v) \/ AsSetHasPolicy(v)
    \/ AsGet \/ AsGetList \/ AsGetListLen \/ AsDelete \/ AsExists
    \/ AsPutMap \/ AsGetMapValue
    \/ \E v \in Vals : AsAppendUniq(v)
    \/ \E vs \in SUBSET Vals : AsRemoveList(vs)

DNext ==
    \/ (KafkaOpt \/ RedisOpt \/ AsOpt \/ Validate \/ Returned) /\ UNCHANGED handleVars
    \/ NewRedisV2 \/ NewAsV2
    \/ RedisOps /\ UNCHANGED <<kind, o, requested, result, monitored, policy, rec, panicked>>
    \/ AsOps /\ UNCHANGED <<kind, o, requested, result, monitored, policy, val, ttl>>
    \/ RedisExpiry
    \/ Finished

DSpec == DInit /\ [][DNext]_dvars

-----------------------------------------------------------------------------

\* The value the last accepted call of setter f gave, where a call is
\* accepted when its argument exceeds floor; dflt when there is none.
LastOver(f, floor, dflt) ==
    LET acc == {k \in 1..Len(requested) :
                   requested[k].opt = f /\ requested[k].val > floor}
    IN  IF acc = {} THEN dflt
        ELSE requested[CHOOSE k \in acc : \A j \in acc : j <= k].val

\* A client NewAsV2 returns reads and writes with the socket timeouts and
\* the retry count its options asked for: the last WithAsReadTimeout and
\* WithAsWriteTimout above 5ms (50ms by default) and the last
\* WithMaxRetries of at least 0 (2 by default).  It needs the setters'
\* guards and NewAsV2's positive-timeout checks to agree.
AsPoliciesAsRequested ==
    [][(kind = "aerospike" /\ result = "building" /\ result' = "nil") =>
          LET retries == LastOver("maxRetries", -1, 2) IN
          policy' = [read  |-> [timeout |-> LastOver("readTimeout", 5 * Ms, 50 * Ms),
                                retries |-> retries],
                     write |-> [timeout |-> LastOver("writeTimeout", 5 * Ms, 50 * Ms),
                                retries |-> retries]]
      ]_dvars

=============================================================================
