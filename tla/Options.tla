-------------------------------- MODULE Options --------------------------------
(***************************************************************************)
(* The functional options of kafka/options.go as NewProducerV2 and         *)
(* NewConsumerV2 apply them: the constructor fills an Options value from   *)
(* its arguments, calls each optFun in order, and for a producer fills the *)
(* defaults and validates; for a consumer it validates only.  The          *)
(* RedisOpt and AsOpt setters of drivers/redis_option.go and               *)
(* drivers/aerospike_option.go, applied by NewRedisV2 and NewAsV2 to       *)
(* newRedisOption() and newAsOption(), follow the same pattern.            *)
(*                                                                         *)
(* Strings and slices are abstracted to whether they are empty, which is  *)
(* all ValidConsumerOption and ValidProducerOption look at; the integer    *)
(* options keep their value.                                               *)
(***************************************************************************)
EXTENDS Integers, Sequences, TLC

CONSTANTS
    Ints,        \* the int arguments the setters may get
    Durs,        \* the time.Duration arguments, in microseconds
    MaxOpts      \* bound on the number of option arguments

ASSUME Ints \subseteq Int /\ Durs \subseteq Int /\ MaxOpts \in Nat

Kinds == {"producer", "consumer", "redis", "aerospike"}

Ms == 1000       \* time.Millisecond, in microseconds

\* Each guarded RedisOpt setter: the field it assigns and the value its
\* argument must exceed.  MinRetryBackoff and MaxRetryBackoff are assigned
\* unconditionally; Password and the monitor are strings and pointers.
RedisIntFloor == [MaxRetries |-> 0, PoolSize |-> 0, MinIdleConns |-> 0]
RedisDurFloor == [DialTimeout |-> 10 * Ms, ReadTimeout |-> Ms,
                  WriteTimeout |-> Ms, MaxConnAge |-> 10 * Ms,
                  PoolTimeout |-> Ms, IdleTimeout |-> Ms]
RedisBackoffs == {"MinRetryBackoff", "MaxRetryBackoff"}

\* The same for AsOpt: WithAsQueueSize needs more than 5 and WithMaxRetries
\* at least 0; every timeout setter needs more than 5ms.  WithAsAuthMode,
\* WithAsUser, WithAsPassword and WithAsClusterName are unconditional.
AsIntFloor == [connectionQueueSize |-> 5, maxRetries |-> -1]
AsDurFloor == [timeout |-> 5 * Ms, idelTimeout |-> 5 * Ms,
               loginTimeout |-> 5 * Ms, readTimeout |-> 5 * Ms,
               writeTimeout |-> 5 * Ms]
AsStrings == {"authMode", "user", "password", "clusterName"}

\* newRedisOption(): every field zero, no monitor.
NewRedisOption ==
    [f \in DOMAIN RedisIntFloor \cup DOMAIN RedisDurFloor \cup RedisBackoffs |-> 0]
    @@ [Password |-> FALSE, monitorVec |-> FALSE]

\* newAsOption(): the defaults of the aerospike client policies.
NewAsOption ==
    [timeout |-> 500 * Ms, idelTimeout |-> 10000 * Ms, loginTimeout |-> 1000 * Ms,
     connectionQueueSize |-> 256, readTimeout |-> 50 * Ms,
     writeTimeout |-> 50 * Ms, maxRetries |-> 2, monitorVec |-> FALSE]
    @@ [f \in AsStrings |-> FALSE]

\* The error values of options.go, and "nil" for success.
Results == {"ErrGroupName", "ErrTopic", "ErrBrokers", "ErrNumWorks",
            "ErrQueueSize", "nil"}

VARIABLES
    kind,        \* which constructor is running
    o,           \* the *Options being built
    requested,   \* history: the WithNumWorkers/WithQueueSize calls, in order
    result       \* "building", or what the constructor's validation returned

vars == <<kind, o, requested, result>>

Opts == [Name : BOOLEAN, topics : BOOLEAN, brokers : BOOLEAN,
         numWorkers : Int, queueSize : Int]

\* WithNumWorkers: numWorkers is assigned only when the Options already
\* hold a positive numWorkers.
WithNumWorkers(numWorkers) ==
    /\ result = "building" /\ Len(requested) < MaxOpts
    /\ o' = IF o.numWorkers > 0 THEN [o EXCEPT !.numWorkers = numWorkers] ELSE o
    /\ requested' = Append(requested, [opt |-> "numWorkers", val |-> numWorkers])
    /\ UNCHANGED <<kind, result>>

\* Fault variant of WithQueueSize: a non-positive size is assigned too.
WithQueueSizeUnguarded(queueSize) ==
    /\ result = "building" /\ Len(requested) < MaxOpts
    /\ o' = [o EXCEPT !.queueSize = queueSize]
    /\ requested' = Append(requested, [opt |-> "queueSize", val |-> queueSize])
    /\ UNCHANGED <<kind, result>>

\* WithQueueSize: a non-positive size is ignored.
WithQueueSize(queueSize) ==
    /\ result = "building" /\ Len(requested) < MaxOpts
    /\ o' = IF queueSize > 0 THEN [o EXCEPT !.queueSize = queueSize] ELSE o
    /\ requested' = Append(requested, [opt |-> "queueSize", val |-> queueSize])
    /\ UNCHANGED <<kind, result>>

\* A numeric RedisOpt or AsOpt setter: o.f is assigned when the argument
\* exceeds the setter's floor.
WithGuarded(f, v, floor) ==
    /\ result = "building" /\ Len(requested) < MaxOpts
    /\ o' = IF v > floor THEN [o EXCEPT ![f] = v] ELSE o
    /\ requested' = Append(requested, [opt |-> f, val |-> v])
    /\ UNCHANGED <<kind, result>>

\* WithRedisMinRetryBackoff, WithRedisMaxRetryBackoff: unconditional.
WithBackoff(f, v) ==
    /\ result = "building" /\ Len(requested) < MaxOpts
    /\ o' = [o EXCEPT ![f] = v]
    /\ requested' = Append(requested, [opt |-> f, val |-> v])
    /\ UNCHANGED <<kind, result>>

\* WithName, WithTopics, WithBrokers, and the string and monitor setters
\* of the drivers: unconditional assignment, here of an empty or a
\* non-empty value.
WithField(f, nonEmpty) ==
    /\ result = "building" /\ Len(requested) < MaxOpts
    /\ o' = [o EXCEPT ![f] = nonEmpty]
    /\ UNCHANGED <<kind, requested, result>>

FillProducerOption(p) ==
    [p EXCEPT !.numWorkers = IF @ <= 0 THEN 1 ELSE @,
              !.queueSize  = IF @ <= 0 THEN 1 ELSE @]

\* The checks in order; the first that fails is returned (o is never nil).
ValidProducerOption(p) ==
    CASE ~p.brokers        -> "ErrBrokers"
      [] p.numWorkers <= 0 -> "ErrNumWorks"
      [] p.queueSize <= 0  -> "ErrQueueSize"
      [] OTHER             -> "nil"

ValidConsumerOption(p) ==
    CASE ~p.Name    -> "ErrGroupName"
      [] ~p.topics  -> "ErrTopic"
      [] ~p.brokers -> "ErrBrokers"
      [] OTHER      -> "nil"

\* NewProducerV2 after the option loop: FillProducerOption, then
\* ValidProducerOption; NewConsumerV2: ValidConsumerOption only.
Validate ==
    /\ kind \in {"producer", "consumer"} /\ result = "building"
    /\ IF kind = "producer"
         THEN /\ o' = FillProducerOption(o)
              /\ result' = ValidProducerOption(o')
         ELSE /\ result' = ValidConsumerOption(o)
              /\ UNCHANGED o
    /\ UNCHANGED <<kind, requested>>

\* The constructor has returned.
Returned == result # "building" /\ UNCHANGED vars

\* &Options{Name: name, brokers: brokers} for a producer, and also
\* topics: topics for a consumer; the integer fields start at 0.
\* NewRedisV2 and NewAsV2 start from newRedisOption() and newAsOption().
Init ==
    /\ kind \in Kinds
    /\ CASE kind = "redis"     -> o = NewRedisOption
          [] kind = "aerospike" -> o = NewAsOption
          [] OTHER ->
               \E name, topics, brokers \in BOOLEAN :
                  /\ kind = "producer" => ~topics
                  /\ o = [Name |-> name, topics |-> topics, brokers |-> brokers,
                          numWorkers |-> 0, queueSize |-> 0]
    /\ requested = <<>>
    /\ result = "building"

\* One call of a setter of the options kind's constructor takes.
KafkaOpt ==
    /\ kind \in {"producer", "consumer"}
    /\ \/ \E n \in Ints : WithNumWorkers(n) \/ WithQueueSize(n)
       \/ \E f \in {"Name", "topics", "brokers"}, v \in BOOLEAN : WithField(f, v)

\* WithRedisMonitor always builds a monitor; WithRedisPassword may be empty.
RedisOpt ==
    /\ kind = "redis"
    /\ \/ \E f \in DOMAIN RedisIntFloor, v \in Ints : WithGuarded(f, v, RedisIntFloor[f])
       \/ \E f \in DOMAIN RedisDurFloor, v \in Durs : WithGuarded(f, v, RedisDurFloor[f])
       \/ \E f \in RedisBackoffs, v \in Durs : WithBackoff(f, v)
       \/ \E v \in BOOLEAN : WithField("Password", v)
       \/ WithField("monitorVec", TRUE)

\* WithAsMonitor is passed a vector that may be nil.
AsOpt ==
    /\ kind = "aerospike"
    /\ \/ \E f \in DOMAIN AsIntFloor, v \in Ints : WithGuarded(f, v, AsIntFloor[f])
       \/ \E f \in DOMAIN AsDurFloor, v \in Durs : WithGuarded(f, v, AsDurFloor[f])
       \/ \E f \in AsStrings \cup {"monitorVec"}, v \in BOOLEAN : WithField(f, v)

Next ==
    \/ KafkaOpt \/ RedisOpt \/ AsOpt
    \/ Validate
    \/ Returned

Spec == Init /\ [][Next]_vars

-----------------------------------------------------------------------------

\* The value the last positive request of option opt asks for, or dflt.
LastPositive(opt, dflt) ==
    LET pos == {i \in 1..Len(requested) :
                   requested[i].opt = opt /\ requested[i].val > 0}
    IN  IF pos = {} THEN dflt
        ELSE requested[CHOOSE i \in pos : \A j \in pos : j <= i].val

\* A producer built by NewProducerV2 gets the queue the options ask for:
\* the last positive WithQueueSize wins, a non-positive one is ignored,
\* and with none the queue holds one message; validation never rejects it.
QueueSizeAsRequested ==
    (kind = "producer" /\ result # "building") =>
        /\ result # "ErrQueueSize"
        /\ o.queueSize = LastPositive("queueSize", 1)

\* The same for the number of workers: WithNumWorkers(n) with n > 0 makes
\* NewProducerV2 start n workers.
NumWorkersAsRequested ==
    (kind = "producer" /\ result = "nil") =>
        o.numWorkers = LastPositive("numWorkers", 1)

=============================================================================
