----------------------------- MODULE RedisClient -----------------------------
(***************************************************************************)
(* Clients of Redis or Valkey servers (redis/redis.go, redis/cache.go).    *)
(* newClient goes through two package variables, client and limiter, and   *)
(* reads them back to build its result, without a lock: constructors that  *)
(* overlap read what the others wrote.  RateLimiter exists once for the    *)
(* package, on the latest client, and once per client.  The servers and    *)
(* the redis_rate script are external: a server has a key space and counts *)
(* the requests of a key in the current minute.                            *)
(***************************************************************************)
EXTENDS Naturals

CONSTANTS
    Callers,        \* goroutines, each creates one client and then uses it
    Servers,        \* what a RedisConfig points to
    NoServer,       \* a nil pointer
    Keys, Values,   \* cache keys; values, by how they come out of JSON
    Absent,         \* no such key
    RATE_LIMITER,   \* requests per minute
    MaxCalls        \* bound: calls of one caller

ASSUME ServersAssumption == NoServer \notin Servers
ASSUME LimitAssumption   == RATE_LIMITER \in Nat /\ MaxCalls \in Nat
\* "text": a string that is no JSON document; "number": one that is.
ASSUME ValuesAssumption  == Values \subseteq {"text", "number"}

VARIABLES
    client, limiter,  \* the package variables, as the server they talk to
    config,           \* the server of each caller's RedisConfig
    pc,               \* start, opened, limited, read, ready, refused
    handle,           \* the redisClient each caller builds
    used,             \* requests counted at each server this minute
    store,            \* key space of each server
    calls,            \* calls each caller made
    met,              \* history: whose construction overlapped each caller's
    latest,           \* history: config behind the latest limiter
    charged,          \* history: requests each server should have counted
    got               \* what each caller's last Get returned

vars == <<client, limiter, config, pc, handle, met, used, store, calls, latest,
          charged, got>>

Stored == [enc : {"json", "raw"}, value : Values]
Empty  == [enc |-> "none", value |-> Absent]

Init ==
    /\ client = NoServer /\ limiter = NoServer
    /\ config \in [Callers -> Servers]
    /\ pc = [c \in Callers |-> "start"]
    /\ handle = [c \in Callers |-> [client |-> NoServer, limiter |-> NoServer]]
    /\ used = [s \in Servers |-> 0]
    /\ store = [s \in Servers |-> [k \in Keys |-> Empty]]
    /\ calls = [c \in Callers |-> 0]
    /\ met = [c \in Callers |-> {}]
    /\ latest = NoServer
    /\ charged = [s \in Servers |-> 0]
    /\ got = [c \in Callers |-> Absent]

-----------------------------------------------------------------------------
(* newClient, one access to a package variable per step                    *)

construction == <<client, limiter, pc, handle, met, latest>>
traffic      == <<used, store, calls, charged, got>>

Inside(c) == pc[c] \in {"opened", "limited", "read"}

\* A nil config, or clientOptions refuses the protocol: nothing is assigned.
RefuseConfig(c) ==
    /\ pc[c] = "start"
    /\ pc' = [pc EXCEPT ![c] = "refused"]
    /\ UNCHANGED <<client, limiter, config, handle, met, latest, traffic>>

OpenClient(c) ==
    /\ pc[c] = "start"
    /\ client' = config[c]
    /\ pc' = [pc EXCEPT ![c] = "opened"]
    /\ met' = [d \in Callers |-> IF d = c THEN {c} \cup {e \in Callers : Inside(e)}
                                ELSE IF Inside(d) THEN met[d] \cup {c} ELSE met[d]]
    /\ UNCHANGED <<limiter, config, handle, latest, traffic>>

\* Variant: the limiter of an earlier client is kept.
NewLimiterOnce == limiter' = IF limiter = NoServer THEN client ELSE limiter

NewLimiter == limiter' = client

OpenLimiter(c) ==
    /\ pc[c] = "opened"
    /\ NewLimiter
    /\ latest' = config[c]
    /\ pc' = [pc EXCEPT ![c] = "limited"]
    /\ UNCHANGED <<client, config, handle, met, traffic>>

\* The result is built from the package variables, one after the other.
ReadClient(c) ==
    /\ pc[c] = "limited"
    /\ handle' = [handle EXCEPT ![c].client = client]
    /\ pc' = [pc EXCEPT ![c] = "read"]
    /\ UNCHANGED <<client, limiter, config, met, latest, traffic>>

ReturnClient(c) ==
    /\ pc[c] = "read"
    /\ handle' = [handle EXCEPT ![c].limiter = limiter]
    /\ pc' = [pc EXCEPT ![c] = "ready"]
    /\ UNCHANGED <<client, limiter, config, met, latest, traffic>>

-----------------------------------------------------------------------------
(* Calls on the result                                                     *)

Call(c) == /\ pc[c] = "ready" /\ calls[c] < MaxCalls
           /\ calls' = [calls EXCEPT ![c] = @ + 1]
           /\ UNCHANGED <<construction, config>>

\* The script counts a request only when it allows it.
Allow(s) == used' = IF used[s] < RATE_LIMITER THEN [used EXCEPT ![s] = @ + 1] ELSE used
Charge(s) == charged' = IF charged[s] < RATE_LIMITER THEN [charged EXCEPT ![s] = @ + 1] ELSE charged

\* Variant: the method asks the package's limiter.
MethodLimiterOfPackage(c) == limiter
MethodLimiter(c) == handle[c].limiter

\* (*redisClient).RateLimiter, and the package function.
RateLimiterOfClient(c) ==
    /\ Call(c) /\ Allow(MethodLimiter(c)) /\ Charge(config[c])
    /\ UNCHANGED <<store, got>>

RateLimiter(c) ==
    /\ Call(c) /\ Allow(limiter) /\ Charge(latest)
    /\ UNCHANGED <<store, got>>

Minute ==
    /\ \E s \in Servers : used[s] > 0
    /\ used' = [s \in Servers |-> 0]
    /\ charged' = [s \in Servers |-> 0]
    /\ UNCHANGED <<construction, config, store, calls, got>>

\* The value as the server keeps it: Set marshals, SetNX does not.
Put(c, k, enc, v) ==
    store' = [store EXCEPT ![handle[c].client][k] = [enc |-> enc, value |-> v]]

Set(c, k, v) ==
    /\ Call(c) /\ Put(c, k, "json", v)
    /\ UNCHANGED <<used, charged, got>>

SetNX(c, k, v) ==
    /\ Call(c)
    /\ IF store[handle[c].client][k] = Empty THEN Put(c, k, "raw", v) ELSE store' = store
    /\ UNCHANGED <<used, charged, got>>

\* json.Unmarshal of what is stored: a raw string is no JSON document.
Decode(x) == IF x.enc = "raw" /\ x.value = "text" THEN "error" ELSE x.value

Get(c, k) ==
    /\ Call(c)
    /\ got' = [got EXCEPT ![c] = Decode(store[handle[c].client][k])]
    /\ UNCHANGED <<used, charged, store>>

\* Del, or the expiry of the key.
Remove(s, k) == store' = [store EXCEPT ![s][k] = Empty]

Del(c, k) ==
    /\ Call(c) /\ Remove(handle[c].client, k)
    /\ UNCHANGED <<used, charged, got>>

ClearCache(c) ==
    /\ Call(c)
    /\ store' = [store EXCEPT ![handle[c].client] = [k \in Keys |-> Empty]]
    /\ UNCHANGED <<used, charged, got>>

Expire(s, k) ==
    /\ store[s][k] # Empty /\ Remove(s, k)
    /\ UNCHANGED <<construction, config, used, calls, charged, got>>

Use(c) ==
    \/ RateLimiterOfClient(c) \/ RateLimiter(c) \/ ClearCache(c)
    \/ \E k \in Keys : \/ Get(c, k) \/ Del(c, k)
                       \/ \E v \in Values : Set(c, k, v) \/ SetNX(c, k, v)

Next == \/ \E c \in Callers : \/ RefuseConfig(c) \/ OpenClient(c) \/ OpenLimiter(c)
                              \/ ReadClient(c) \/ ReturnClient(c) \/ Use(c)
        \/ Minute
        \/ \E s \in Servers, k \in Keys : Expire(s, k)

Spec == Init /\ [][Next]_vars

-----------------------------------------------------------------------------
\* Every variable stays in its type; no method meets a nil pointer.
TypeOK ==
    /\ client \in Servers \cup {NoServer} /\ limiter \in Servers \cup {NoServer}
    /\ config \in [Callers -> Servers]
    /\ pc \in [Callers -> {"start", "opened", "limited", "read", "ready", "refused"}]
    /\ handle \in [Callers -> [client : Servers \cup {NoServer}, limiter : Servers \cup {NoServer}]]
    /\ \A c \in Callers : pc[c] = "ready" => NoServer \notin {handle[c].client, handle[c].limiter}
    /\ met \in [Callers -> SUBSET Callers]
    /\ used \in [Servers -> 0 .. RATE_LIMITER] /\ charged \in [Servers -> 0 .. RATE_LIMITER]
    /\ store \in [Servers -> [Keys -> Stored \cup {Empty}]]
    /\ calls \in [Callers -> 0 .. MaxCalls]
    /\ latest \in Servers \cup {NoServer}
    /\ got \in [Callers -> Values \cup {Absent, "error"}]

\* The servers a constructor may have come across in the package variables.
ServersMet(c) == {config[d] : d \in met[c]}

\* Whatever was created before or is created later, a client and its limiter
\* talk to the server of their own configuration or to that of a constructor
\* that overlapped theirs, and to no other.  A constructor that met nobody
\* gets its own server twice.
OwnUnlessOverlapping ==
    \A c \in Callers : pc[c] = "ready" =>
        /\ c \in met[c]
        /\ handle[c].client \in ServersMet(c) /\ handle[c].limiter \in ServersMet(c)

NoOverlap == \A c \in Callers : met[c] \subseteq {c}

\* As long as no two constructors overlapped, requests are limited at the
\* server they are made for: a method call at its client's server, a package
\* call at the server of the latest client.
LimitedAtRightServer == NoOverlap => used = charged

\* redis/redis.go:184: the method enforces the limit "against this client".
\* The code does not keep this for constructors that overlap.
OwnServer ==
    \A c \in Callers : pc[c] = "ready" =>
        handle[c] = [client |-> config[c], limiter |-> config[c]]
=============================================================================
