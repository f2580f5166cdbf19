---------------------------- MODULE ClientProofs ----------------------------
(***************************************************************************)
(* Proofs about the clients of two servers.                                *)
(*                                                                         *)
(* RedisClient, for any callers, servers, keys and limits, however the     *)
(* constructors overlap: no method meets a nil pointer, and a client talks *)
(* to no server but its own and those of constructors that overlapped its  *)
(* own.                                                                    *)
(*                                                                         *)
(* NsqConsumer, for any number of messages, workers, faults and attempts,  *)
(* and any MaxInFlight: what is published is delivered, and what is        *)
(* delivered waits for a handler or is at one.                             *)
(***************************************************************************)
EXTENDS RedisClient, NsqConsumer, SequenceTheorems, FiniteSetTheorems, TLAPS

\* The package variables are set once somebody went through newClient.
PackageSet ==
    \A c \in Callers :
        /\ Inside(c) \/ pc[c] = "ready" => client # NoServer
        /\ pc[c] \in {"limited", "read", "ready"} => limiter # NoServer /\ latest # NoServer
        /\ pc[c] = "read" => handle[c].client # NoServer

RedisInv == TypeOK /\ PackageSet

\* What a ready caller uses.
LEMMA HandleReady ==
    ASSUME RedisInv, NEW c \in Callers, pc[c] = "ready"
    PROVE  /\ handle[c].client \in Servers /\ handle[c].limiter \in Servers
           /\ config[c] \in Servers /\ limiter \in Servers /\ latest \in Servers
BY DEF RedisInv, TypeOK, PackageSet

Construct(c) == RefuseConfig(c) \/ OpenClient(c) \/ OpenLimiter(c) \/ ReadClient(c) \/ ReturnClient(c)

\* newClient: a variable is set before it is read back.
LEMMA ConstructType ==
    ASSUME RedisInv, NEW c \in Callers, Construct(c)
    PROVE  RedisInv'
<1> USE ServersAssumption DEF traffic
<1>1. config' = config /\ UNCHANGED traffic
  BY DEF Construct, RefuseConfig, OpenClient, OpenLimiter, ReadClient, ReturnClient
<1>2. CASE RefuseConfig(c)
  BY <1>1, <1>2 DEF RefuseConfig, RedisInv, TypeOK, PackageSet, Inside
<1>3. CASE OpenClient(c)
  <2>1. met' \in [Callers -> SUBSET Callers]
    BY <1>3 DEF OpenClient, RedisInv, TypeOK
  <2>2. TypeOK'
    BY <1>1, <1>3, <2>1 DEF OpenClient, RedisInv, TypeOK
  <2>3. PackageSet'
    BY <1>1, <1>3 DEF OpenClient, RedisInv, TypeOK, PackageSet, Inside
  <2> QED BY <2>2, <2>3 DEF RedisInv
<1>4. CASE OpenLimiter(c)
  BY <1>1, <1>4 DEF OpenLimiter, NewLimiter, RedisInv, TypeOK, PackageSet, Inside
<1>5. CASE ReadClient(c) \/ ReturnClient(c)
  <2>1. /\ client \in Servers /\ limiter \in Servers /\ UNCHANGED <<client, limiter, latest, met>>
        /\ pc[c] = "read" => handle[c].client \in Servers
    BY <1>5 DEF ReadClient, ReturnClient, RedisInv, TypeOK, PackageSet, Inside
  <2>2. /\ handle' \in [Callers -> [client : Servers \cup {NoServer}, limiter : Servers \cup {NoServer}]]
        /\ \A d \in Callers \ {c} : handle'[d] = handle[d]
        /\ pc'[c] = "read" => handle'[c].client \in Servers
        /\ pc'[c] = "ready" => handle'[c].client \in Servers /\ handle'[c].limiter \in Servers
    <3>0. handle \in [Callers -> [client : Servers \cup {NoServer}, limiter : Servers \cup {NoServer}]]
      BY DEF RedisInv, TypeOK
    <3>1. PICK h \in [client : Servers \cup {NoServer}, limiter : Servers \cup {NoServer}] :
              /\ handle' = [handle EXCEPT ![c] = h]
              /\ pc'[c] = "read" => h.client \in Servers
              /\ pc'[c] = "ready" => h.client \in Servers /\ h.limiter \in Servers
      <4>1. CASE ReadClient(c)
        <5>1. pc'[c] = "read"
          BY <4>1 DEF ReadClient, RedisInv, TypeOK
        <5>2. PICK h : h = [handle[c] EXCEPT !.client = client]
          OBVIOUS
        <5>3. handle' = [handle EXCEPT ![c] = h]
          BY <4>1, <5>2 DEF ReadClient
        <5>4. /\ h \in [client : Servers \cup {NoServer}, limiter : Servers \cup {NoServer}]
              /\ h.client \in Servers
          BY <2>1, <3>0, <5>1, <5>2
        <5> QED BY <5>1, <5>3, <5>4
      <4>2. CASE ReturnClient(c)
        <5>1. pc[c] = "read" /\ pc'[c] = "ready"
          BY <4>2 DEF ReturnClient, RedisInv, TypeOK
        <5>2. PICK h : h = [handle[c] EXCEPT !.limiter = limiter]
          OBVIOUS
        <5>3. handle' = [handle EXCEPT ![c] = h]
          BY <4>2, <5>2 DEF ReturnClient
        <5>4. /\ h \in [client : Servers \cup {NoServer}, limiter : Servers \cup {NoServer}]
              /\ h.client \in Servers /\ h.limiter \in Servers
          BY <2>1, <3>0, <5>1, <5>2
        <5> QED BY <5>1, <5>3, <5>4
      <4> QED BY <1>5, <4>1, <4>2
    <3> QED BY <3>0, <3>1
  <2>3. /\ pc' \in [Callers -> {"start", "opened", "limited", "read", "ready", "refused"}]
        /\ \A d \in Callers \ {c} : pc'[d] = pc[d]
    <3>1. pc \in [Callers -> {"start", "opened", "limited", "read", "ready", "refused"}]
      BY DEF RedisInv, TypeOK
    <3>2. pc' = [pc EXCEPT ![c] = "read"] \/ pc' = [pc EXCEPT ![c] = "ready"]
      BY <1>5 DEF ReadClient, ReturnClient
    <3> QED BY <3>1, <3>2
  <2>4. PackageSet'
    BY <1>5, <2>1, <2>2, <2>3 DEF ReadClient, ReturnClient, RedisInv, TypeOK, PackageSet, Inside
  <2>5. TypeOK'
    BY <1>1, <2>1, <2>2, <2>3 DEF RedisInv, TypeOK
  <2> QED BY <2>4, <2>5 DEF RedisInv
<1> QED BY <1>2, <1>3, <1>4, <1>5 DEF Construct

\* The types of what calls change.
TrafficOK ==
    /\ used \in [Servers -> 0 .. RATE_LIMITER] /\ charged \in [Servers -> 0 .. RATE_LIMITER]
    /\ store \in [Servers -> [Keys -> Stored \cup {Empty}]]
    /\ calls \in [Callers -> 0 .. MaxCalls]
    /\ got \in [Callers -> Values \cup {Absent, "error"}]

LEMMA TrafficType ==
    ASSUME RedisInv, UNCHANGED <<construction, config>>, TrafficOK'
    PROVE  RedisInv'
BY DEF RedisInv, TypeOK, PackageSet, Inside, TrafficOK, construction

\* Counting stays below the limit.
LEMMA CountType ==
    ASSUME NEW f \in [Servers -> 0 .. RATE_LIMITER], NEW s \in Servers
    PROVE  (IF f[s] < RATE_LIMITER THEN [f EXCEPT ![s] = @ + 1] ELSE f) \in [Servers -> 0 .. RATE_LIMITER]
<1>1. CASE f[s] < RATE_LIMITER
  <2>1. f[s] + 1 \in 0 .. RATE_LIMITER
    BY <1>1, LimitAssumption
  <2> QED BY <1>1, <2>1
<1>2. CASE ~(f[s] < RATE_LIMITER)
  BY <1>2
<1> QED BY <1>1, <1>2

\* A write to one key of one server.
LEMMA StoreType ==
    ASSUME TrafficOK, NEW s \in Servers, NEW k \in Keys, NEW x \in Stored \cup {Empty}
    PROVE  [store EXCEPT ![s][k] = x] \in [Servers -> [Keys -> Stored \cup {Empty}]]
BY DEF TrafficOK

\* A call on the result of newClient.
LEMMA UseType ==
    ASSUME RedisInv, NEW c \in Callers, Use(c)
    PROVE  RedisInv'
<1>1. Call(c)
  BY DEF Use, RateLimiterOfClient, RateLimiter, ClearCache, Get, Del, Set, SetNX
<1>2. /\ handle[c].client \in Servers /\ handle[c].limiter \in Servers
      /\ config[c] \in Servers /\ limiter \in Servers /\ latest \in Servers
  BY <1>1, HandleReady DEF Call
<1>3. TrafficOK
  BY DEF RedisInv, TypeOK, TrafficOK
<1>4. calls' \in [Callers -> 0 .. MaxCalls]
  <2>1. calls[c] + 1 \in 0 .. MaxCalls
    BY <1>1, <1>3, LimitAssumption DEF Call, TrafficOK
  <2> QED BY <1>1, <1>3, <2>1 DEF Call, TrafficOK
<1>5. SUFFICES TrafficOK'
  BY <1>1, TrafficType DEF Call
<1>6. CASE RateLimiterOfClient(c) \/ RateLimiter(c)
  <2>1. used' \in [Servers -> 0 .. RATE_LIMITER] /\ charged' \in [Servers -> 0 .. RATE_LIMITER]
    <3>1. PICK s \in Servers, u \in Servers : Allow(s) /\ Charge(u)
      BY <1>2, <1>6 DEF RateLimiterOfClient, RateLimiter, MethodLimiter
    <3> QED BY <1>3, <3>1, CountType DEF Allow, Charge, TrafficOK
  <2> QED
    BY <1>3, <1>4, <1>6, <2>1 DEF RateLimiterOfClient, RateLimiter, TrafficOK
<1>7. ASSUME NEW k \in Keys, NEW v \in Values, Set(c, k, v) \/ SetNX(c, k, v) PROVE TrafficOK'
  <2>1. store' = store \/ \E enc \in {"json", "raw"} : Put(c, k, enc, v)
    BY <1>7 DEF Set, SetNX
  <2>2. store' \in [Servers -> [Keys -> Stored \cup {Empty}]]
    <3>1. ASSUME NEW enc \in {"json", "raw"}, Put(c, k, enc, v)
          PROVE  store' \in [Servers -> [Keys -> Stored \cup {Empty}]]
      <4>1. [enc |-> enc, value |-> v] \in Stored \cup {Empty}
        BY DEF Stored
      <4> QED BY <1>2, <1>3, <3>1, <4>1, StoreType DEF Put
    <3> QED BY <1>3, <2>1, <3>1 DEF TrafficOK
  <2> QED BY <1>3, <1>4, <1>7, <2>2 DEF Set, SetNX, TrafficOK
<1>8. ASSUME NEW k \in Keys, Get(c, k) PROVE TrafficOK'
  <2>1. store[handle[c].client][k] \in Stored \cup {Empty}
    BY <1>2, <1>3 DEF TrafficOK
  <2>2. Decode(store[handle[c].client][k]) \in Values \cup {Absent, "error"}
    BY <2>1 DEF Decode, Stored, Empty
  <2> QED BY <1>3, <1>4, <1>8, <2>2 DEF Get, TrafficOK
<1>9. ASSUME NEW k \in Keys, Del(c, k) PROVE TrafficOK'
  <2>1. store' \in [Servers -> [Keys -> Stored \cup {Empty}]]
    BY <1>2, <1>3, <1>9, StoreType DEF Del, Remove
  <2> QED BY <1>3, <1>4, <1>9, <2>1 DEF Del, TrafficOK
<1>10. CASE ClearCache(c)
  BY <1>2, <1>3, <1>4, <1>10 DEF ClearCache, TrafficOK
<1> QED BY <1>6, <1>7, <1>8, <1>9, <1>10 DEF Use

LEMMA NextRedis == RedisInv /\ [Next]_vars => RedisInv'
<1> SUFFICES ASSUME RedisInv, [Next]_vars PROVE RedisInv'
  OBVIOUS
<1>1. TrafficOK
  BY DEF RedisInv, TypeOK, TrafficOK
<1>2. CASE Minute
  <2>1. TrafficOK'
    BY <1>1, <1>2, LimitAssumption DEF Minute, TrafficOK
  <2> QED BY <1>2, <2>1, TrafficType DEF Minute
<1>3. ASSUME NEW s \in Servers, NEW k \in Keys, Expire(s, k) PROVE RedisInv'
  <2>1. store' \in [Servers -> [Keys -> Stored \cup {Empty}]]
    BY <1>1, <1>3, StoreType DEF Expire, Remove
  <2>2. TrafficOK'
    BY <1>1, <1>3, <2>1 DEF Expire, TrafficOK
  <2> QED BY <1>3, <2>2, TrafficType DEF Expire
<1>4. CASE UNCHANGED vars
  BY <1>4 DEF vars, RedisInv, TypeOK, PackageSet, Inside
<1> QED
  BY <1>2, <1>3, <1>4, ConstructType, UseType DEF Next, Construct

LEMMA RedisInvariant == Spec => []RedisInv
<1>1. Init => RedisInv
  BY LimitAssumption DEF Init, RedisInv, TypeOK, PackageSet, Inside, Stored
<1> QED BY <1>1, NextRedis, PTL DEF Spec

\* Every variable keeps its type and no method of a client, nor the package's
\* RateLimiter after some newClient, meets a nil pointer, however the
\* constructions of different callers are interleaved (newClient).
THEOREM RedisTypeCorrect == Spec => []TypeOK
BY RedisInvariant, PTL DEF RedisInv

-----------------------------------------------------------------------------
(* Constructors that overlap                                               *)

\* What c finds in the package variables, and builds from them, was put there
\* by a constructor that c met.
MetOK(c) ==
    /\ pc[c] \in {"start", "refused"} => met[c] = {}
    /\ Inside(c) \/ pc[c] = "ready" => c \in met[c]
    /\ Inside(c) => client \in ServersMet(c)
    /\ pc[c] \in {"limited", "read"} => limiter \in ServersMet(c)
    /\ pc[c] \in {"read", "ready"} => handle[c].client \in ServersMet(c)
    /\ pc[c] = "ready" => handle[c].limiter \in ServersMet(c)

MetInv == /\ \A c \in Callers : MetOK(c)
          /\ NoOverlap => limiter = latest /\ used = charged

\* A constructor's step leaves the others what they met, or adds to it.
LEMMA ConstructMet ==
    ASSUME RedisInv, MetInv, NEW c \in Callers, Construct(c)
    PROVE  MetInv'
<1>1. config' = config /\ UNCHANGED traffic
  BY DEF Construct, RefuseConfig, OpenClient, OpenLimiter, ReadClient, ReturnClient
<1>2. /\ pc \in [Callers -> {"start", "opened", "limited", "read", "ready", "refused"}]
      /\ met \in [Callers -> SUBSET Callers] /\ MetOK(c)
      /\ handle \in [Callers -> [client : Servers \cup {NoServer}, limiter : Servers \cup {NoServer}]]
  BY DEF RedisInv, TypeOK, MetInv
<1>3. CASE RefuseConfig(c)
  <2>1. UNCHANGED <<client, limiter, handle, met, latest>> /\ pc' = [pc EXCEPT ![c] = "refused"]
    BY <1>3 DEF RefuseConfig
  <2>2. ASSUME NEW d \in Callers PROVE MetOK(d)'
    <3>1. MetOK(d) /\ ServersMet(d)' = ServersMet(d)
      BY <1>1, <2>1 DEF MetInv, ServersMet
    <3>2. pc[c] = "start" /\ pc'[d] = IF d = c THEN "refused" ELSE pc[d]
      BY <1>2, <1>3, <2>1 DEF RefuseConfig
    <3> QED BY <2>1, <3>1, <3>2 DEF MetOK, Inside
  <2> QED BY <1>1, <2>1, <2>2 DEF MetInv, NoOverlap, traffic
<1>4. CASE OpenClient(c)
  <2>1. /\ client' = config[c] /\ pc' = [pc EXCEPT ![c] = "opened"] /\ UNCHANGED <<limiter, handle, latest>>
        /\ pc[c] = "start"
    BY <1>4 DEF OpenClient
  <2>2. \A d \in Callers : met'[d] = IF d = c THEN {c} \cup {e \in Callers : Inside(e)}
                                     ELSE IF Inside(d) THEN met[d] \cup {c} ELSE met[d]
    BY <1>4 DEF OpenClient
  <2>3. MetOK(c)'
    <3>1. c \in met'[c] /\ pc'[c] = "opened"
      BY <1>2, <2>1, <2>2
    <3>2. config[c] \in ServersMet(c)'
      BY <1>1, <3>1 DEF ServersMet
    <3> QED BY <2>1, <3>1, <3>2 DEF MetOK, Inside
  <2>4. ASSUME NEW d \in Callers, d # c PROVE MetOK(d)'
    <3>1. met[d] \subseteq met'[d] /\ (Inside(d) => c \in met'[d]) /\ pc'[d] = pc[d]
      BY <1>2, <2>1, <2>2, <2>4
    <3>2. ServersMet(d) \subseteq ServersMet(d)' /\ (Inside(d) => config[c] \in ServersMet(d)')
      BY <1>1, <3>1 DEF ServersMet
    <3>3. MetOK(d) /\ (pc[d] \in {"start", "refused"} => met'[d] = met[d])
      BY <2>2, <2>4 DEF MetInv, Inside
    <3> QED BY <2>1, <3>1, <3>2, <3>3 DEF MetOK, Inside
  <2>5. NoOverlap' => NoOverlap
    BY <1>2, <2>1, <2>2 DEF NoOverlap, MetOK
  <2> QED BY <1>1, <2>1, <2>3, <2>4, <2>5 DEF MetInv, traffic
<1>5. CASE OpenLimiter(c)
  <2>1. /\ limiter' = client /\ latest' = config[c] /\ pc' = [pc EXCEPT ![c] = "limited"]
        /\ pc[c] = "opened" /\ UNCHANGED <<client, handle, met>>
    BY <1>5 DEF OpenLimiter, NewLimiter
  <2>2. \A d \in Callers : ServersMet(d)' = ServersMet(d)
    BY <1>1, <2>1 DEF ServersMet
  <2>3. ASSUME NEW d \in Callers PROVE MetOK(d)'
    BY <1>2, <2>1, <2>2 DEF MetInv, MetOK, Inside
  <2>4. ASSUME NoOverlap' PROVE limiter' = latest' /\ used' = charged'
    <3>1. NoOverlap /\ client \in ServersMet(c)
      BY <1>2, <2>1, <2>4 DEF NoOverlap, MetOK, Inside
    <3>2. client = config[c]
      BY <3>1 DEF NoOverlap, ServersMet
    <3> QED BY <1>1, <2>1, <3>1, <3>2 DEF MetInv, traffic
  <2> QED BY <2>3, <2>4 DEF MetInv
<1>6. CASE ReadClient(c) \/ ReturnClient(c)
  <2>1. UNCHANGED <<client, limiter, latest, met>> /\ \A d \in Callers : ServersMet(d)' = ServersMet(d)
    BY <1>1, <1>6 DEF ReadClient, ReturnClient, ServersMet
  <2>2. \A d \in Callers \ {c} : pc'[d] = pc[d] /\ handle'[d] = handle[d]
    BY <1>2, <1>6 DEF ReadClient, ReturnClient
  <2>3. ASSUME NEW d \in Callers, d # c PROVE MetOK(d)'
    BY <2>1, <2>2, <2>3 DEF MetInv, MetOK, Inside
  <2>4. CASE ReadClient(c)
    <3>1. pc[c] = "limited" /\ pc'[c] = "read" /\ handle'[c].client = client
      BY <1>2, <2>4 DEF ReadClient
    <3> QED BY <1>1, <1>2, <2>1, <2>3, <3>1 DEF MetInv, MetOK, Inside, NoOverlap, traffic
  <2>5. CASE ReturnClient(c)
    <3>1. /\ pc[c] = "read" /\ pc'[c] = "ready" /\ handle'[c].limiter = limiter
          /\ handle'[c].client = handle[c].client
      BY <1>2, <2>5 DEF ReturnClient
    <3> QED BY <1>1, <1>2, <2>1, <2>3, <3>1 DEF MetInv, MetOK, Inside, NoOverlap, traffic
  <2> QED BY <1>6, <2>4, <2>5
<1> QED BY <1>3, <1>4, <1>5, <1>6 DEF Construct

\* A call is counted at the server it is made for, when nobody met anybody.
LEMMA UseMet ==
    ASSUME MetInv, NEW c \in Callers, Use(c)
    PROVE  MetInv'
<1>1. Call(c)
  BY DEF Use, RateLimiterOfClient, RateLimiter, ClearCache, Get, Del, Set, SetNX
<1>2. UNCHANGED <<client, limiter, pc, handle, met, latest, config>> /\ pc[c] = "ready"
  BY <1>1 DEF Call, construction
<1>3. ASSUME NEW d \in Callers PROVE MetOK(d)'
  BY <1>2 DEF MetInv, MetOK, ServersMet, Inside
<1>4. ASSUME NoOverlap' PROVE limiter' = latest' /\ used' = charged'
  <2>1. NoOverlap /\ limiter = latest /\ used = charged
    BY <1>2, <1>4 DEF NoOverlap, MetInv
  <2>2. CASE RateLimiterOfClient(c)
    <3>1. handle[c].limiter \in ServersMet(c)
      BY <1>2 DEF MetInv, MetOK
    <3>2. handle[c].limiter = config[c]
      BY <2>1, <3>1 DEF NoOverlap, ServersMet
    <3>3. Allow(config[c]) /\ Charge(config[c])
      BY <2>2, <3>2 DEF RateLimiterOfClient, MethodLimiter
    <3> QED BY <1>2, <2>1, <3>3 DEF Allow, Charge
  <2>3. CASE RateLimiter(c)
    BY <1>2, <2>1, <2>3 DEF RateLimiter, Allow, Charge
  <2>4. CASE UNCHANGED <<used, charged>>
    BY <1>2, <2>1, <2>4
  <2> QED
    BY <2>2, <2>3, <2>4 DEF Use, ClearCache, Get, Del, Set, SetNX
<1> QED BY <1>3, <1>4 DEF MetInv

LEMMA MetInvariant == Spec => []MetInv
<1>1. Init => MetInv
  BY DEF Init, MetInv, MetOK, Inside, NoOverlap
<1>2. ASSUME RedisInv, MetInv, [Next]_vars PROVE MetInv'
  <2>1. CASE Minute \/ \E s \in Servers, k \in Keys : Expire(s, k)
    BY <1>2, <2>1 DEF Minute, Expire, construction, MetInv, MetOK, ServersMet, Inside, NoOverlap
  <2>2. CASE UNCHANGED vars
    BY <1>2, <2>2 DEF vars, MetInv, MetOK, ServersMet, Inside, NoOverlap
  <2> QED
    BY <1>2, <2>1, <2>2, ConstructMet, UseMet DEF Next, Construct
<1>3. RedisInv /\ MetInv /\ [Next]_vars => MetInv'
  BY <1>2
<1> QED BY <1>1, <1>3, RedisInvariant, PTL DEF Spec

\* However many constructors run at once and however many came before, a
\* client and its limiter are of the caller's own server or of that of a
\* constructor that overlapped its own (newClient's package variables).
THEOREM ClientOfServerMet == Spec => []OwnUnlessOverlapping
<1>1. MetInv => OwnUnlessOverlapping
  BY DEF MetInv, MetOK, OwnUnlessOverlapping
<1> QED BY <1>1, MetInvariant, PTL

\* Until two constructors overlap, each request is counted at the server it is
\* meant for: by the method at its client's, by the package's RateLimiter at
\* the latest client's.
THEOREM RequestsCountedRight == Spec => []LimitedAtRightServer
<1>1. MetInv => LimitedAtRightServer
  BY DEF MetInv, LimitedAtRightServer
<1> QED BY <1>1, MetInvariant, PTL

-----------------------------------------------------------------------------
(* NsqConsumer                                                             *)

USE MessagesAssumption, BoundsAssumption

Deliveries == [message : Messages, attempt : Nat \ {0}]

\* A message that is still to be published is nowhere else, and a delivery
\* bears the number of an attempt that was made.
Bookkeeping ==
    /\ unsent \cap (channel \cup inFlight \cup finished) = {}
    /\ \A i \in DOMAIN buffered : buffered[i].attempt <= attempts[buffered[i].message]

NsqInv == NsqTypeOK /\ Bookkeeping /\ AtLeastOnce /\ InFlightIsHere

LEMMA NsqInitInvariant == NsqInit => NsqInv
<1> SUFFICES ASSUME NsqInit PROVE NsqInv
  OBVIOUS
<1>1. buffered = <<>> /\ DOMAIN buffered = {} /\ buffered \in Seq(Deliveries)
  BY EmptySeq DEF NsqInit
<1> QED BY <1>1 DEF NsqInit, NsqInv, NsqTypeOK, Bookkeeping, AtLeastOnce, InFlightIsHere, Deliveries

\* Publish tells its caller nil only for a message nsqd has stored.
LEMMA PublishNsq ==
    ASSUME NsqInv, NEW m \in Messages, Publish(m)
    PROVE  NsqInv'
<1>1. m \in unsent /\ unsent' = unsent \ {m}
  BY DEF Publish
<1>2. UNCHANGED <<inFlight, buffered, finished, consumer, handling, attempts, returned, succeeded,
                  faults>>
  BY DEF Publish
<1>3. /\ channel' \in {channel, channel \cup {m}} /\ accepted' \in {accepted, accepted \cup {m}}
      /\ accepted' = accepted \/ channel' = channel \cup {m}
  <2>1. PICK o \in {<<TRUE, "nil">>, <<TRUE, "lost">>, <<FALSE, "refused">>} :
            /\ channel' = IF o[1] THEN channel \cup {m} ELSE channel
            /\ accepted' = IF o[2] = "nil" THEN accepted \cup {m} ELSE accepted
    BY DEF Publish, PublishReturns
  <2>2. CASE o = <<TRUE, "nil">>
    BY <2>1, <2>2
  <2>3. CASE o = <<TRUE, "lost">>
    BY <2>1, <2>3
  <2>4. CASE o = <<FALSE, "refused">>
    BY <2>1, <2>4
  <2> QED BY <2>1, <2>2, <2>3, <2>4
<1>4. NsqTypeOK'
  BY <1>1, <1>2, <1>3 DEF NsqInv, NsqTypeOK, Bookkeeping
<1>5. Bookkeeping'
  BY <1>1, <1>2, <1>3 DEF NsqInv, Bookkeeping
<1>6. AtLeastOnce'
  BY <1>2, <1>3 DEF NsqInv, AtLeastOnce, Exhausted
<1>7. InFlightIsHere'
  BY <1>2 DEF NsqInv, InFlightIsHere
<1> QED BY <1>4, <1>5, <1>6, <1>7 DEF NsqInv

LEMMA RegisterNsq ==
    ASSUME NsqInv, RegisterConsumer \/ RegisterFails
    PROVE  NsqInv'
<1>1. UNCHANGED <<unsent, accepted, channel, inFlight, buffered, finished, handling, attempts,
                  returned, succeeded>>
  BY DEF RegisterConsumer, RegisterFails
<1>2. consumer' \in {"none", "connected"} /\ faults' \in 0 .. MaxFaults
  BY DEF RegisterConsumer, RegisterFails, Connect, Fault, NsqInv, NsqTypeOK
<1> QED BY <1>1, <1>2 DEF NsqInv, NsqTypeOK, Bookkeeping, AtLeastOnce, InFlightIsHere, Exhausted

\* A delivery moves a message, and puts it last in the buffer.
LEMMA DeliverNsq ==
    ASSUME NsqInv, NEW m \in Messages, Deliver(m)
    PROVE  NsqInv'
<1> DEFINE d == [message |-> m, attempt |-> attempts[m] + 1]
<1>1. UNCHANGED <<unsent, accepted, finished, consumer, handling, returned, succeeded, faults>>
  BY DEF Deliver
<1>2. /\ m \in channel /\ channel' = channel \ {m} /\ inFlight' = inFlight \cup {m}
      /\ attempts' = [attempts EXCEPT ![m] = @ + 1] /\ buffered' = Append(buffered, d)
  BY DEF Deliver
<1>3. /\ attempts \in [Messages -> Nat] /\ attempts' \in [Messages -> Nat]
      /\ attempts'[m] = attempts[m] + 1 /\ \A n \in Messages : attempts[n] <= attempts'[n]
  BY <1>2 DEF NsqInv, NsqTypeOK
<1>4. buffered \in Seq(Deliveries) /\ d \in Deliveries
  BY <1>3 DEF NsqInv, NsqTypeOK, Deliveries
<1>5. d.message = m /\ d.attempt = attempts[m] + 1
  OBVIOUS
<1> HIDE DEF d
<1>6. /\ buffered' \in Seq(Deliveries)
      /\ Len(buffered') = Len(buffered) + 1 /\ buffered'[Len(buffered) + 1] = d
      /\ \A i \in 1 .. Len(buffered) : buffered'[i] = buffered[i]
  BY <1>2, <1>4, AppendProperties
<1>7. Len(buffered) \in Nat /\ DOMAIN buffered = 1 .. Len(buffered) /\ DOMAIN buffered' = 1 .. Len(buffered')
  BY <1>4, <1>6, LenProperties
<1>8. NsqTypeOK'
  BY <1>1, <1>2, <1>3, <1>6 DEF NsqInv, NsqTypeOK, Deliveries
<1>9. Bookkeeping'
  <2>1. ASSUME NEW i \in DOMAIN buffered' PROVE buffered'[i].attempt <= attempts'[buffered'[i].message]
    <3>1. CASE i \in 1 .. Len(buffered)
      <4>1. /\ buffered'[i] = buffered[i] /\ buffered[i] \in Deliveries
            /\ buffered[i].attempt <= attempts[buffered[i].message]
        BY <1>4, <1>6, <1>7, <3>1, ElementOfSeq DEF NsqInv, Bookkeeping
      <4>2. buffered[i].message \in Messages /\ buffered[i].attempt \in Nat
        BY <4>1 DEF Deliveries
      <4>3. /\ attempts[buffered[i].message] \in Nat /\ attempts'[buffered[i].message] \in Nat
            /\ attempts[buffered[i].message] <= attempts'[buffered[i].message]
        BY <1>3, <4>2
      <4> QED BY <4>1, <4>2, <4>3
    <3>2. CASE i = Len(buffered) + 1
      BY <1>3, <1>5, <1>6, <3>2
    <3> QED BY <1>6, <1>7, <2>1, <3>1, <3>2
  <2> QED BY <1>1, <1>2, <2>1 DEF NsqInv, Bookkeeping
<1>10. AtLeastOnce'
  <2>1. ASSUME NEW n \in accepted PROVE Exhausted(n) => Exhausted(n)'
    BY <1>3, <2>1 DEF Exhausted, NsqInv, NsqTypeOK
  <2> QED BY <1>1, <1>2, <2>1 DEF NsqInv, AtLeastOnce
<1>11. InFlightIsHere'
  <2>1. ASSUME NEW n \in inFlight' PROVE \/ \E i \in DOMAIN buffered' : buffered'[i].message = n
                                         \/ \E w \in Workers : handling'[w] = n
    <3>1. CASE n = m
      <4>1. Len(buffered) + 1 \in DOMAIN buffered'
        BY <1>6, <1>7
      <4> QED BY <1>5, <1>6, <3>1, <4>1
    <3>2. CASE n \in inFlight
      <4>1. \A i \in DOMAIN buffered : i \in DOMAIN buffered' /\ buffered'[i] = buffered[i]
        BY <1>6, <1>7
      <4> QED BY <1>1, <3>2, <4>1 DEF NsqInv, InFlightIsHere
    <3> QED BY <1>2, <2>1, <3>1, <3>2
  <2> QED BY <2>1 DEF InFlightIsHere
<1> QED BY <1>8, <1>9, <1>10, <1>11 DEF NsqInv

\* Taking the oldest delivery leaves the others in the buffer.
LEMMA TakeOldest ==
    ASSUME NsqInv, NEW w \in Workers, Take(w)
    PROVE  /\ Head(buffered) \in Deliveries /\ Head(buffered).message \in Messages
           /\ Head(buffered).attempt <= attempts[Head(buffered).message]
           /\ buffered' \in Seq(Deliveries)
           /\ \A i \in DOMAIN buffered' : /\ i + 1 \in DOMAIN buffered
                                          /\ buffered'[i] = buffered[i + 1]
           /\ \A i \in DOMAIN buffered :
                 \/ buffered[i] = Head(buffered)
                 \/ \E j \in DOMAIN buffered' : buffered'[j] = buffered[i]
<1>1. buffered \in Seq(Deliveries) /\ buffered # <<>> /\ buffered' = Tail(buffered)
  BY DEF Take, NsqInv, NsqTypeOK, Deliveries
<1>2. /\ Head(buffered) \in Deliveries /\ Tail(buffered) \in Seq(Deliveries)
      /\ Len(Tail(buffered)) = Len(buffered) - 1 /\ Len(buffered) \in Nat \ {0}
      /\ \A i \in 1 .. Len(Tail(buffered)) : Tail(buffered)[i] = buffered[i + 1]
      /\ Head(buffered) = buffered[1]
  BY <1>1, HeadTailProperties, EmptySeq, LenProperties
<1>3. DOMAIN buffered = 1 .. Len(buffered) /\ DOMAIN buffered' = 1 .. Len(buffered')
  BY <1>1, <1>2, LenProperties
<1>4. Head(buffered).attempt <= attempts[Head(buffered).message]
  BY <1>2, <1>3 DEF NsqInv, Bookkeeping
<1>5. \A i \in DOMAIN buffered' : i + 1 \in DOMAIN buffered /\ buffered'[i] = buffered[i + 1]
  BY <1>1, <1>2, <1>3
<1>6. ASSUME NEW i \in DOMAIN buffered, i # 1
      PROVE  \E j \in DOMAIN buffered' : buffered'[j] = buffered[i]
  <2>1. i - 1 \in DOMAIN buffered' /\ (i - 1) + 1 = i
    BY <1>1, <1>2, <1>3, <1>6
  <2> QED BY <1>5, <2>1
<1> QED BY <1>1, <1>2, <1>4, <1>5, <1>6 DEF Deliveries

\* A worker takes the oldest delivery into its handler, or, when it bears more
\* than the last attempt's number, finishes its message unseen.
LEMMA TakeNsq ==
    ASSUME NsqInv, NEW w \in Workers, StartHandler(w) \/ GiveUp(w)
    PROVE  NsqInv'
<1>1. PICK h : h = Head(buffered).message
  OBVIOUS
<1>2. Take(w) /\ handling[w] = NoMessage
  BY DEF StartHandler, GiveUp, Take
<1>3. UNCHANGED <<unsent, accepted, channel, consumer, attempts, returned, succeeded, faults>>
  BY <1>2 DEF Take
<1>4. /\ h \in Messages /\ buffered' \in Seq(Deliveries)
      /\ Bookkeeping => \A i \in DOMAIN buffered' : buffered'[i].attempt <= attempts'[buffered'[i].message]
      /\ \A i \in DOMAIN buffered :
            buffered[i].message = h \/ \E j \in DOMAIN buffered' : buffered'[j] = buffered[i]
  BY <1>1, <1>2, <1>3, TakeOldest DEF Bookkeeping
<1>5. CASE StartHandler(w)
  <2>1. handling' = [handling EXCEPT ![w] = h] /\ UNCHANGED <<inFlight, finished>>
    BY <1>1, <1>5 DEF StartHandler
  <2>2. NsqTypeOK' /\ Bookkeeping' /\ AtLeastOnce'
    BY <1>3, <1>4, <2>1 DEF NsqInv, NsqTypeOK, Bookkeeping, AtLeastOnce, Exhausted, Deliveries
  <2>3. /\ handling'[w] = h /\ \A v \in Workers : handling[v] # NoMessage => handling'[v] = handling[v]
    BY <1>2, <2>1 DEF NsqInv, NsqTypeOK
  <2>4. InFlightIsHere'
    <3>1. ASSUME NEW m \in inFlight PROVE \/ \E i \in DOMAIN buffered' : buffered'[i].message = m
                                          \/ \E v \in Workers : handling'[v] = m
      <4>1. m # NoMessage
        BY <3>1 DEF NsqInv, NsqTypeOK
      <4>2. CASE \E v \in Workers : handling[v] = m
        BY <2>3, <4>1, <4>2
      <4>3. CASE \E i \in DOMAIN buffered : buffered[i].message = m
        BY <1>4, <2>3, <4>3
      <4> QED BY <3>1, <4>2, <4>3 DEF NsqInv, InFlightIsHere
    <3> QED BY <2>1, <3>1 DEF InFlightIsHere
  <2> QED BY <2>2, <2>4 DEF NsqInv
<1>6. CASE GiveUp(w)
  <2>1. /\ handling' = handling /\ inFlight' = inFlight \ {h}
        /\ finished' = IF h \in inFlight THEN finished \cup {h} ELSE finished
    BY <1>1, <1>6 DEF GiveUp, Finish
  <2>2. Exhausted(h)
    <3>1. /\ Head(buffered).attempt > MaxAttempts /\ Head(buffered).attempt \in Nat
          /\ Head(buffered).attempt <= attempts[h] /\ attempts[h] \in Nat
      BY <1>1, <1>2, <1>4, <1>6, TakeOldest DEF GiveUp, Deliveries, NsqInv, NsqTypeOK
    <3> QED BY <3>1 DEF Exhausted
  <2>3. NsqTypeOK' /\ Bookkeeping'
    BY <1>3, <1>4, <2>1 DEF NsqInv, NsqTypeOK, Bookkeeping, Deliveries
  <2>4. AtLeastOnce'
    BY <1>3, <2>1, <2>2 DEF NsqInv, AtLeastOnce, Exhausted
  <2>5. InFlightIsHere'
    BY <1>4, <2>1 DEF NsqInv, InFlightIsHere
  <2> QED BY <2>3, <2>4, <2>5 DEF NsqInv
<1> QED BY <1>5, <1>6

\* A handler's return finishes at most the message it was at; a late one, of a
\* message that timed out and may be with another worker, is no different.
LEMMA HandlerNsq ==
    ASSUME NsqInv, NEW w \in Workers, NEW ok \in BOOLEAN, HandlerReturns(w, ok)
    PROVE  NsqInv'
<1> DEFINE m == handling[w]
<1>1. UNCHANGED <<unsent, accepted, channel, buffered, consumer, attempts, faults>>
  BY DEF HandlerReturns
<1>2. m \in Messages /\ m # NoMessage
  BY DEF HandlerReturns, NsqInv, NsqTypeOK
<1>3. /\ returned' = returned \cup {m} /\ succeeded' \in {succeeded, succeeded \cup {m}}
      /\ handling' = [handling EXCEPT ![w] = NoMessage]
  BY DEF HandlerReturns
<1>4. /\ inFlight' = inFlight \ {m}
      /\ finished' = IF m \in inFlight THEN finished \cup {m} ELSE finished
  BY DEF HandlerReturns, Finish
<1>5. InFlightIsHere'
  BY <1>1, <1>3, <1>4 DEF NsqInv, NsqTypeOK, InFlightIsHere
<1> HIDE DEF m
<1>6. NsqTypeOK'
  BY <1>1, <1>2, <1>3, <1>4 DEF NsqInv, NsqTypeOK
<1>7. Bookkeeping'
  BY <1>1, <1>4 DEF NsqInv, Bookkeeping
<1>8. AtLeastOnce'
  BY <1>1, <1>3, <1>4 DEF NsqInv, AtLeastOnce, Exhausted
<1> QED BY <1>5, <1>6, <1>7, <1>8 DEF NsqInv

\* What was in flight waits again: one message, or all of a dead process.
LEMMA TimeoutNsq ==
    ASSUME NsqInv, NEW m \in Messages, MessageTimeout(m)
    PROVE  NsqInv'
<1>1. UNCHANGED <<unsent, accepted, buffered, finished, consumer, handling, attempts, returned,
                  succeeded>>
  BY DEF MessageTimeout
<1>2. m \in inFlight /\ inFlight' = inFlight \ {m} /\ channel' = channel \cup {m}
  BY DEF MessageTimeout
<1>3. faults' \in 0 .. MaxFaults
  BY DEF MessageTimeout, Fault, NsqInv, NsqTypeOK
<1>4. NsqTypeOK' /\ Bookkeeping'
  BY <1>1, <1>2, <1>3 DEF NsqInv, NsqTypeOK, Bookkeeping
<1>5. AtLeastOnce' /\ InFlightIsHere'
  BY <1>1, <1>2 DEF NsqInv, AtLeastOnce, InFlightIsHere, Exhausted
<1> QED BY <1>4, <1>5 DEF NsqInv

LEMMA CrashNsq ==
    ASSUME NsqInv, Crash
    PROVE  NsqInv'
<1>1. UNCHANGED <<unsent, accepted, finished, attempts, returned, succeeded>>
  BY DEF Crash
<1>2. /\ consumer' = "none" /\ channel' = channel \cup inFlight /\ inFlight' = {}
      /\ handling' = [w \in Workers |-> NoMessage] /\ buffered' = <<>>
  BY DEF Crash
<1>3. faults' \in 0 .. MaxFaults
  BY DEF Crash, Fault, NsqInv, NsqTypeOK
<1>4. buffered' \in Seq(Deliveries) /\ DOMAIN buffered' = {}
  BY <1>2, EmptySeq
<1>5. NsqTypeOK' /\ Bookkeeping'
  BY <1>1, <1>2, <1>3, <1>4 DEF NsqInv, NsqTypeOK, Bookkeeping, Deliveries
<1>6. AtLeastOnce' /\ InFlightIsHere'
  BY <1>1, <1>2 DEF NsqInv, AtLeastOnce, InFlightIsHere, Exhausted
<1> QED BY <1>5, <1>6 DEF NsqInv

LEMMA NsqNextInvariant == NsqInv /\ [NsqNext]_nsqVars => NsqInv'
<1> SUFFICES ASSUME NsqInv, [NsqNext]_nsqVars PROVE NsqInv'
  OBVIOUS
<1>1. CASE NsqNext
  BY <1>1, PublishNsq, RegisterNsq, DeliverNsq, TakeNsq, HandlerNsq, TimeoutNsq, CrashNsq DEF NsqNext
<1>2. CASE UNCHANGED nsqVars
  BY <1>2 DEF nsqVars, NsqInv, NsqTypeOK, Bookkeeping, AtLeastOnce, InFlightIsHere, Exhausted
<1> QED BY <1>1, <1>2

-----------------------------------------------------------------------------
\* Every variable of the publisher, nsqd and the handlers keeps its type, and
\* a message is in one place at nsqd.
THEOREM NsqTypeCorrect == NsqSpec => []NsqTypeOK
BY NsqInitInvariant, NsqNextInvariant, PTL DEF NsqSpec, NsqInv

\* What Publish accepted is not lost on its way to a handler, whatever waits
\* too long, times out, crashes or is finished late.
THEOREM DeliveredAtLeastOnce == NsqSpec => []AtLeastOnce
BY NsqInitInvariant, NsqNextInvariant, PTL DEF NsqSpec, NsqInv

\* RegisterConsumer's handler wrapper answers every delivery: whatever nsqd
\* has in flight waits for a worker or has a handler at it.
THEOREM DeliveriesInHand == NsqSpec => []InFlightIsHere
BY NsqInitInvariant, NsqNextInvariant, PTL DEF NsqSpec, NsqInv
=============================================================================
