--------------------------- MODULE AssessmentCache ---------------------------
(***************************************************************************)
(* Assessing a point and the response cache around it: AssessmentService   *)
(* (apps/api/app/api/services/assessment.py), the memory and Redis cache   *)
(* of responses (public_response_cache.py) and the fail-open Redis client  *)
(* with its cooldown (redis_support.py).                                   *)
(*                                                                         *)
(* Servers answer queries concurrently, each with a memory cache of its    *)
(* own and all of them with the one in Redis.  A query takes its instant   *)
(* at its start, and the answer it computes is as of that instant, however *)
(* long the reads take.  An answer is the instant it is as of and whether  *)
(* every read behind it was answered.                                      *)
(***************************************************************************)
EXTENDS Integers, Sequences, FiniteSets, SequencesExt

CONSTANTS Servers, Places, Queries, Ttl, Cooldown, MemoryEntries, MaxWork,
          LastMoment

ASSUME CacheAssumption ==
    /\ Queries \in Nat /\ Ttl \in Nat \ {0} /\ Cooldown \in Nat
    /\ MemoryEntries \in Nat \ {0} /\ MaxWork \in Nat /\ LastMoment \in Nat

VARIABLES
    moment,     \* the time
    memory,     \* memory[s]: s's entries, in the order their keys came
    redis,      \* redis[p]: the entry for p, NoEntry if there is none
    redisUp,    \* whether Redis answers
    retryAt,    \* retryAt[s]: s leaves Redis alone until then
    query       \* query[q]: a request being answered, or its answer

cacheVars == <<moment, memory, redis, redisUp, retryAt, query>>

NoEntry == [asOf |-> -1, until |-> -1]
NotBegun == [state |-> "idle", server |-> "none", place |-> "none",
             begun |-> 0, asOf |-> 0, complete |-> FALSE]

CacheInit ==
    /\ moment = 0
    /\ memory = [s \in Servers |-> <<>>]
    /\ redis = [p \in Places |-> NoEntry]
    /\ redisUp = TRUE
    /\ retryAt = [s \in Servers |-> 0]
    /\ query = [q \in 1 .. Queries |-> NotBegun]

(***************************************************************************)
(* The caches                                                              *)
(***************************************************************************)

\* client(): no client while the cooldown lasts.
MayTry(s) == moment >= retryAt[s]

\* A call to Redis that fails: the caller goes on without it.
MarkUnavailable(s) == retryAt' = [retryAt EXCEPT ![s] = moment + Cooldown]

\* Mutant: the entry is stored without its expiry.
InRedisForever(p) == redis[p] # NoEntry

InRedis(p) == redis[p] # NoEntry /\ moment < redis[p].until

IndexIn(s, p) == {i \in 1 .. Len(memory[s]) : memory[s][i].place = p}

\* The memory entry for p is used while it is younger than the TTL.
Young(entry, begun) == begun - entry.asOf < Ttl

\* A key that is in the dictionary keeps its place when it is set again; the
\* first one goes when there are too many.
Remembered(s, q) ==
    LET at == IndexIn(s, query[q].place)
        entry == [place |-> query[q].place, asOf |-> query[q].asOf]
        set == IF at = {} THEN Append(memory[s], entry)
               ELSE [memory[s] EXCEPT ![CHOOSE i \in at : TRUE] = entry]
    IN  IF Len(set) > MemoryEntries THEN Tail(set) ELSE set

(***************************************************************************)
(* A query                                                                 *)
(***************************************************************************)
Begin(q, s, p) ==
    /\ query[q].state = "idle"
    /\ \A r \in 1 .. Queries : r < q => query[r].state # "idle"
    /\ query' = [query EXCEPT ![q] = [NotBegun EXCEPT !.state = "looking",
                     !.server = s, !.place = p, !.begun = moment]]
    /\ UNCHANGED <<moment, memory, redis, redisUp, retryAt>>

Hit(q, entry) ==
    query' = [query EXCEPT ![q] =
                [NotBegun EXCEPT !.state = "hit", !.begun = query[q].begun,
                                 !.asOf = entry.asOf]]

\* cached_response from Redis.
HitRedis(q) ==
    /\ query[q].state = "looking"
    /\ MayTry(query[q].server) /\ redisUp
    /\ InRedis(query[q].place)
    /\ Hit(q, redis[query[q].place])
    /\ UNCHANGED <<moment, memory, redis, redisUp, retryAt>>

\* Redis has nothing, does not answer, or is not asked: the memory decides.
LookInMemory(q) ==
    LET s == query[q].server
        at == IndexIn(s, query[q].place)
        here == CHOOSE i \in at : TRUE
    IN  /\ query[q].state = "looking"
        /\ \/ MayTry(s) /\ redisUp /\ ~InRedis(query[q].place) /\ UNCHANGED retryAt
           \/ MayTry(s) /\ ~redisUp /\ MarkUnavailable(s)
           \/ ~MayTry(s) /\ UNCHANGED retryAt
        /\ IF at # {} /\ Young(memory[s][here], query[q].begun)
           THEN /\ Hit(q, memory[s][here])
                /\ UNCHANGED memory
           ELSE /\ query' = [query EXCEPT ![q].state = "loading"]
                /\ memory' = IF at = {} THEN memory
                             ELSE [memory EXCEPT ![s] = RemoveAt(@, here)]
        /\ UNCHANGED <<moment, redis, redisUp>>

\* The five reads, the scoring and the row for the record, which may fail
\* without a trace.  `complete` is whether all five were answered.
Compute(q, complete) ==
    /\ query[q].state = "loading"
    /\ query' = [query EXCEPT ![q].state = "storing",
                              ![q].asOf = query[q].begun,
                              ![q].complete = complete]
    /\ UNCHANGED <<moment, memory, redis, redisUp, retryAt>>

Cacheable(q) == query[q].complete

Answer(q) ==
    LET s == query[q].server
        p == query[q].place
        entry == [asOf |-> query[q].asOf, until |-> moment + Ttl]
    IN  /\ query[q].state = "storing"
        /\ query' = [query EXCEPT ![q] = [NotBegun EXCEPT !.state = "answered"]]
        /\ IF Cacheable(q)
           THEN /\ memory' = [memory EXCEPT ![s] = Remembered(s, q)]
                /\ \/ /\ MayTry(s) /\ redisUp
                      /\ redis' = [redis EXCEPT ![p] = entry]
                      /\ UNCHANGED retryAt
                   \/ /\ MayTry(s) /\ ~redisUp
                      /\ MarkUnavailable(s)
                      /\ UNCHANGED redis
                   \/ ~MayTry(s) /\ UNCHANGED retryAt /\ UNCHANGED redis
           ELSE UNCHANGED <<memory, redis, retryAt>>
        /\ UNCHANGED <<moment, redisUp>>

(***************************************************************************)
(* The environment                                                         *)
(***************************************************************************)
RedisGoes == /\ redisUp' = ~redisUp
             /\ UNCHANGED <<moment, memory, redis, retryAt, query>>

RedisForgets == /\ \E p \in Places : redis[p] # NoEntry
                /\ redis' = [p \in Places |-> NoEntry]
                /\ UNCHANGED <<moment, memory, redisUp, retryAt, query>>

\* A restarted server has an empty memory and no cooldown; its queries are lost.
ServerRestarts(s) ==
    /\ memory' = [memory EXCEPT ![s] = <<>>]
    /\ retryAt' = [retryAt EXCEPT ![s] = 0]
    /\ query' = [q \in 1 .. Queries |->
                   IF query[q].server = s /\ query[q].state # "hit"
                   THEN [NotBegun EXCEPT !.state = "answered"] ELSE query[q]]
    /\ UNCHANGED <<moment, redis, redisUp>>

\* No query is in hand for longer than MaxWork.
MomentPasses ==
    /\ moment < LastMoment
    /\ \A q \in 1 .. Queries :
          query[q].state \in {"looking", "loading", "storing"}
             => moment - query[q].begun < MaxWork
    /\ moment' = moment + 1
    /\ UNCHANGED <<memory, redis, redisUp, retryAt, query>>

CacheNext ==
    \/ \E q \in 1 .. Queries :
          \/ \E s \in Servers, p \in Places : Begin(q, s, p)
          \/ HitRedis(q) \/ LookInMemory(q) \/ Answer(q)
          \/ \E complete \in BOOLEAN : Compute(q, complete)
    \/ RedisGoes \/ RedisForgets \/ MomentPasses
    \/ \E s \in Servers : ServerRestarts(s)

CacheSpec == CacheInit /\ [][CacheNext]_cacheVars

(***************************************************************************)
(* Properties                                                              *)
(***************************************************************************)

\* What is given out of a cache is never older than the TTL and the time a
\* query may take, whichever cache it is out of, whatever Redis lost or
\* forgot, and however the same key was stored again.  (The memory counts from
\* the instant a query began, Redis from when its answer was stored.)
HitsAreYoung ==
    \A q \in 1 .. Queries :
        query[q].state = "hit" => query[q].begun - query[q].asOf < Ttl + MaxWork
==============================================================================
