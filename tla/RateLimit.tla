------------------------------ MODULE RateLimit ------------------------------
(***************************************************************************)
(* The sliding-window limiter in front of report intake and of the public  *)
(* endpoints (apps/api/app/domain/reports/abuse.py), for the requests of   *)
(* one client key.                                                         *)
(*                                                                         *)
(* A check reads its own process's clock, then prunes and counts the       *)
(* bucket: under a lock in the memory backend, in one script in Redis.     *)
(* Between the two a thread may wait, and the clocks of two replicas may   *)
(* differ, so the bucket meets stamps out of order.  MaxLag bounds the     *)
(* wait; Skew is what a replica's clock is ahead of the slowest one.  In   *)
(* the memory backend each replica keeps a bucket of its own; with Redis   *)
(* all of them use one.                                                    *)
(***************************************************************************)
EXTENDS Integers, FiniteSets

CONSTANTS Replicas, Requests, Quota, Span, Skew, MaxLag, LastInstant, Redis

ASSUME QuotaAssumption ==
    /\ Requests \in Nat
    /\ Quota \in Nat \ {0} /\ Span \in Nat \ {0}
    /\ MaxLag \in Nat /\ LastInstant \in Nat
    /\ Skew \in [Replicas -> Nat] /\ Redis \notin Replicas
    /\ \E s \in Replicas : \A r \in Replicas : Skew[r] <= Skew[s]

VARIABLES
    shared,     \* the configured backend is Redis
    instant,    \* real time
    bucket,     \* bucket[b]: the requests whose stamps b counts
    request,    \* request[q]: where request q is
    hint        \* hint[b]: the stamp from which a client b refused may come
                \*   back, NoHint once somebody was admitted after that

rateVars == <<shared, instant, bucket, request, hint>>

Asked == 1 .. Requests
Buckets == Replicas \union {Redis}
BucketOf(r) == IF shared THEN Redis ELSE r
NoHint == -1
MaxSkew == CHOOSE s \in {Skew[r] : r \in Replicas} :
              \A r \in Replicas : Skew[r] <= s

\* A request that is not being checked and is not counted; `at` is when a
\* request arrived and only the properties look at it, and `turn` its place
\* among those that were counted.
Closed(state) == [state |-> state, replica |-> Redis, stamp |-> 0, at |-> 0,
                  turn |-> 0]

Counted == {q \in Asked : request[q].turn > 0}

RateInit ==
    /\ shared \in BOOLEAN
    /\ instant = 0
    /\ bucket = [b \in Buckets |-> {}]
    /\ request = [q \in Asked |-> Closed("idle")]
    /\ hint = [b \in Buckets |-> NoHint]

(***************************************************************************)
(* One check.                                                              *)
(***************************************************************************)

\* A request reaches a replica, which reads its clock.
ReadClock(q, r) ==
    /\ request[q].state = "idle"
    /\ \A p \in Asked : p < q => request[p].state # "idle"
    /\ request' = [request EXCEPT ![q] =
                     [state |-> "timed", replica |-> r,
                      stamp |-> instant + Skew[r], at |-> instant, turn |-> 0]]
    /\ UNCHANGED <<shared, instant, bucket, hint>>

\* What a check at `stamp` keeps: Redis removes every member with an old score,
\* the memory backend pops the head of its queue while the head is old.
InWindow(counted, stamp) == {q \in counted : request[q].stamp > stamp - Span}

DropHead(counted, stamp) ==
    {q \in counted : \E p \in InWindow(counted, stamp) :
                        request[p].turn <= request[q].turn}

\* Mutant: a stamp as old as the window still counts.
PruneBefore(counted, stamp) ==
    {q \in counted : request[q].stamp >= stamp - Span}

Prune(counted, stamp) ==
    IF shared THEN InWindow(counted, stamp) ELSE DropHead(counted, stamp)

\* The request the wait is measured from: the lowest score, or the head.
Oldest(counted) ==
    CHOOSE q \in counted : \A p \in counted :
        IF shared THEN request[q].stamp <= request[p].stamp
                  ELSE request[q].turn <= request[p].turn

RetryAfter(counted, stamp) ==
    LET wait == Span - (stamp - request[Oldest(counted)].stamp)
    IN  IF wait < 1 THEN 1 ELSE wait

\* Mutant: one more than the quota is let in.
AdmittedOneMore(q) ==
    LET b == BucketOf(request[q].replica)
        kept == Prune(bucket[b], request[q].stamp)
    IN  /\ request[q].state = "timed"
        /\ Cardinality(kept) <= Quota
        /\ bucket' = [bucket EXCEPT ![b] = kept \union {q}]
        /\ hint' = [hint EXCEPT ![b] = NoHint]

Admitted(q) ==
    LET b == BucketOf(request[q].replica)
        kept == Prune(bucket[b], request[q].stamp)
    IN  /\ request[q].state = "timed"
        /\ Cardinality(kept) < Quota
        /\ bucket' = [bucket EXCEPT ![b] = kept \union {q}]
        /\ hint' = [hint EXCEPT ![b] = NoHint]

\* q is counted, and this is how its caller sees it.
TakePlace(q, state) ==
    request' = [request EXCEPT ![q].state = state,
                               ![q].turn = Cardinality(Counted) + 1]

Admit(q) ==
    /\ Admitted(q) /\ TakePlace(q, "admitted")
    /\ UNCHANGED <<shared, instant>>

\* The script ran but its answer did not arrive: the caller answers 503 and the
\* place in the window is taken all the same.
AnswerLost(q) ==
    /\ shared
    /\ Admitted(q) /\ TakePlace(q, "lost")
    /\ UNCHANGED <<shared, instant>>

\* Redis cannot be reached: 503, nothing counted.
Unreachable(q) ==
    /\ shared
    /\ request[q].state = "timed"
    /\ request' = [request EXCEPT ![q] = Closed("lost")]
    /\ UNCHANGED <<shared, instant, bucket, hint>>

Refuse(q) ==
    LET b == BucketOf(request[q].replica)
        stamp == request[q].stamp
        kept == Prune(bucket[b], stamp)
    IN  /\ request[q].state = "timed"
        /\ Cardinality(kept) >= Quota
        /\ bucket' = [bucket EXCEPT ![b] = kept]
        /\ hint' = [hint EXCEPT ![b] = stamp + RetryAfter(kept, stamp)]
        /\ request' = [request EXCEPT ![q] = Closed("refused")]
        /\ UNCHANGED <<shared, instant>>

\* Time passes, but never past the lag a check in hand is allowed.  The Redis
\* keys live for one second more than the window, so they hold every stamp
\* that still counts and need no action of their own.
TimePasses ==
    /\ instant < LastInstant
    /\ \A q \in Asked : request[q].state = "timed"
                          => instant - request[q].at < MaxLag
    /\ instant' = instant + 1
    /\ UNCHANGED <<shared, bucket, request, hint>>

RateNext ==
    \/ \E q \in Asked : \/ Admit(q) \/ Refuse(q)
                        \/ AnswerLost(q) \/ Unreachable(q)
                        \/ \E r \in Replicas : ReadClock(q, r)
    \/ TimePasses

RateSpec == RateInit /\ [][RateNext]_rateVars

(***************************************************************************)
(* Properties                                                              *)
(***************************************************************************)

AdmittedIn(b, from) ==
    {q \in Asked : /\ request[q].state = "admitted"
                   /\ BucketOf(request[q].replica) = b
                   /\ from <= request[q].at
                   /\ request[q].at < from + Span - MaxLag - MaxSkew}

\* The quota holds for the requests as they arrived, and not only for the
\* stamps a bucket happens to hold: whatever the skew between the replicas and
\* the wait between reading the clock and the count, no window of Span less
\* both sees more than Quota requests of one client admitted by one bucket.
QuotaKept ==
    \A b \in Buckets : \A from \in 0 .. LastInstant :
        Cardinality(AdmittedIn(b, from)) <= Quota

\* A Retry-After is a promise: a request whose stamp has reached the instant
\* the last refusal named is not refused again, unless somebody else was
\* admitted in between.
RetryHonoured ==
    [][\A q \in Asked :
         LET b == BucketOf(request[q].replica)
         IN  (request[q].state = "timed" /\ request'[q].state = "refused")
               => (hint[b] = NoHint \/ request[q].stamp < hint[b])]_rateVars
==============================================================================
