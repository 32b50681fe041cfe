----------------------------- MODULE RateLimiter -----------------------------
(***************************************************************************)
(* The rate limit of one client (rate_limit_requests in app/main.py).      *)
(* Processes share a counter per minute in Redis, and fall back to a       *)
(* sliding minute of their own when anything fails: Redis, or the handler, *)
(* which is called inside the same try block.                              *)
(*                                                                         *)
(* A process runs the middleware on its event loop: nothing else of it     *)
(* runs between reading the clock and being admitted, though other         *)
(* processes do and time passes.                                           *)
(***************************************************************************)
EXTENDS ClientRequests

CONSTANTS
    Arriving,  \* the sets of requests that arrive in a behaviour: a bound
    WithBody,  \* requests whose handler reads a body
    Limit,     \* request_rate_limit_per_minute
    Minute     \* in ticks of the clock

ASSUME RateLimiterAssumption ==
    /\ Arriving \subseteq SUBSET Requests /\ WithBody \subseteq Requests
    /\ Limit \in Nat /\ Minute \in Nat \ {0}

VARIABLES
    counts,   \* in Redis, per minute; dropped after two minutes, when nobody
              \* counts in it any more
    buckets,  \* per process, the stamps of requests it admitted by itself
    request

limiterVars == <<clock, counts, buckets, request>>

Minutes == 0..(MaxTime \div Minute)
Never == MaxTime + 1
Unstamped == MaxTime + 1

\* counted: Redis admitted it; admittedAt: when its process did;
\* runs: how often the handler was entered; failed: a run of it raised.
New == [stage |-> "new", now |-> Unstamped, counted |-> FALSE, admittedAt |-> Never,
        runs |-> 0, failed |-> FALSE, answer |-> "none"]

Absent == [New EXCEPT !.stage = "absent"]

LimiterTypeOK ==
    /\ clock \in 0..MaxTime
    /\ counts \in [Minutes -> 0..Cardinality(Requests)]
    /\ buckets \in [Processes -> Seq(0..MaxTime)]
    /\ request \in [Requests ->
            [stage : {"absent", "new", "counting", "handling", "answered"},
             now : 0..(MaxTime + 1), counted : BOOLEAN, admittedAt : 0..MaxTime \cup {Never},
             runs : 0..2, failed : BOOLEAN,
             answer : {"none", "429", "500", "unreadable", "returned"}]]

LimiterInit ==
    /\ clock = 0
    /\ counts = [m \in Minutes |-> 0]
    /\ buckets = [p \in Processes |-> <<>>]
    /\ \E arriving \in Arriving :
          request = [r \in Requests |-> IF r \in arriving THEN New ELSE Absent]

-----------------------------------------------------------------------------
(* Counts and stamps.                                                      *)

MinuteOf(now) == now \div Minute

Incr(m) == counts' = [counts EXCEPT ![m] = @ + 1]

\* Mutant: only stamps older than a minute are popped.
PoppedLate(bucket, now) ==
    LET kept == {i \in DOMAIN bucket : now <= bucket[i] + Minute}
    IN  IF kept = {} THEN <<>>
        ELSE SubSeq(bucket, CHOOSE i \in kept : \A j \in kept : i <= j, Len(bucket))

\* Stamps a minute old are popped from the left, up to the first younger one.
Popped(bucket, now) ==
    LET kept == {i \in DOMAIN bucket : now < bucket[i] + Minute}
    IN  IF kept = {} THEN <<>>
        ELSE SubSeq(bucket, CHOOSE i \in kept : \A j \in kept : i <= j, Len(bucket))

-----------------------------------------------------------------------------
(* Answers and admissions.                                                 *)

\* The event loop of its process is not inside the middleware.
LoopFree(r) ==
    \A q \in Requests : process[q] = process[r] => request[q].stage # "counting"

Answered(r, answer) ==
    [request[r] EXCEPT !.stage = "answered", !.answer = answer]

\* call_next once more: a body was read already, and cannot be again.
Entered(r, row) ==
    IF r \in WithBody /\ row.runs > 0
    THEN [row EXCEPT !.stage = "answered", !.answer = "unreadable"]
    ELSE [row EXCEPT !.stage = "handling", !.runs = @ + 1]

\* Mutant: the bucket holds when a stamp is due.
AdmitUntil(r, row) ==
    LET p      == process[r]
        bucket == Popped(buckets[p], row.now)
    IN  IF Len(bucket) >= Limit
        THEN /\ buckets' = [buckets EXCEPT ![p] = bucket]
             /\ request' = [request EXCEPT ![r] = [row EXCEPT !.stage = "answered", !.answer = "429"]]
        ELSE /\ buckets' = [buckets EXCEPT ![p] = Append(bucket, row.now + Minute)]
             /\ request' = [request EXCEPT ![r] = Entered(r, [row EXCEPT !.admittedAt = clock])]

\* By the process itself, with the stamp the request arrived with.
Admit(r, row) ==
    LET p      == process[r]
        bucket == Popped(buckets[p], row.now)
    IN  IF Len(bucket) >= Limit
        THEN /\ buckets' = [buckets EXCEPT ![p] = bucket]
             /\ request' = [request EXCEPT ![r] = [row EXCEPT !.stage = "answered", !.answer = "429"]]
        ELSE /\ buckets' = [buckets EXCEPT ![p] = Append(bucket, row.now)]
             /\ request' = [request EXCEPT ![r] = Entered(r, [row EXCEPT !.admittedAt = clock])]

Arrive(r) ==
    /\ request[r].stage = "new"
    /\ LoopFree(r)
    /\ request' = [request EXCEPT ![r].stage = "counting", ![r].now = clock]
    /\ UNCHANGED <<clock, counts, buckets>>

\* Mutant: the request over the limit is the first to be let in.
CountOneMore(r) ==
    LET m == MinuteOf(request[r].now)
    IN  /\ request[r].stage = "counting"
        /\ Incr(m)
        /\ request' = [request EXCEPT ![r] =
                IF counts[m] > Limit THEN Answered(r, "429")
                ELSE Entered(r, [request[r] EXCEPT !.counted = TRUE])]
        /\ UNCHANGED <<clock, buckets>>

Count(r) ==
    LET m == MinuteOf(request[r].now)
    IN  /\ request[r].stage = "counting"
        /\ Incr(m)
        /\ request' = [request EXCEPT ![r] =
                IF counts[m] + 1 > Limit THEN Answered(r, "429")
                ELSE Entered(r, [request[r] EXCEPT !.counted = TRUE])]
        /\ UNCHANGED <<clock, buckets>>

\* Redis cannot be reached, or its answer to INCR or to EXPIRE is lost.
CountFails(r) ==
    /\ request[r].stage = "counting"
    /\ UNCHANGED counts \/ Incr(MinuteOf(request[r].now))
    /\ Admit(r, request[r])
    /\ UNCHANGED clock

HandlerReturns(r) ==
    /\ request[r].stage = "handling"
    /\ LoopFree(r)
    /\ request' = [request EXCEPT ![r] = Answered(r, "returned")]
    /\ UNCHANGED <<clock, counts, buckets>>

\* Mutant: the handler of a request the process admitted is retried, too.
RetryAlways(r) ==
    /\ request[r].stage = "handling"
    /\ LoopFree(r)
    /\ Admit(r, [request[r] EXCEPT !.failed = TRUE])
    /\ UNCHANGED <<clock, counts>>

\* Inside the try block the exception looks like one of Redis.
HandlerRaises(r) ==
    LET row == [request[r] EXCEPT !.failed = TRUE]
    IN  /\ request[r].stage = "handling"
        /\ LoopFree(r)
        /\ IF row.counted /\ row.admittedAt = Never
           THEN Admit(r, row)
           ELSE /\ request' = [request EXCEPT ![r] =
                                  [row EXCEPT !.stage = "answered", !.answer = "500"]]
                /\ UNCHANGED buckets
        /\ UNCHANGED <<clock, counts>>

Tick ==
    /\ clock < MaxTime
    /\ clock' = clock + 1
    /\ UNCHANGED <<counts, buckets, request>>

-----------------------------------------------------------------------------
(* Properties.                                                             *)

\* Of one client, Redis lets no more than Limit requests of a minute in, and
\* of those that it admitted first a process no more than Limit that arrived
\* in any minute.  A request that Redis had counted is not among these when the
\* process admits it again, with the stamp of its arrival: with those, a minute
\* of the bucket can hold more.
AdmittedWithinLimit ==
    /\ \A m \in Minutes :
          Cardinality({r \in Requests : request[r].counted /\ MinuteOf(request[r].now) = m}) <= Limit
    /\ \A p \in Processes, from \in 0..MaxTime :
          Cardinality({r \in Requests : /\ process[r] = p
                                       /\ ~ request[r].counted
                                       /\ request[r].admittedAt # Never
                                       /\ request[r].now \in from..(from + Minute - 1)}) <= Limit

\* A request is turned away before its handler ran only after Limit others of
\* its client: let in within its minute of the shared counter, or admitted by
\* its process at times less than a minute before it came.  An old stamp that a
\* retry leaves behind a younger one counts as its admission, not as its arrival.
RefusedForReason ==
    [][\A r \in Requests :
        request'[r].answer = "429" /\ request[r].answer # "429" /\ request[r].runs = 0 =>
            LET others == Requests \ {r}
                now    == request[r].now
            IN  \/ Limit <= Cardinality({q \in others :
                                /\ request[q].stage \in {"handling", "answered"}
                                /\ MinuteOf(request[q].now) = MinuteOf(now)})
                \/ Limit <= Cardinality({q \in others :
                                /\ process[q] = process[r]
                                /\ request[q].admittedAt # Never
                                /\ now < request[q].admittedAt + Minute})]_limiterVars

\* The handler runs a second time only if it failed, never after its answer
\* was sent, never with a body, and only for a request that Redis let in: a
\* failure of Redis and one of the handler do not add up to more runs.
RunAgainOnlyAfterFailure ==
    \A r \in Requests :
        /\ request[r].runs = 2 => request[r].failed /\ request[r].counted /\ r \notin WithBody
        /\ request[r].answer \in {"429", "unreadable"} => request[r].runs = 0 \/ request[r].failed
=============================================================================
