---------------------------- MODULE GatewayProofs ----------------------------
(***************************************************************************)
(* For any number of requests, processes and key sets: keys are recent,    *)
(* also behind a rate limit that starts verifications over; a handler is   *)
(* started over only after it failed; and the rate limit lets in no more,  *)
(* and turns away no fewer, than it says.                                  *)
(***************************************************************************)
EXTENDS Gateway, FiniteSetTheorems, SequenceTheorems, WellFoundedInduction, TLAPS

THEOREM KeysTypeCorrect == KeysSpec => []KeysTypeOK
<1>1. KeysInit => KeysTypeOK
  BY RequestsAssumption, ClerkKeysAssumption
     DEF KeysInit, KeysTypeOK, Idle, Uncached, Nothing, Cached, Current
<1>2. ASSUME KeysTypeOK, [KeysNext]_keysVars
      PROVE  KeysTypeOK'
  <2> USE RequestsAssumption, ClerkKeysAssumption DEF KeysTypeOK
  <2>1. CASE KeysTick
    BY <1>2, <2>1 DEF KeysTick, Current
  <2>2. CASE Rotate
    BY <1>2, <2>2 DEF Rotate, Current
  <2>3. ASSUME NEW r \in Requests, Look(r)
        PROVE  KeysTypeOK'
    <3>1. cache[process[r]] \in Cached
      BY <1>2
    <3>2. cache[process[r]].set \in 0..Sets
      BY <3>1 DEF Cached
    <3>3. QED
      BY <1>2, <2>3, <3>2 DEF Look, Current
  <2>4. ASSUME NEW r \in Requests, Fetch(r)
        PROVE  KeysTypeOK'
    <3>1. Current \in 0..Sets
      BY <1>2 DEF Current
    <3>2. QED
      BY <1>2, <2>4, <3>1 DEF Fetch, Current
  <2>5. ASSUME NEW r \in Requests, FetchFails(r)
        PROVE  KeysTypeOK'
    BY <1>2, <2>5 DEF FetchFails, Current
  <2>6. ASSUME NEW r \in Requests, Store(r)
        PROVE  KeysTypeOK'
    <3>1. [set |-> thread[r].set, expires |-> thread[r].now + TTL] \in Cached
      BY <1>2 DEF Cached
    <3>2. QED
      BY <1>2, <2>6, <3>1 DEF Store, Current
  <2>7. ASSUME NEW r \in Requests, Leave(r)
        PROVE  KeysTypeOK'
    BY <1>2, <2>7 DEF Leave, Current, Idle, Nothing
  <2>8. CASE UNCHANGED keysVars
    BY <1>2, <2>8 DEF keysVars, Current
  <2>9. QED
    BY <1>2, <2>1, <2>2, <2>3, <2>4, <2>5, <2>6, <2>7, <2>8 DEF KeysNext, GetKeys
<1>3. QED
  BY <1>1, <1>2, PTL DEF KeysSpec

-----------------------------------------------------------------------------
(* Recent keys.                                                            *)

Monus(a, b) == IF a >= b THEN a - b ELSE 0

\* A set is in the cache until TTL after a time at which Clerk published it, ...
CachedRecent(p) ==
    cache[p].set # Nothing =>
        /\ cache[p].expires >= TTL
        /\ cache[p].expires - TTL <= clock
        /\ PublishedSince(cache[p].set, cache[p].expires - TTL)

\* ... which is the time at which the thread that stored it began to fetch.
ThreadRecent(r) ==
    /\ thread[r].now <= clock
    /\ thread[r].step = "storing" =>
            thread[r].set # Nothing /\ PublishedSince(thread[r].set, thread[r].now)
    /\ thread[r].step = "fetching" => ~ thread[r].failed
    /\ thread[r].step = "answered" /\ ~ thread[r].failed =>
            /\ thread[r].set # Nothing
            /\ PublishedSince(thread[r].set, Monus(thread[r].now, TTL))

Recent ==
    /\ KeysTypeOK
    /\ \A p \in Processes : CachedRecent(p)
    /\ \A r \in Requests : ThreadRecent(r)

\* What was published since some time still was when Clerk goes on, ...
LEMMA PublishedStays ==
    ASSUME KeysTypeOK, Rotate, NEW set \in Nat, NEW time \in Nat, time <= clock,
           PublishedSince(set, time)
    PROVE  PublishedSince(set, time)'
<1>1. replaced \in Seq(0..MaxTime) /\ clock \in Nat
  BY RequestsAssumption DEF KeysTypeOK
<1>2. replaced' = Append(replaced, clock)
  BY DEF Rotate
<1>3. Len(replaced') = Len(replaced) + 1 /\ replaced'[Len(replaced) + 1] = clock
  BY <1>1, <1>2
<1>4. \A i \in 1..Len(replaced) : replaced'[i] = replaced[i]
  BY <1>1, <1>2
<1>5. CASE set = Current
  BY <1>1, <1>3, <1>5 DEF PublishedSince, Current
<1>6. CASE set \in 1..Len(replaced) /\ replaced[set] >= time
  BY <1>1, <1>3, <1>4, <1>6 DEF PublishedSince
<1>7. QED
  BY <1>5, <1>6 DEF PublishedSince

\* ... and was published since any earlier time.
LEMMA PublishedEarlier ==
    ASSUME KeysTypeOK, NEW set \in Nat, NEW time \in Nat, NEW earlier \in Nat, earlier <= time,
           PublishedSince(set, time)
    PROVE  PublishedSince(set, earlier)
<1>1. \A i \in 1..Len(replaced) : replaced[i] \in Nat
  BY RequestsAssumption DEF KeysTypeOK
<1>2. QED
  BY <1>1 DEF PublishedSince

LEMMA RecentInductive ==
    ASSUME Recent, [KeysNext]_keysVars, KeysTypeOK'
    PROVE  Recent'
<1> USE DEF Recent
<1>1. /\ clock \in Nat /\ TTL \in Nat
      /\ \A p \in Processes : cache[p].set \in Nat /\ cache[p].expires \in Nat
      /\ \A r \in Requests : thread[r].now \in Nat /\ thread[r].set \in Nat
                             /\ process[r] \in Processes
  BY RequestsAssumption, ClerkKeysAssumption DEF KeysTypeOK, Cached
<1>2. CASE KeysTick
  BY <1>1, <1>2 DEF KeysTick, CachedRecent, ThreadRecent, PublishedSince, Current
<1>3. CASE UNCHANGED keysVars
  BY <1>3 DEF keysVars, CachedRecent, ThreadRecent, PublishedSince, Current
<1>4. CASE Rotate
  <2>1. UNCHANGED <<clock, cache, thread>>
    BY <1>4 DEF Rotate
  <2>2. ASSUME NEW p \in Processes
        PROVE  CachedRecent(p)'
    <3> DEFINE set == cache[p].set
               time == cache[p].expires - TTL
    <3>1. CASE set # Nothing
      <4>1. CachedRecent(p)
        OBVIOUS
      <4>2. set \in Nat /\ time \in Nat /\ time <= clock /\ PublishedSince(set, time)
        BY <4>1, <3>1, <1>1 DEF CachedRecent
      <4> HIDE DEF set, time
      <4>3. PublishedSince(set, time)'
        BY <4>2, <1>4, PublishedStays, <2>1 DEF set, time
      <4>4. QED
        BY <4>1, <4>2, <4>3, <3>1, <2>1 DEF set, time, CachedRecent
    <3>2. QED
      BY <3>1, <2>1 DEF CachedRecent
  <2>3. ASSUME NEW r \in Requests
        PROVE  ThreadRecent(r)'
    <3>1. ThreadRecent(r)
      OBVIOUS
    <3>2. QED
      BY <3>1, <2>1, <1>1, <1>4, PublishedStays DEF ThreadRecent, Monus
  <2>4. QED
    BY <2>2, <2>3
<1>5. ASSUME NEW r \in Requests, GetKeys(r) \/ Leave(r)
      PROVE  Recent'
  <2>1. UNCHANGED <<clock, replaced>>
    BY <1>5 DEF GetKeys, Look, Fetch, FetchFails, Store, Leave
  <2>2. ASSUME NEW q \in Requests, thread'[q] = thread[q]
        PROVE  ThreadRecent(q)'
    BY <2>1, <2>2 DEF ThreadRecent, PublishedSince, Current
  <2>3. ASSUME NEW p \in Processes, cache'[p] = cache[p]
        PROVE  CachedRecent(p)'
    BY <2>1, <2>3 DEF CachedRecent, PublishedSince, Current
  <2>4. \A q \in Requests \ {r} : thread'[q] = thread[q]
    BY <1>5 DEF GetKeys, Look, Fetch, FetchFails, Store, Leave, KeysTypeOK
  <2>5. CASE ThreadRecent(r)' /\ \A p \in Processes : CachedRecent(p)'
    BY <2>2, <2>4, <2>5
  <2>6. ThreadRecent(r) /\ CachedRecent(process[r])
    BY <1>1
  <2>7. CASE Look(r)
    <3> DEFINE cached == cache[process[r]]
    <3>1. CASE cached.set # Nothing /\ cached.expires > clock
      <4>1. /\ thread'[r].now = clock /\ thread'[r].set = cached.set
            /\ thread'[r].step = "answered"
        BY <2>7, <3>1 DEF Look, KeysTypeOK
      <4>2. PublishedSince(cached.set, Monus(clock, TTL))
        BY <3>1, <2>6, <1>1, PublishedEarlier DEF CachedRecent, Monus
      <4>3. QED
        BY <4>1, <4>2, <3>1, <2>1, <2>3, <2>5, <2>7, <1>1
           DEF Look, ThreadRecent, PublishedSince, Current
    <3>2. CASE ~ (cached.set # Nothing /\ cached.expires > clock)
      <4>1. thread'[r].now = clock /\ thread'[r].step = "fetching" /\ ~ thread'[r].failed
        BY <2>7, <3>2 DEF Look, KeysTypeOK
      <4>2. QED
        BY <4>1, <2>1, <2>3, <2>5, <2>7, <1>1 DEF Look, ThreadRecent
    <3>3. QED
      BY <3>1, <3>2
  <2>8. CASE Fetch(r)
    <3>1. /\ thread'[r].now = thread[r].now /\ thread'[r].step = "storing"
          /\ thread'[r].set = Current
      BY <2>8 DEF Fetch, KeysTypeOK
    <3>2. Current # Nothing /\ PublishedSince(Current, thread[r].now)
      BY DEF PublishedSince, Current, Nothing, KeysTypeOK
    <3>3. QED
      BY <3>1, <3>2, <2>1, <2>3, <2>5, <2>6, <2>8 DEF Fetch, ThreadRecent, PublishedSince, Current
  <2>9. CASE FetchFails(r)
    <3>1. thread'[r].now = thread[r].now /\ thread'[r].step = "answered" /\ thread'[r].failed
      BY <2>9 DEF FetchFails, KeysTypeOK
    <3>2. QED
      BY <3>1, <2>1, <2>3, <2>5, <2>6, <2>9 DEF FetchFails, ThreadRecent
  <2>10. CASE Store(r)
    <3> DEFINE set == thread[r].set
               now == thread[r].now
    <3>1. /\ thread'[r].now = now /\ thread'[r].set = set /\ thread'[r].step = "answered"
          /\ cache' = [cache EXCEPT ![process[r]] = [set |-> set, expires |-> now + TTL]]
      BY <2>10 DEF Store, KeysTypeOK
    <3>2. set # Nothing /\ PublishedSince(set, now) /\ now <= clock
      BY <2>6, <2>10 DEF Store, ThreadRecent
    <3>3. PublishedSince(set, Monus(now, TTL))
      BY <3>2, <1>1, PublishedEarlier DEF Monus
    <3>4. ThreadRecent(r)'
      BY <3>1, <3>2, <3>3, <2>1 DEF ThreadRecent, PublishedSince, Current
    <3>5. ASSUME NEW p \in Processes
          PROVE  CachedRecent(p)'
      <4>1. CASE p # process[r]
        BY <4>1, <3>1, <2>3 DEF KeysTypeOK
      <4>2. CASE p = process[r]
        <5>1. cache'[p].set = set /\ cache'[p].expires = now + TTL
          BY <4>2, <3>1 DEF KeysTypeOK
        <5>2. now \in Nat /\ TTL \in Nat /\ clock' = clock /\ replaced' = replaced
          BY <1>1, <2>1
        <5> HIDE DEF set, now
        <5>3. cache'[p].expires >= TTL /\ cache'[p].expires - TTL = now
          BY <5>1, <5>2
        <5>4. PublishedSince(cache[p].set, cache[p].expires - TTL)'
          BY <5>1, <5>2, <5>3, <3>2 DEF PublishedSince, Current
        <5>5. cache'[p].expires - TTL <= clock'
          BY <5>2, <5>3, <3>2
        <5>6. QED
          BY <5>3, <5>4, <5>5 DEF CachedRecent
      <4>3. QED
        BY <4>1, <4>2
    <3>6. QED
      BY <3>4, <3>5, <2>5
  <2>11. CASE Leave(r)
    <3>1. thread'[r] = Idle
      BY <2>11 DEF Leave, KeysTypeOK
    <3>2. QED
      BY <3>1, <2>1, <2>3, <2>5, <2>11, <1>1 DEF Leave, Idle, ThreadRecent
  <2>12. QED
    BY <1>5, <2>7, <2>8, <2>9, <2>10, <2>11 DEF GetKeys
<1>6. QED
  BY <1>2, <1>3, <1>4, <1>5 DEF KeysNext

\* For any requests, processes, rotations and failures.
THEOREM KeysRecent == KeysSpec => []KeysAreRecent
<1>1. KeysInit => \A p \in Processes : CachedRecent(p)
  BY DEF KeysInit, CachedRecent, Uncached
<1>2. KeysInit => \A r \in Requests : ThreadRecent(r)
  BY DEF KeysInit, ThreadRecent, Idle
<1>3. KeysInit /\ KeysTypeOK => Recent
  BY <1>1, <1>2 DEF Recent
<1>4. Recent => KeysAreRecent
  BY DEF Recent, ThreadRecent, KeysAreRecent, Monus
<1>5. QED
  BY <1>3, <1>4, RecentInductive, KeysTypeCorrect, PTL DEF KeysSpec

-----------------------------------------------------------------------------
(* Behind the rate limit.                                                  *)

\* The rate limit starts verifications over without disturbing any: the
\* gateway implements the key cache.
THEOREM GatewayImplementsKeys == GatewaySpec => KeysSpec
<1>1. GatewayInit => KeysInit
  BY DEF GatewayInit
<1>2. [GatewayNext]_gatewayVars => [KeysNext]_keysVars
  BY DEF GatewayNext, gatewayVars, limiterVars, keysVars, KeysNext, Passes, Tick, KeysTick,
         Rotates, Step, Limits, Arrive, Count, CountFails, Verifies, Ends, HandlerReturns,
         HandlerRaises
<1>3. QED
  BY <1>1, <1>2, PTL DEF GatewaySpec, KeysSpec

THEOREM GatewayKeysRecent == GatewaySpec => []KeysAreRecent
  BY GatewayImplementsKeys, KeysRecent, PTL

-----------------------------------------------------------------------------
(* Runs of a handler.                                                      *)

Rows == [stage : {"absent", "new", "counting", "handling", "answered"},
         now : 0..(MaxTime + 1), counted : BOOLEAN, admittedAt : 0..MaxTime \cup {Never},
         runs : 0..2, failed : BOOLEAN,
         answer : {"none", "429", "500", "unreadable", "returned"}]

\* A handler that Redis let in and that is in its first run may be started
\* over; whatever a process admitted itself is in its last run.
RunsOf(r, row) ==
    /\ row.stage \in {"absent", "new", "counting"} =>
          /\ row.runs = 0 /\ row.answer = "none"
          /\ ~ row.counted /\ ~ row.failed /\ row.admittedAt = Never
    /\ row.stage = "handling" =>
          /\ row.answer = "none" /\ row.runs \in 1..2
          /\ row.admittedAt = Never => row.runs = 1
    /\ row.runs = 2 => row.failed /\ row.counted /\ r \notin WithBody
    /\ row.answer \in {"429", "unreadable"} => row.runs = 0 \/ row.failed

RunsInv ==
    /\ clock \in 0..MaxTime
    /\ request \in [Requests -> Rows]
    /\ \A r \in Requests : RunsOf(r, request[r])

\* What entering a handler makes of a row that has at most one run behind it.
LEMMA EnteredRuns ==
    ASSUME NEW r \in Requests, NEW row \in Rows, row.runs \in 0..1, row.answer = "none",
           row.runs = 1 => row.failed /\ row.counted,
           row.admittedAt = Never => row.runs = 0,
           row.stage \in {"counting", "handling"}
    PROVE  Entered(r, row) \in Rows /\ RunsOf(r, Entered(r, row))
<1>1. (row.runs = 0 \/ row.runs = 1) /\ 0 + 1 = 1 /\ 1 + 1 = 2 /\ 1 > 0 /\ ~ (0 > 0)
  OBVIOUS
<1>2. CASE r \in WithBody /\ row.runs > 0
  <2> DEFINE after == [row EXCEPT !.stage = "answered", !.answer = "unreadable"]
  <2>1. Entered(r, row) = after
    BY <1>2 DEF Entered
  <2>2. after \in Rows
    BY DEF Rows
  <2>3. /\ after.stage = "answered" /\ after.runs = row.runs
        /\ after.failed = row.failed /\ after.answer = "unreadable"
    BY DEF Rows
  <2>4. row.runs = 1 /\ row.failed
    BY <1>1, <1>2
  <2> HIDE DEF after
  <2>5. QED
    BY <2>1, <2>2, <2>3, <2>4 DEF RunsOf
<1>3. CASE ~ (r \in WithBody /\ row.runs > 0)
  <2> DEFINE after == [row EXCEPT !.stage = "handling", !.runs = row.runs + 1]
  <2>1. Entered(r, row) = after
    BY <1>3 DEF Entered, Rows
  <2>2. after \in Rows
    <3>1. row.runs + 1 \in 0..2
      BY <1>1
    <3> DEFINE n == row.runs + 1
    <3> HIDE DEF n
    <3>2. [row EXCEPT !.stage = "handling", !.runs = n] \in Rows
      BY <3>1 DEF Rows, n
    <3>3. QED
      BY <3>2 DEF n
  <2>3. /\ after.stage = "handling" /\ after.runs = row.runs + 1 /\ after.answer = "none"
        /\ after.failed = row.failed /\ after.counted = row.counted
        /\ after.admittedAt = row.admittedAt
    BY DEF Rows
  <2> HIDE DEF after
  <2>4. CASE row.runs = 0
    BY <1>1, <2>1, <2>2, <2>3, <2>4 DEF RunsOf
  <2>5. CASE row.runs = 1
    <3>1. r \notin WithBody /\ row.failed /\ row.counted /\ row.admittedAt # Never
      BY <1>1, <1>3, <2>5
    <3>2. QED
      BY <1>1, <2>1, <2>2, <2>3, <2>5, <3>1 DEF RunsOf
  <2>6. QED
    BY <1>1, <2>4, <2>5
<1>4. QED
  BY <1>2, <1>3

LEMMA AnsweredRuns ==
    ASSUME NEW r \in Requests, NEW row \in Rows, RunsOf(r, row), NEW answer,
           answer \in {"429", "500", "returned"}, answer = "429" => row.runs = 0 \/ row.failed,
           NEW after, after = [row EXCEPT !.stage = "answered", !.answer = answer]
    PROVE  after \in Rows /\ RunsOf(r, after)
  BY DEF Rows, RunsOf

\* A step changes one row, and keeps it so.
LEMMA RowChanges ==
    ASSUME RunsInv, NEW r \in Requests, NEW row, row \in Rows, RunsOf(r, row),
           request' = [request EXCEPT ![r] = row], clock' \in 0..MaxTime
    PROVE  RunsInv'
  BY DEF RunsInv, RunsOf

LEMMA AdmitRuns ==
    ASSUME RunsInv, NEW r \in Requests, NEW row \in Rows, RunsOf(r, row),
           row.runs \in 0..1, row.answer = "none", row.runs = 1 => row.failed /\ row.counted,
           row.stage \in {"counting", "handling"}, Admit(r, row), UNCHANGED clock
    PROVE  RunsInv'
<1> DEFINE refused == [row EXCEPT !.stage = "answered", !.answer = "429"]
           admitted == [row EXCEPT !.admittedAt = clock]
<1>1. \/ request' = [request EXCEPT ![r] = refused]
      \/ request' = [request EXCEPT ![r] = Entered(r, admitted)]
  BY DEF Admit
<1>2. refused \in Rows /\ RunsOf(r, refused)
  <2>1. row.runs = 0 \/ row.failed
    OBVIOUS
  <2> HIDE DEF refused
  <2>2. QED
    BY <2>1, AnsweredRuns DEF refused
<1>3. Entered(r, admitted) \in Rows /\ RunsOf(r, Entered(r, admitted))
  <2>1. clock \in 0..MaxTime /\ clock # Never
    BY RequestsAssumption DEF RunsInv, Never
  <2>2. /\ admitted \in Rows /\ admitted.runs = row.runs /\ admitted.answer = "none"
        /\ admitted.failed = row.failed /\ admitted.counted = row.counted
        /\ admitted.admittedAt # Never /\ admitted.stage = row.stage
    BY <2>1 DEF Rows
  <2> HIDE DEF admitted
  <2>3. QED
    BY <2>2, EnteredRuns
<1>4. clock' \in 0..MaxTime
  BY DEF RunsInv
<1> HIDE DEF refused, admitted
<1>5. QED
  BY <1>1, <1>2, <1>3, <1>4, RowChanges

LEMMA RunsInit == GatewayInit => RunsInv
<1>1. New \in Rows /\ Absent \in Rows
  <2>1. Unstamped \in 0..(MaxTime + 1) /\ 0 \in 0..2
    BY RequestsAssumption DEF Unstamped
  <2>2. New \in Rows
    BY <2>1 DEF New, Rows
  <2> HIDE DEF New
  <2>3. QED
    BY <2>2 DEF Absent, Rows
<1>2. \A r \in Requests : RunsOf(r, New) /\ RunsOf(r, Absent)
  BY DEF New, Absent, RunsOf
<1> HIDE DEF New, Absent
<1>3. QED
  BY <1>1, <1>2, RequestsAssumption DEF GatewayInit, LimiterInit, RunsInv

LEMMA RunsStep ==
    ASSUME RunsInv, [GatewayNext]_gatewayVars
    PROVE  RunsInv'
<1>1. CASE clock' \in 0..MaxTime /\ UNCHANGED request
  BY <1>1 DEF RunsInv, RunsOf
<1>2. CASE Passes
  BY <1>1, <1>2, RequestsAssumption DEF Passes, Tick, RunsInv
<1>3. CASE Rotates \/ UNCHANGED gatewayVars \/ \E r \in Requests : Verifies(r)
  BY <1>1, <1>3
     DEF RunsInv, Rotates, Rotate, gatewayVars, limiterVars, Verifies, GetKeys, Look, Fetch,
         FetchFails, Store
<1>4. ASSUME NEW r \in Requests, Limits(r) \/ Ends(r)
      PROVE  RunsInv'
  <2>1. request[r] \in Rows /\ RunsOf(r, request[r])
    BY DEF RunsInv
  <2>2. CASE Arrive(r)
    <3> DEFINE row == [request[r] EXCEPT !.stage = "counting", !.now = clock]
    <3>1. request' = [request EXCEPT ![r] = row] /\ UNCHANGED clock
      BY <2>2 DEF Arrive, RunsInv
    <3>2. row \in Rows /\ RunsOf(r, row)
      <4>1. clock \in 0..(MaxTime + 1) /\ request[r].stage = "new"
        BY <2>2, RequestsAssumption DEF Arrive, RunsInv
      <4>2. row \in Rows
        BY <2>1, <4>1 DEF Rows
      <4>3. /\ row.stage = "counting" /\ row.runs = request[r].runs
            /\ row.answer = request[r].answer /\ row.counted = request[r].counted
            /\ row.failed = request[r].failed /\ row.admittedAt = request[r].admittedAt
        BY <2>1 DEF Rows
      <4> HIDE DEF row
      <4>4. QED
        BY <2>1, <4>1, <4>2, <4>3 DEF RunsOf
    <3> HIDE DEF row
    <3>3. QED
      BY <3>1, <3>2, RowChanges DEF RunsInv
  <2>3. CASE Count(r)
    <3> DEFINE refused == [request[r] EXCEPT !.stage = "answered", !.answer = "429"]
               counted == [request[r] EXCEPT !.counted = TRUE]
    <3>1. /\ \/ request' = [request EXCEPT ![r] = refused]
             \/ request' = [request EXCEPT ![r] = Entered(r, counted)]
          /\ UNCHANGED clock /\ request[r].stage = "counting"
      BY <2>3 DEF Count, Answered
    <3>2. refused \in Rows /\ RunsOf(r, refused)
      BY <2>1, <3>1 DEF Rows, RunsOf
    <3>3. Entered(r, counted) \in Rows /\ RunsOf(r, Entered(r, counted))
      <4>1. /\ counted \in Rows /\ counted.runs = 0 /\ counted.answer = "none"
            /\ counted.stage = "counting"
        BY <2>1, <3>1 DEF Rows, RunsOf
      <4> HIDE DEF counted
      <4>2. QED
        BY <4>1, EnteredRuns
    <3> HIDE DEF refused, counted
    <3>4. QED
      BY <3>1, <3>2, <3>3, RowChanges DEF RunsInv
  <2>4. CASE CountFails(r)
    <3>1. /\ request[r].stage = "counting" /\ Admit(r, request[r]) /\ UNCHANGED clock
      BY <2>4 DEF CountFails
    <3>2. request[r].runs = 0 /\ request[r].answer = "none"
      BY <2>1, <3>1 DEF RunsOf
    <3>3. QED
      BY <2>1, <3>1, <3>2, AdmitRuns
  <2>5. CASE HandlerReturns(r)
    <3> DEFINE row == [request[r] EXCEPT !.stage = "answered", !.answer = "returned"]
    <3>1. request' = [request EXCEPT ![r] = row] /\ UNCHANGED clock
      BY <2>5 DEF HandlerReturns, Answered
    <3>2. row \in Rows /\ RunsOf(r, row)
      BY <2>1, AnsweredRuns
    <3> HIDE DEF row
    <3>3. QED
      BY <3>1, <3>2, RowChanges DEF RunsInv
  <2>6. CASE HandlerRaises(r)
    <3> DEFINE row == [request[r] EXCEPT !.failed = TRUE]
               failed == [row EXCEPT !.stage = "answered", !.answer = "500"]
    <3>1. request[r].stage = "handling" /\ UNCHANGED clock
      BY <2>6 DEF HandlerRaises
    <3>2. /\ row \in Rows /\ RunsOf(r, row) /\ row.answer = "none"
          /\ row.stage = "handling" /\ row.failed /\ row.counted = request[r].counted
          /\ row.admittedAt = Never => row.runs = 1
      BY <2>1, <3>1 DEF Rows, RunsOf
    <3>3. failed \in Rows /\ RunsOf(r, failed)
      BY <2>1, <3>1 DEF Rows, RunsOf
    <3>4. \/ row.counted /\ row.admittedAt = Never /\ Admit(r, row)
          \/ request' = [request EXCEPT ![r] = failed]
      BY <2>6 DEF HandlerRaises
    <3> HIDE DEF row, failed
    <3>5. QED
      BY <3>1, <3>2, <3>3, <3>4, AdmitRuns, RowChanges DEF RunsInv
  <2>7. QED
    BY <1>4, <2>2, <2>3, <2>4, <2>5, <2>6 DEF Limits, Ends
<1>5. QED
  BY <1>2, <1>3, <1>4 DEF GatewayNext, Step

LEMMA AlwaysRunsInv == GatewaySpec => []RunsInv
  BY RunsInit, RunsStep, PTL DEF GatewaySpec

\* A handler runs again only if it failed, read no body, and was let in by
\* Redis, for any number of processes, requests and failures of Redis.
THEOREM HandlersRunAgainOnlyAfterFailure == GatewaySpec => []RunAgainOnlyAfterFailure
<1>1. RunsInv => RunAgainOnlyAfterFailure
  BY DEF RunsInv, RunsOf, RunAgainOnlyAfterFailure
<1>2. QED
  BY <1>1, AlwaysRunsInv, PTL

-----------------------------------------------------------------------------
(* Admissions.                                                             *)

\* The requests of a minute that Redis let in, and those that were counted in
\* it or that it failed to count.
CountedIn(m) == {r \in Requests : request[r].counted /\ MinuteOf(request[r].now) = m}

Past(m) ==
    {r \in Requests : /\ request[r].stage \in {"handling", "answered"}
                      /\ MinuteOf(request[r].now) = m}

\* What a process admitted: by itself alone and not yet a minute old at a time,
\* or retried too, at that time or later.
Fresh(p, time) ==
    {r \in Requests : /\ process[r] = p
                      /\ ~ request[r].counted
                      /\ request[r].admittedAt # Never
                      /\ time < request[r].now + Minute}

Since(p, time) ==
    {r \in Requests : /\ process[r] = p
                      /\ request[r].admittedAt # Never
                      /\ time <= request[r].admittedAt}

\* Requests that a process admitted by itself and that arrived in a minute.
Window(p, from) ==
    {r \in Requests : /\ process[r] = p
                      /\ ~ request[r].counted
                      /\ request[r].admittedAt # Never
                      /\ request[r].now \in from..(from + Minute - 1)}

\* Where the bucket would begin if it were popped at a time.
First(bucket, time, k) ==
    /\ k \in 1..(Len(bucket) + 1)
    /\ \A i \in 1..(k - 1) : bucket[i] + Minute <= time
    /\ k <= Len(bucket) => time < bucket[k] + Minute

\* Times at which the process may yet look at its bucket for an arrival.
Due(p, time) ==
    \/ clock <= time
    \/ \E r \in Requests :
          process[r] = p /\ request[r].stage = "counting" /\ request[r].now <= time

CountInv(m) ==
    /\ Cardinality(CountedIn(m)) <= counts[m] /\ Cardinality(CountedIn(m)) <= Limit
    /\ counts[m] <= Cardinality(Past(m))

\* Every stamp stands for a request admitted no earlier, ...
Owned(p, bucket) ==
    \A i \in DOMAIN bucket :
        /\ bucket[i] <= clock
        /\ Len(bucket) + 1 <= i + Cardinality(Since(p, bucket[i]))

\* ... and whatever is still fresh when the process looks at the bucket has
\* not been popped.
Held(p, bucket) ==
    \A time \in 0..MaxTime, k \in 1..(Len(bucket) + 1) :
        Due(p, time) /\ First(bucket, time, k) =>
            k + Cardinality(Fresh(p, time)) <= Len(bucket) + 1

BucketInv(p) ==
    /\ Owned(p, buckets[p])
    /\ Held(p, buckets[p])
    /\ \A from \in 0..MaxTime : Cardinality(Window(p, from)) <= Limit

InLoop ==
    /\ \A r \in Requests : request[r].stage \in {"counting", "handling"} => request[r].now <= clock
    /\ \A r, q \in Requests :
          /\ process[r] = process[q]
          /\ request[r].stage = "counting" /\ request[q].stage = "counting"
          => r = q

LimiterInv ==
    /\ LimiterTypeOK
    /\ InLoop
    /\ \A m \in Minutes : CountInv(m)
    /\ \A p \in Processes : BucketInv(p)

LEMMA SmallestOf ==
    ASSUME NEW T, T \subseteq Nat, T # {}
    PROVE  \E i \in T : \A j \in T : i <= j
<1>1. PICK i \in T : \A j \in T : ~ (<<j, i>> \in OpToRel(<, Nat))
  BY NatLessThanWellFounded, WFMin
<1>2. \A j \in T : ~ (j < i)
  BY <1>1 DEF OpToRel
<1>3. QED
  BY <1>2

\* Popping leaves the bucket from its first stamp that is not a minute old.
LEMMA PoppedFrom ==
    ASSUME NEW bucket \in Seq(0..MaxTime), NEW time \in Nat
    PROVE  \E k \in 1..(Len(bucket) + 1) :
              First(bucket, time, k) /\ Popped(bucket, time) = SubSeq(bucket, k, Len(bucket))
<1> DEFINE kept == {i \in DOMAIN bucket : time < bucket[i] + Minute}
<1>0. /\ Len(bucket) \in Nat /\ DOMAIN bucket = 1..Len(bucket)
      /\ \A i \in DOMAIN bucket : bucket[i] \in Nat
      /\ Minute \in Nat
  BY RequestsAssumption, RateLimiterAssumption
<1>1. CASE kept = {}
  <2>1. SubSeq(bucket, Len(bucket) + 1, Len(bucket)) = <<>>
    BY <1>0, SubSeqEmpty
  <2>2. Popped(bucket, time) = <<>>
    BY <1>1 DEF Popped
  <2>3. First(bucket, time, Len(bucket) + 1)
    BY <1>0, <1>1 DEF First
  <2>4. QED
    BY <1>0, <2>1, <2>2, <2>3
<1>2. CASE kept # {}
  <2> DEFINE k == CHOOSE i \in kept : \A j \in kept : i <= j
  <2>1. kept \subseteq Nat
    BY <1>0
  <2>2. k \in kept /\ \A j \in kept : k <= j
    BY <1>2, <2>1, SmallestOf
  <2>3. Popped(bucket, time) = SubSeq(bucket, k, Len(bucket))
    BY <1>2 DEF Popped
  <2> HIDE DEF k
  <2>4. First(bucket, time, k) /\ k \in 1..(Len(bucket) + 1)
    BY <1>0, <2>2 DEF First
  <2>5. QED
    BY <2>3, <2>4
<1>3. QED
  BY <1>1, <1>2

\* The end of a bucket, from a stamp that time has not passed.
LEMMA EndOf ==
    ASSUME NEW bucket \in Seq(0..MaxTime), NEW k \in 1..(Len(bucket) + 1),
           NEW rest, rest = SubSeq(bucket, k, Len(bucket))
    PROVE  /\ rest \in Seq(0..MaxTime) /\ Len(rest) = Len(bucket) + 1 - k
           /\ \A i \in 1..Len(rest) : i + k - 1 \in 1..Len(bucket) /\ rest[i] = bucket[i + k - 1]
<1>1. Len(bucket) \in Nat /\ k \in Int /\ Len(bucket) \in Int
  OBVIOUS
<1>2. \A i \in k..Len(bucket) : bucket[i] \in 0..MaxTime
  <2>1. \A i \in 1..Len(bucket) : bucket[i] \in 0..MaxTime
    BY RequestsAssumption
  <2>2. \A i \in k..Len(bucket) : i \in 1..Len(bucket)
    BY <1>1
  <2>3. QED
    BY <2>1, <2>2
<1>3. /\ rest \in Seq(0..MaxTime)
      /\ Len(rest) = IF k <= Len(bucket) THEN Len(bucket) - k + 1 ELSE 0
      /\ \A i \in 1..(Len(bucket) - k + 1) : rest[i] = bucket[k + i - 1]
  BY <1>1, <1>2, SubSeqProperties
<1>4. Len(rest) = Len(bucket) + 1 - k
  BY <1>1, <1>3
<1>5. QED
  BY <1>1, <1>3, <1>4

\* Popping twice is popping once, later.
LEMMA FirstOfRest ==
    ASSUME NEW bucket \in Seq(0..MaxTime), NEW time \in Nat, NEW later \in Nat, time <= later,
           NEW k \in 1..(Len(bucket) + 1), First(bucket, time, k),
           NEW m, First(SubSeq(bucket, k, Len(bucket)), later, m)
    PROVE  First(bucket, later, m + k - 1) /\ m + k - 1 \in 1..(Len(bucket) + 1)
<1> DEFINE rest == SubSeq(bucket, k, Len(bucket))
<1>1. /\ Len(rest) = Len(bucket) + 1 - k
      /\ \A i \in 1..Len(rest) : i + k - 1 \in 1..Len(bucket) /\ rest[i] = bucket[i + k - 1]
  BY EndOf
<1> HIDE DEF rest
<1>2. First(rest, later, m)
  BY DEF rest
<1>3. /\ Len(bucket) \in Nat /\ k \in Nat /\ Minute \in Nat /\ m \in 1..(Len(rest) + 1)
      /\ \A i \in 1..Len(bucket) : bucket[i] \in Nat /\ bucket[i] + Minute \in Nat
  <2>1. m \in 1..(Len(rest) + 1)
    BY <1>2 DEF First
  <2>2. Len(bucket) \in Nat /\ k \in Nat /\ Minute \in Nat
    BY RateLimiterAssumption
  <2>3. \A i \in 1..Len(bucket) : bucket[i] \in Nat
    BY RequestsAssumption
  <2>4. QED
    BY <2>1, <2>2, <2>3
<1>4. m + k - 1 \in 1..(Len(bucket) + 1)
  BY <1>1, <1>3
<1>5. ASSUME NEW i \in 1..(m + k - 1 - 1)
      PROVE  bucket[i] + Minute <= later
  <2>1. CASE i < k
    <3>1. i \in 1..(k - 1) /\ i \in 1..Len(bucket)
      BY <1>3, <1>4, <2>1
    <3>2. bucket[i] + Minute <= time
      BY <3>1 DEF First
    <3>3. bucket[i] + Minute \in Nat
      BY <1>3, <3>1
    <3>4. QED
      BY <3>2, <3>3
  <2>2. CASE k <= i
    <3>1. i - k + 1 \in 1..(m - 1) /\ (i - k + 1) + k - 1 = i
      BY <1>3, <2>2
    <3>2. rest[i - k + 1] + Minute <= later /\ i - k + 1 \in 1..Len(rest)
      BY <1>1, <1>2, <1>3, <3>1 DEF First
    <3>3. QED
      BY <1>1, <3>1, <3>2
  <2>3. QED
    BY <1>3, <2>1, <2>2
<1>6. m + k - 1 <= Len(bucket) => later < bucket[m + k - 1] + Minute
  <2>1. SUFFICES ASSUME m + k - 1 <= Len(bucket) PROVE later < bucket[m + k - 1] + Minute
    OBVIOUS
  <2>2. m \in 1..Len(rest) /\ m <= Len(rest)
    BY <1>1, <1>3, <2>1
  <2>3. later < rest[m] + Minute
    BY <1>2, <2>2 DEF First
  <2>4. QED
    BY <1>1, <2>2, <2>3
<1>7. QED
  BY <1>4, <1>5, <1>6 DEF First

\* A stamp more at the end: the bucket begins where it did, or with it.
LEMMA FirstOfLonger ==
    ASSUME NEW bucket \in Seq(0..MaxTime), NEW stamp \in 0..MaxTime, NEW time \in Nat,
           NEW k, First(Append(bucket, stamp), time, k)
    PROVE  \/ k \in 1..(Len(bucket) + 1) /\ First(bucket, time, k)
           \/ /\ k = Len(bucket) + 2 /\ First(bucket, time, Len(bucket) + 1)
              /\ stamp + Minute <= time
<1> DEFINE longer == Append(bucket, stamp)
<1>1. /\ Len(bucket) \in Nat /\ Len(longer) = Len(bucket) + 1
      /\ \A i \in 1..Len(bucket) : longer[i] = bucket[i]
      /\ longer[Len(bucket) + 1] = stamp
  OBVIOUS
<1> HIDE DEF longer
<1>2. First(longer, time, k)
  BY DEF longer
<1>3. CASE k = Len(bucket) + 2
  BY <1>1, <1>2, <1>3 DEF First
<1>4. CASE k # Len(bucket) + 2
  BY <1>1, <1>2, <1>4 DEF First
<1>5. QED
  BY <1>3, <1>4

-----------------------------------------------------------------------------
(* Cardinalities.                                                          *)

LEMMA SetsOfRequests ==
    /\ \A S \in SUBSET Requests : IsFiniteSet(S) /\ Cardinality(S) \in Nat
    /\ \A S, T \in SUBSET Requests : S \subseteq T => Cardinality(S) <= Cardinality(T)
    /\ \A S \in SUBSET Requests, r \in Requests :
          r \notin S => Cardinality(S \cup {r}) = Cardinality(S) + 1
<1>1. \A S \in SUBSET Requests : IsFiniteSet(S)
  BY RequestsAssumption, FS_Subset
<1>2. \A S \in SUBSET Requests : Cardinality(S) \in Nat
  BY <1>1, FS_CardinalityType
<1>3. ASSUME NEW S \in SUBSET Requests, NEW T \in SUBSET Requests, S \subseteq T
      PROVE  Cardinality(S) <= Cardinality(T)
  BY <1>1, <1>3, FS_Subset
<1>4. ASSUME NEW S \in SUBSET Requests, NEW r \in Requests, r \notin S
      PROVE  Cardinality(S \cup {r}) = Cardinality(S) + 1
  BY <1>1, <1>4, FS_AddElement
<1>5. QED
  BY <1>1, <1>2, <1>3, <1>4

LEMMA MinutesOfTimes == \A now \in 0..MaxTime : MinuteOf(now) \in Minutes
<1>1. ASSUME NEW now \in 0..MaxTime
      PROVE  now \div Minute \in 0..(MaxTime \div Minute)
  <2>1. now \in Nat /\ MaxTime \in Nat /\ Minute \in Nat /\ Minute > 0 /\ now <= MaxTime
    BY RequestsAssumption, RateLimiterAssumption
  <2>2. QED
    BY <2>1
<1>2. QED
  BY <1>1 DEF MinuteOf, Minutes

\* While nobody of the process is in the middleware, or only the one that
\* arrived at a time, the process looks at its bucket for that time or later.
LEMMA DueLater ==
    ASSUME LimiterInv, RunsInv, NEW r \in Requests,
           \/ request[r].stage = "counting"
           \/ LoopFree(r) /\ request[r].now <= clock,
           NEW time \in 0..MaxTime, Due(process[r], time), request[r].now \in Nat
    PROVE  request[r].now <= time
<1>1. clock \in Nat /\ time \in Nat
  BY RequestsAssumption DEF RunsInv
<1>2. CASE request[r].stage = "counting"
  <2>1. request[r].now <= clock
    BY <1>2 DEF LimiterInv, InLoop
  <2>2. CASE clock <= time
    BY <1>1, <2>1, <2>2
  <2>3. CASE \E q \in Requests :
                process[q] = process[r] /\ request[q].stage = "counting" /\ request[q].now <= time
    BY <1>2, <2>3 DEF LimiterInv, InLoop
  <2>4. QED
    BY <2>2, <2>3 DEF Due
<1>3. CASE LoopFree(r) /\ request[r].now <= clock
  BY <1>1, <1>3 DEF Due, LoopFree
<1>4. QED
  BY <1>2, <1>3

\* What a bucket says of its process it says when it is popped, too.
LEMMA PoppedSound ==
    ASSUME NEW p \in Processes, NEW bucket \in Seq(0..MaxTime), Owned(p, bucket), Held(p, bucket),
           NEW now \in 0..MaxTime, \A time \in 0..MaxTime : Due(p, time) => now <= time,
           NEW k \in 1..(Len(bucket) + 1), First(bucket, now, k),
           NEW rest, rest = SubSeq(bucket, k, Len(bucket))
    PROVE  rest \in Seq(0..MaxTime) /\ Owned(p, rest) /\ Held(p, rest)
<1>1. /\ rest \in Seq(0..MaxTime) /\ Len(rest) = Len(bucket) + 1 - k
      /\ \A i \in 1..Len(rest) : i + k - 1 \in 1..Len(bucket) /\ rest[i] = bucket[i + k - 1]
  BY EndOf
<1>2. /\ Len(bucket) \in Nat /\ k \in Nat /\ Len(rest) \in Nat
      /\ DOMAIN rest = 1..Len(rest) /\ DOMAIN bucket = 1..Len(bucket)
  BY <1>1
<1>3. /\ \A time : Cardinality(Since(p, time)) \in Nat
      /\ \A time : Cardinality(Fresh(p, time)) \in Nat
  BY SetsOfRequests DEF Since, Fresh
<1>4. ASSUME NEW i \in DOMAIN rest
      PROVE  rest[i] <= clock /\ Len(rest) + 1 <= i + Cardinality(Since(p, rest[i]))
  <2>1. i + k - 1 \in DOMAIN bucket /\ rest[i] = bucket[i + k - 1] /\ i \in Nat
    BY <1>1, <1>2
  <2>2. bucket[i + k - 1] <= clock
    BY <2>1 DEF Owned
  <2>3. Len(bucket) + 1 <= i + k - 1 + Cardinality(Since(p, bucket[i + k - 1]))
    BY <2>1 DEF Owned
  <2> DEFINE c == Cardinality(Since(p, rest[i]))
  <2>4. c \in Nat
    BY <1>3
  <2>5. Len(bucket) + 1 <= i + k - 1 + c
    BY <2>1, <2>3
  <2> HIDE DEF c
  <2>6. Len(rest) + 1 <= i + c
    BY <1>1, <1>2, <2>1, <2>4, <2>5
  <2>7. QED
    BY <2>1, <2>2, <2>6 DEF c
<1>5. ASSUME NEW time \in 0..MaxTime, NEW m \in 1..(Len(rest) + 1), Due(p, time), First(rest, time, m)
      PROVE  m + Cardinality(Fresh(p, time)) <= Len(rest) + 1
  <2>1. now <= time /\ now \in Nat /\ time \in Nat
    BY <1>5, RequestsAssumption
  <2>2. First(bucket, time, m + k - 1) /\ m + k - 1 \in 1..(Len(bucket) + 1)
    BY <1>5, <2>1, FirstOfRest
  <2> DEFINE c == Cardinality(Fresh(p, time))
  <2>3. c \in Nat /\ m \in Nat
    BY <1>2, <1>3
  <2>4. m + k - 1 + c <= Len(bucket) + 1
    BY <1>5, <2>2 DEF Held
  <2> HIDE DEF c
  <2>5. m + c <= Len(rest) + 1
    BY <1>1, <1>2, <2>3, <2>4
  <2>6. QED
    BY <2>5 DEF c
<1>6. QED
  BY <1>1, <1>4, <1>5 DEF Owned, Held

-----------------------------------------------------------------------------
(* Buckets.                                                                *)

\* Requests of a process that are no nearer to its bucket than before.
Kept(p) ==
    /\ clock <= clock'
    /\ \A q \in Requests : process[q] = p =>
          /\ request'[q].admittedAt = request[q].admittedAt
          /\ request[q].admittedAt # Never =>
                request'[q].now = request[q].now /\ request'[q].counted = request[q].counted
          /\ request'[q].stage = "counting" =>
                \/ request[q].stage = "counting" /\ request'[q].now = request[q].now
                \/ request'[q].now = clock

LEMMA BucketStays ==
    ASSUME NEW p \in Processes, NEW bucket \in Seq(0..MaxTime), Owned(p, bucket), Held(p, bucket),
           \A from \in 0..MaxTime : Cardinality(Window(p, from)) <= Limit,
           buckets'[p] = bucket, Kept(p), clock \in Nat, clock' \in Nat
    PROVE  BucketInv(p)'
<1>1. /\ \A time : Since(p, time)' = Since(p, time)
      /\ \A time : Fresh(p, time)' = Fresh(p, time)
      /\ \A from : Window(p, from)' = Window(p, from)
  BY DEF Kept, Since, Fresh, Window
<1>2. ASSUME NEW time \in 0..MaxTime, Due(p, time)'
      PROVE  Due(p, time)
  <2>1. time \in Nat
    BY RequestsAssumption
  <2>2. QED
    BY <1>2, <2>1 DEF Kept, Due
<1>3. \A i \in DOMAIN bucket : bucket[i] \in Nat
  BY RequestsAssumption
<1>4. Owned(p, buckets[p])'
  BY <1>1, <1>3 DEF Kept, Owned
<1>5. Held(p, buckets[p])'
  BY <1>1, <1>2 DEF Held
<1>6. QED
  BY <1>1, <1>4, <1>5 DEF BucketInv

\* The process admits a request, with its stamp at the end of the bucket.
LEMMA BucketGrows ==
    ASSUME RunsInv, NEW r \in Requests, NEW p \in Processes, p = process[r],
           NEW rest \in Seq(0..MaxTime), Owned(p, rest), Held(p, rest),
           Len(rest) < Limit, NEW now \in 0..MaxTime, now = request[r].now, now <= clock,
           ~ request[r].counted => Cardinality(Fresh(p, now)) <= Len(rest),
           \A time \in 0..MaxTime : Due(p, time) => now <= time,
           \A from \in 0..MaxTime : Cardinality(Window(p, from)) <= Limit,
           buckets'[p] = Append(rest, now), clock' = clock,
           \A q \in Requests : q # r => request'[q] = request[q],
           request[r].admittedAt = Never, request'[r].admittedAt = clock,
           request'[r].now = now, request'[r].counted = request[r].counted,
           request'[r].stage # "counting"
    PROVE  BucketInv(p)'
<1> DEFINE bucket == Append(rest, now)
<1>1. /\ Len(rest) \in Nat /\ Len(bucket) = Len(rest) + 1 /\ DOMAIN bucket = 1..(Len(rest) + 1)
      /\ \A i \in 1..Len(rest) : bucket[i] = rest[i]
      /\ bucket[Len(rest) + 1] = now
  OBVIOUS
<1>2. /\ clock \in Nat /\ now \in Nat /\ clock # Never /\ Limit \in Nat /\ Minute \in Nat
      /\ \A i \in 1..Len(rest) : rest[i] \in Nat
  <2>1. clock \in 0..MaxTime
    BY DEF RunsInv
  <2>2. \A i \in 1..Len(rest) : rest[i] \in Nat
    BY RequestsAssumption
  <2>3. QED
    BY <2>1, <2>2, RequestsAssumption, RateLimiterAssumption DEF Never
<1>3. /\ \A time : Since(p, time) \in SUBSET Requests /\ r \notin Since(p, time)
      /\ \A time : Fresh(p, time) \in SUBSET Requests /\ r \notin Fresh(p, time)
      /\ \A from : Window(p, from) \in SUBSET Requests /\ r \notin Window(p, from)
  BY DEF Since, Fresh, Window
<1>4. ASSUME NEW time \in Nat, time <= clock
      PROVE  /\ Cardinality(Since(p, time)) \in Nat
             /\ Cardinality(Since(p, time)') = Cardinality(Since(p, time)) + 1
  <2>1. Since(p, time)' = Since(p, time) \cup {r}
    BY <1>2, <1>4 DEF Since
  <2>2. QED
    BY <1>3, <2>1, SetsOfRequests
<1>5. Owned(p, buckets[p])'
  <2>1. ASSUME NEW i \in DOMAIN bucket
        PROVE  /\ bucket[i] <= clock
               /\ Len(bucket) + 1 <= i + Cardinality(Since(p, bucket[i])')
    <3>1. CASE i = Len(rest) + 1
      BY <1>1, <1>2, <1>4, <3>1
    <3>2. CASE i # Len(rest) + 1
      <4>1. i \in DOMAIN rest /\ i \in Nat /\ bucket[i] = rest[i] /\ rest[i] \in Nat
        BY <1>1, <1>2, <3>2
      <4>2. rest[i] <= clock /\ Len(rest) + 1 <= i + Cardinality(Since(p, rest[i]))
        BY <4>1 DEF Owned
      <4>3. Cardinality(Since(p, rest[i])') = Cardinality(Since(p, rest[i])) + 1
            /\ Cardinality(Since(p, rest[i])) \in Nat
        BY <1>4, <4>1, <4>2
      <4>4. Len(bucket) + 1 <= i + Cardinality(Since(p, rest[i])')
        BY <1>1, <4>1, <4>2, <4>3
      <4>5. QED
        BY <4>1, <4>2, <4>4
    <3>3. QED
      BY <3>1, <3>2
  <2> HIDE DEF bucket
  <2>2. buckets'[p] = bucket
    BY DEF bucket
  <2>3. QED
    BY <2>1, <2>2 DEF Owned
<1>6. ASSUME NEW time \in 0..MaxTime, NEW k \in 1..(Len(bucket) + 1),
             Due(p, time)', First(bucket, time, k)
      PROVE  k + Cardinality(Fresh(p, time)') <= Len(bucket) + 1
  <2>1. time \in Nat /\ k \in Nat
    BY <1>1, RequestsAssumption
  <2>2. Due(p, time)
    BY <1>6 DEF Due
  <2>3. Cardinality(Fresh(p, time)) \in Nat
    BY <1>3, SetsOfRequests
  <2>4. CASE k \in 1..(Len(rest) + 1) /\ First(rest, time, k)
    <3>1. k + Cardinality(Fresh(p, time)) <= Len(rest) + 1
      BY <2>2, <2>4 DEF Held
    <3>2. Fresh(p, time)' \subseteq Fresh(p, time) \cup {r}
      BY DEF Fresh
    <3>3. /\ Cardinality(Fresh(p, time)') <= Cardinality(Fresh(p, time)) + 1
          /\ Cardinality(Fresh(p, time)') \in Nat
      <4>1. /\ Fresh(p, time)' \in SUBSET Requests
            /\ Fresh(p, time) \cup {r} \in SUBSET Requests
        BY <1>3 DEF Fresh
      <4>2. Cardinality(Fresh(p, time)') <= Cardinality(Fresh(p, time) \cup {r})
        BY <3>2, <4>1, SetsOfRequests
      <4>3. QED
        BY <1>3, <4>1, <4>2, SetsOfRequests
    <3>4. QED
      BY <1>1, <2>1, <2>3, <3>1, <3>3
  <2>5. CASE k = Len(rest) + 2 /\ First(rest, time, Len(rest) + 1) /\ now + Minute <= time
    <3>1. Len(rest) + 1 \in 1..(Len(rest) + 1)
      BY <1>1
    <3>2. Len(rest) + 1 + Cardinality(Fresh(p, time)) <= Len(rest) + 1
      BY <2>2, <2>5, <3>1 DEF Held
    <3>3. Fresh(p, time)' = Fresh(p, time)
      <4>1. ~ (time < now + Minute)
        BY <1>2, <2>1, <2>5
      <4>2. QED
        BY <4>1 DEF Fresh
    <3>4. Cardinality(Fresh(p, time)') = 0
      BY <1>1, <2>3, <3>2, <3>3
    <3>5. QED
      BY <1>1, <2>5, <3>4
  <2>6. QED
    BY <1>6, <2>1, <2>4, <2>5, FirstOfLonger
<1>7. Held(p, buckets[p])'
  <2> HIDE DEF bucket
  <2>1. buckets'[p] = bucket
    BY DEF bucket
  <2>2. QED
    BY <1>6, <2>1 DEF Held
<1>8. ASSUME NEW from \in 0..MaxTime
      PROVE  Cardinality(Window(p, from)') <= Limit
  <2>0. Cardinality(Window(p, from)) <= Limit
    OBVIOUS
  <2>1. CASE request[r].counted \/ now \notin from..(from + Minute - 1)
    <3>1. Window(p, from)' = Window(p, from)
      BY <2>1 DEF Window
    <3>2. QED
      BY <2>0, <3>1
  <2>2. CASE ~ request[r].counted /\ now \in from..(from + Minute - 1)
    <3>1. Window(p, from)' = Window(p, from) \cup {r}
      BY <1>2, <2>2 DEF Window
    <3>2. Window(p, from) \subseteq Fresh(p, now)
      <4>1. ASSUME NEW q \in Window(p, from)
            PROVE  now < request[q].now + Minute
        <5>1. from \in Nat /\ from <= request[q].now /\ request[q].now \in Nat
          BY RequestsAssumption, RateLimiterAssumption DEF Window
        <5>2. now <= from + Minute - 1
          BY <2>2
        <5>3. QED
          BY <1>2, <5>1, <5>2, RateLimiterAssumption
      <4>2. QED
        BY <4>1 DEF Window, Fresh
    <3>3. Cardinality(Window(p, from)) <= Cardinality(Fresh(p, now))
      BY <1>3, <3>2, SetsOfRequests
    <3>4. Cardinality(Window(p, from)') = Cardinality(Window(p, from)) + 1
      BY <1>3, <3>1, SetsOfRequests
    <3>5. Cardinality(Window(p, from)) \in Nat /\ Cardinality(Fresh(p, now)) \in Nat
      BY <1>3, SetsOfRequests
    <3>6. Cardinality(Fresh(p, now)) <= Len(rest)
      BY <2>2
    <3>7. QED
      BY <1>1, <1>2, <3>3, <3>4, <3>5, <3>6
  <2>3. QED
    BY <2>1, <2>2
<1>9. QED
  BY <1>5, <1>7, <1>8 DEF BucketInv

LEMMA EnteredFields ==
    ASSUME NEW r \in Requests, NEW row \in Rows, NEW after, after = Entered(r, row)
    PROVE  /\ after.stage \in {"handling", "answered"}
           /\ after.now = row.now /\ after.counted = row.counted
           /\ after.admittedAt = row.admittedAt
           /\ after.answer # "429" \/ row.answer = "429"
  BY DEF Entered, Rows

\* Admit of a request that its process did not admit before.
LEMMA AdmitSound ==
    ASSUME LimiterInv, RunsInv, NEW r \in Requests, NEW row \in Rows,
           request[r].admittedAt = Never, row.admittedAt = Never,
           row.now = request[r].now, row.counted = request[r].counted,
           row.now \in 0..MaxTime, row.now <= clock,
           \/ request[r].stage = "counting"
           \/ LoopFree(r) /\ request[r].counted,
           Admit(r, row), clock' = clock
    PROVE  /\ buckets' \in [Processes -> Seq(0..MaxTime)]
           /\ \A p \in Processes : BucketInv(p)'
           /\ \A q \in Requests : q # r => request'[q] = request[q]
           /\ request'[r].stage \in {"handling", "answered"}
           /\ request'[r].now = request[r].now /\ request'[r].counted = request[r].counted
<1> DEFINE p == process[r]
           bucket == buckets[p]
           rest == Popped(bucket, row.now)
           refused == [row EXCEPT !.stage = "answered", !.answer = "429"]
           admitted == [row EXCEPT !.admittedAt = clock]
<1>1. /\ p \in Processes /\ bucket \in Seq(0..MaxTime) /\ clock \in 0..MaxTime /\ clock \in Nat
      /\ row.now \in Nat /\ request[r].now \in Nat /\ clock # Never
  BY RequestsAssumption DEF LimiterInv, LimiterTypeOK, RunsInv, Never
<1>2. PICK k \in 1..(Len(bucket) + 1) :
          First(bucket, row.now, k) /\ rest = SubSeq(bucket, k, Len(bucket))
  BY <1>1, PoppedFrom
<1>3. \A time \in 0..MaxTime : Due(p, time) => row.now <= time
  BY <1>1, DueLater
<1>4. Owned(p, bucket) /\ Held(p, bucket) /\ \A from \in 0..MaxTime : Cardinality(Window(p, from)) <= Limit
  BY <1>1 DEF LimiterInv, BucketInv
<1> HIDE DEF rest
<1>5. rest \in Seq(0..MaxTime) /\ Owned(p, rest) /\ Held(p, rest)
  <2> HIDE DEF p, bucket
  <2>1. QED
    BY <1>1, <1>2, <1>3, <1>4, PoppedSound
<1>6. /\ refused.stage = "answered" /\ refused.now = row.now /\ refused.counted = row.counted
      /\ refused.admittedAt = row.admittedAt
  BY DEF Rows
<1>7. /\ admitted \in Rows
      /\ admitted.now = row.now /\ admitted.counted = row.counted /\ admitted.admittedAt = clock
  BY <1>1 DEF Rows
<1> DEFINE entered == Entered(r, admitted)
<1>8. /\ entered.stage \in {"handling", "answered"} /\ entered.now = row.now
      /\ entered.counted = row.counted /\ entered.admittedAt = clock
  <2>1. entered = Entered(r, admitted)
    OBVIOUS
  <2> HIDE DEF admitted, entered
  <2>2. /\ entered.stage \in {"handling", "answered"} /\ entered.now = admitted.now
        /\ entered.counted = admitted.counted /\ entered.admittedAt = admitted.admittedAt
    BY <1>7, <2>1, EnteredFields
  <2>3. QED
    BY <1>7, <2>2
<1>9. \/ /\ buckets' = [buckets EXCEPT ![p] = rest]
         /\ request' = [request EXCEPT ![r] = refused]
      \/ /\ Len(rest) < Limit
         /\ buckets' = [buckets EXCEPT ![p] = Append(rest, row.now)]
         /\ request' = [request EXCEPT ![r] = entered]
  <2>1. Len(rest) \in Nat /\ Limit \in Nat
    BY <1>5, RateLimiterAssumption
  <2>2. QED
    BY <2>1 DEF Admit, rest
<1> HIDE DEF refused, admitted, entered
<1>10. buckets \in [Processes -> Seq(0..MaxTime)] /\ request \in [Requests -> Rows]
  BY DEF LimiterInv, LimiterTypeOK, RunsInv
<1>11. /\ \A q \in Requests : q # r => request'[q] = request[q]
       /\ request'[r].stage \in {"handling", "answered"}
       /\ request'[r].now = request[r].now /\ request'[r].counted = request[r].counted
  BY <1>6, <1>8, <1>9, <1>10
<1>12. buckets' \in [Processes -> Seq(0..MaxTime)]
  <2>1. Append(rest, row.now) \in Seq(0..MaxTime)
    BY <1>5
  <2>2. QED
    BY <1>5, <1>9, <1>10, <2>1
<1>13. ASSUME NEW o \in Processes, o # p
       PROVE  BucketInv(o)'
  <2>1. buckets'[o] = buckets[o]
    BY <1>9, <1>10, <1>13
  <2>2. Kept(o)
    BY <1>1, <1>11, <1>13 DEF Kept
  <2>3. buckets[o] \in Seq(0..MaxTime) /\ Owned(o, buckets[o]) /\ Held(o, buckets[o])
        /\ \A from \in 0..MaxTime : Cardinality(Window(o, from)) <= Limit
    BY <1>10 DEF LimiterInv, BucketInv
  <2>4. QED
    BY <1>1, <2>1, <2>2, <2>3, BucketStays
<1>14. BucketInv(p)'
  <2>1. CASE /\ buckets' = [buckets EXCEPT ![p] = rest]
             /\ request' = [request EXCEPT ![r] = refused]
    <3>1. buckets'[p] = rest
      BY <1>1, <1>10, <2>1
    <3>2. request'[r] = refused
      BY <1>10, <2>1
    <3>3. Kept(p)
      BY <1>1, <1>6, <1>11, <3>2 DEF Kept
    <3>4. QED
      BY <1>1, <1>4, <1>5, <3>1, <3>3, BucketStays
  <2>2. CASE /\ Len(rest) < Limit
             /\ buckets' = [buckets EXCEPT ![p] = Append(rest, row.now)]
             /\ request' = [request EXCEPT ![r] = entered]
    <3>1. buckets'[p] = Append(rest, row.now)
      BY <1>1, <1>10, <2>2
    <3>2. /\ request'[r].admittedAt = clock /\ request'[r].stage # "counting"
      BY <1>8, <1>10, <2>2
    <3>3. ~ request[r].counted => Cardinality(Fresh(p, row.now)) <= Len(rest)
      <4>1. SUFFICES ASSUME ~ request[r].counted PROVE Cardinality(Fresh(p, row.now)) <= Len(rest)
        OBVIOUS
      <4>2. request[r].stage = "counting" /\ row.now <= row.now
        BY <1>1, <4>1
      <4>3. Due(p, row.now)
        BY <4>2 DEF Due
      <4>4. k + Cardinality(Fresh(p, row.now)) <= Len(bucket) + 1
        BY <1>2, <1>4, <4>3 DEF Held
      <4>5. Len(rest) = Len(bucket) + 1 - k
        BY <1>1, <1>2, EndOf
      <4>6. Cardinality(Fresh(p, row.now)) \in Nat
        BY SetsOfRequests DEF Fresh
      <4> HIDE DEF bucket
      <4>7. Len(bucket) \in Nat /\ k \in Nat
        BY <1>1
      <4>8. QED
        BY <4>4, <4>5, <4>6, <4>7
    <3> HIDE DEF bucket
    <3>4. QED
      BY <1>1, <1>3, <1>4, <1>5, <1>11, <2>2, <3>1, <3>2, <3>3, BucketGrows
  <2>3. QED
    BY <1>9, <2>1, <2>2
<1>15. QED
  BY <1>11, <1>12, <1>13, <1>14

-----------------------------------------------------------------------------
(* The counters in Redis.                                                  *)

LEMMA CountsTyped ==
    ASSUME \A m \in Minutes : CountInv(m)' /\ counts'[m] \in Nat,
           counts' = [m \in Minutes |-> counts'[m]]
    PROVE  counts' \in [Minutes -> 0..Cardinality(Requests)]
<1>1. ASSUME NEW m \in Minutes
      PROVE  counts'[m] \in 0..Cardinality(Requests)
  <2>1. Past(m)' \subseteq Requests
    BY DEF Past
  <2>2. /\ Cardinality(Past(m)') <= Cardinality(Requests)
        /\ Cardinality(Past(m)') \in Nat /\ Cardinality(Requests) \in Nat
    BY <2>1, SetsOfRequests
  <2>3. QED
    BY <2>2 DEF CountInv
<1>2. QED
  BY <1>1

\* Steps that count nobody.
LEMMA CountsStay ==
    ASSUME LimiterInv, RunsInv, NEW r \in Requests, counts' = counts,
           \A q \in Requests : q # r => request'[q] = request[q],
           request'[r].counted = request[r].counted,
           request[r].stage # "new" => request'[r].now = request[r].now,
           request[r].stage = "new" => ~ request[r].counted,
           request[r].stage \in {"handling", "answered"} =>
                 request'[r].stage \in {"handling", "answered"}
    PROVE  \A m \in Minutes : CountInv(m)'
<1>1. ASSUME NEW m \in Minutes
      PROVE  CountInv(m)'
  <2>1. CountedIn(m)' = CountedIn(m)
    BY DEF CountedIn
  <2>2. Past(m) \in SUBSET Requests /\ Past(m)' \in SUBSET Requests /\ Past(m) \subseteq Past(m)'
    BY DEF Past
  <2>3. /\ Cardinality(Past(m)) <= Cardinality(Past(m)') /\ counts[m] \in Nat
        /\ Cardinality(Past(m)) \in Nat /\ Cardinality(Past(m)') \in Nat
    BY <2>2, SetsOfRequests DEF LimiterInv, LimiterTypeOK
  <2>4. counts[m] <= Cardinality(Past(m)')
    BY <2>3 DEF LimiterInv, CountInv
  <2>5. QED
    BY <2>1, <2>4 DEF LimiterInv, CountInv
<1>2. QED
  BY <1>1

\* A request is counted, or Redis failed and may have counted it all the same.
LEMMA CountsGrow ==
    ASSUME LimiterInv, RunsInv, NEW r \in Requests, NEW mine \in Minutes,
           mine = MinuteOf(request[r].now), request[r].stage = "counting", ~ request[r].counted,
           \A q \in Requests : q # r => request'[q] = request[q],
           request'[r].now = request[r].now, request'[r].stage \in {"handling", "answered"},
           counts' = [counts EXCEPT ![mine] = @ + 1],
           request'[r].counted => counts[mine] + 1 <= Limit,
           request'[r].counted \in BOOLEAN
    PROVE  \A m \in Minutes : CountInv(m)'
<1>1. ASSUME NEW m \in Minutes
      PROVE  CountInv(m)'
  <2>1. /\ CountedIn(m) \in SUBSET Requests /\ r \notin CountedIn(m)
        /\ Past(m) \in SUBSET Requests /\ r \notin Past(m)
    BY DEF CountedIn, Past
  <2>2. /\ counts[m] \in Nat /\ counts'[m] = (IF m = mine THEN counts[m] + 1 ELSE counts[m])
        /\ Cardinality(CountedIn(m)) \in Nat /\ Cardinality(Past(m)) \in Nat
    BY <2>1, SetsOfRequests DEF LimiterInv, LimiterTypeOK
  <2>3. /\ Cardinality(CountedIn(m)) <= counts[m] /\ Cardinality(CountedIn(m)) <= Limit
        /\ counts[m] <= Cardinality(Past(m)) /\ Limit \in Nat
    BY RateLimiterAssumption DEF LimiterInv, CountInv
  <2>4. Past(m)' = IF m = mine THEN Past(m) \cup {r} ELSE Past(m)
    BY <2>1 DEF Past
  <2>5. Cardinality(Past(m)') = IF m = mine THEN Cardinality(Past(m)) + 1 ELSE Cardinality(Past(m))
    BY <2>1, <2>4, SetsOfRequests
  <2>6. CountedIn(m)' = IF m = mine /\ request'[r].counted THEN CountedIn(m) \cup {r} ELSE CountedIn(m)
    BY <2>1 DEF CountedIn
  <2>7. Cardinality(CountedIn(m)') =
            IF m = mine /\ request'[r].counted THEN Cardinality(CountedIn(m)) + 1
                                               ELSE Cardinality(CountedIn(m))
    BY <2>1, <2>6, SetsOfRequests
  <2>8. QED
    BY <2>2, <2>3, <2>5, <2>7 DEF CountInv
<1>2. QED
  BY <1>1

-----------------------------------------------------------------------------
(* The limiter's steps.                                                    *)

LEMMA LimiterInvInit == GatewayInit => LimiterInv
<1> SUFFICES ASSUME GatewayInit PROVE LimiterInv
  OBVIOUS
<1>0. /\ clock = 0 /\ counts = [m \in Minutes |-> 0] /\ buckets = [p \in Processes |-> <<>>]
      /\ \A r \in Requests : request[r] = New \/ request[r] = Absent
      /\ request \in [Requests -> Rows]
  BY RunsInit DEF GatewayInit, LimiterInit, RunsInv
<1>1. \A r \in Requests : /\ request[r].stage \in {"absent", "new"} /\ ~ request[r].counted
                          /\ request[r].admittedAt = Never
  BY <1>0 DEF New, Absent
<1>2. LimiterTypeOK
  <2>1. 0 \in 0..MaxTime /\ 0 \in 0..Cardinality(Requests)
    BY RequestsAssumption, FS_CardinalityType
  <2>2. <<>> \in Seq(0..MaxTime)
    OBVIOUS
  <2>3. QED
    BY <1>0, <2>1, <2>2 DEF LimiterTypeOK, Rows
<1>3. InLoop
  BY <1>1 DEF InLoop
<1>4. ASSUME NEW m \in Minutes
      PROVE  CountInv(m)
  <2>1. CountedIn(m) = {} /\ counts[m] = 0
    BY <1>0, <1>1 DEF CountedIn
  <2>2. Cardinality(CountedIn(m)) = 0
    BY <2>1, FS_EmptySet
  <2>3. Cardinality(Past(m)) \in Nat
    BY SetsOfRequests DEF Past
  <2>4. QED
    BY <2>1, <2>2, <2>3, RateLimiterAssumption DEF CountInv
<1>5. ASSUME NEW p \in Processes
      PROVE  BucketInv(p)
  <2>1. buckets[p] = <<>> /\ DOMAIN buckets[p] = {} /\ Len(buckets[p]) = 0
    BY <1>0
  <2>2. /\ \A time : Fresh(p, time) = {}
        /\ \A from : Window(p, from) = {}
    BY <1>1 DEF Fresh, Window
  <2>3. /\ \A time : Cardinality(Fresh(p, time)) = 0
        /\ \A from : Cardinality(Window(p, from)) = 0
    BY <2>2, FS_EmptySet
  <2>4. Owned(p, buckets[p])
    BY <2>1 DEF Owned
  <2>5. Held(p, buckets[p])
    BY <2>1, <2>3 DEF Held
  <2>6. QED
    BY <2>3, <2>4, <2>5, RateLimiterAssumption DEF BucketInv
<1>6. QED
  BY <1>2, <1>3, <1>4, <1>5 DEF LimiterInv

\* Steps that leave the buckets alone.
LEMMA BucketsStay ==
    ASSUME LimiterInv, RunsInv, RunsInv', buckets' = buckets, \A p \in Processes : Kept(p)
    PROVE  \A p \in Processes : BucketInv(p)'
<1>1. clock \in Nat /\ clock' \in Nat
  BY RequestsAssumption DEF RunsInv
<1>2. ASSUME NEW p \in Processes
      PROVE  BucketInv(p)'
  <2>1. /\ buckets[p] \in Seq(0..MaxTime) /\ Owned(p, buckets[p]) /\ Held(p, buckets[p])
        /\ \A from \in 0..MaxTime : Cardinality(Window(p, from)) <= Limit
    BY DEF LimiterInv, LimiterTypeOK, BucketInv
  <2>2. QED
    BY <1>1, <2>1, BucketStays
<1>3. QED
  BY <1>2

\* A request leaves the middleware, or its handler, with the row of a step.
LEMMA LoopStep ==
    ASSUME LimiterInv, RunsInv, NEW r \in Requests, request[r].stage \in {"counting", "handling"},
           \A q \in Requests : q # r => request'[q] = request[q],
           request'[r].stage \in {"handling", "answered"}, request'[r].now = request[r].now,
           clock' = clock
    PROVE  InLoop'
<1>1. ASSUME NEW q \in Requests, request'[q].stage \in {"counting", "handling"}
      PROVE  request'[q].now <= clock'
  BY <1>1 DEF LimiterInv, InLoop
<1>2. ASSUME NEW q \in Requests, NEW o \in Requests, process[q] = process[o],
             request'[q].stage = "counting", request'[o].stage = "counting"
      PROVE  q = o
  BY <1>2 DEF LimiterInv, InLoop
<1>3. QED
  BY <1>1, <1>2 DEF InLoop

LEMMA ArriveSound ==
    ASSUME LimiterInv, RunsInv, RunsInv', NEW r \in Requests, Arrive(r)
    PROVE  LimiterInv'
<1>1. /\ request[r].stage = "new" /\ LoopFree(r) /\ UNCHANGED <<clock, counts, buckets>>
      /\ ~ request[r].counted /\ request[r].admittedAt = Never
      /\ request \in [Requests -> Rows] /\ clock \in Nat
  BY RequestsAssumption DEF Arrive, RunsInv, RunsOf
<1>2. /\ \A q \in Requests : q # r => request'[q] = request[q]
      /\ request'[r].stage = "counting" /\ request'[r].now = clock
      /\ request'[r].counted = request[r].counted
      /\ request'[r].admittedAt = request[r].admittedAt
  <2>1. request'[r] = [request[r] EXCEPT !.stage = "counting", !.now = clock]
    BY <1>1 DEF Arrive
  <2>2. request[r] \in Rows
    BY <1>1
  <2>3. QED
    BY <1>1, <2>1, <2>2 DEF Arrive, Rows
<1>3. LimiterTypeOK'
  BY <1>1 DEF LimiterInv, LimiterTypeOK, RunsInv, Rows
<1>4. InLoop'
  <2>1. ASSUME NEW q \in Requests, request'[q].stage \in {"counting", "handling"}
        PROVE  request'[q].now <= clock'
    BY <1>1, <1>2, <2>1 DEF LimiterInv, InLoop
  <2>2. ASSUME NEW q \in Requests, NEW o \in Requests, process[q] = process[o],
               request'[q].stage = "counting", request'[o].stage = "counting"
        PROVE  q = o
    BY <1>1, <1>2, <2>2 DEF LimiterInv, InLoop, LoopFree
  <2>3. QED
    BY <2>1, <2>2 DEF InLoop
<1>5. \A m \in Minutes : CountInv(m)'
  BY <1>1, <1>2, CountsStay
<1>6. \A p \in Processes : Kept(p)
  BY <1>1, <1>2 DEF Kept
<1>7. \A p \in Processes : BucketInv(p)'
  BY <1>1, <1>6, BucketsStay
<1>8. QED
  BY <1>3, <1>4, <1>5, <1>7 DEF LimiterInv

\* The rows of requests that were counted, refused, or have an answer.
LEMMA CountSound ==
    ASSUME LimiterInv, RunsInv, RunsInv', NEW r \in Requests, Count(r)
    PROVE  LimiterInv'
<1> DEFINE mine == MinuteOf(request[r].now)
           refused == [request[r] EXCEPT !.stage = "answered", !.answer = "429"]
           let == [request[r] EXCEPT !.counted = TRUE]
           entered == Entered(r, let)
<1>1. /\ request[r].stage = "counting" /\ ~ request[r].counted /\ request[r].admittedAt = Never
      /\ request[r] \in Rows /\ clock \in Nat /\ request[r].now \in 0..MaxTime
      /\ request \in [Requests -> Rows]
  <2>1. request[r].stage = "counting" /\ request[r] \in Rows /\ clock \in 0..MaxTime
    BY DEF Count, RunsInv
  <2>2. request[r].now <= clock /\ request[r].now \in Nat /\ MaxTime \in Nat
    BY <2>1, RequestsAssumption DEF LimiterInv, InLoop, Rows
  <2>3. QED
    BY <2>1, <2>2 DEF RunsInv, RunsOf
<1>2. mine \in Minutes
  BY <1>1, MinutesOfTimes
<1>3. /\ counts' = [counts EXCEPT ![mine] = @ + 1] /\ UNCHANGED <<clock, buckets>>
      /\ request' = [request EXCEPT ![r] = IF counts[mine] + 1 > Limit THEN refused ELSE entered]
  BY DEF Count, Incr, Answered
<1>4. /\ refused.stage = "answered" /\ refused.now = request[r].now /\ ~ refused.counted
      /\ refused.admittedAt = Never
  BY <1>1 DEF Rows
<1>5. /\ let \in Rows /\ let.now = request[r].now /\ let.counted /\ let.admittedAt = Never
  BY <1>1 DEF Rows
<1>6. /\ entered.stage \in {"handling", "answered"} /\ entered.now = request[r].now
      /\ entered.counted /\ entered.admittedAt = Never
  <2>1. entered = Entered(r, let)
    OBVIOUS
  <2> HIDE DEF let, entered
  <2>2. /\ entered.stage \in {"handling", "answered"} /\ entered.now = let.now
        /\ entered.counted = let.counted /\ entered.admittedAt = let.admittedAt
    BY <1>5, <2>1, EnteredFields
  <2>3. QED
    BY <1>5, <2>2
<1> HIDE DEF mine, refused, let, entered
<1>7. /\ \A q \in Requests : q # r => request'[q] = request[q]
      /\ request'[r] = IF counts[mine] + 1 > Limit THEN refused ELSE entered
  BY <1>1, <1>3
<1>8. /\ request'[r].stage \in {"handling", "answered"} /\ request'[r].now = request[r].now
      /\ request'[r].admittedAt = Never
      /\ request'[r].counted => ~ (counts[mine] + 1 > Limit)
      /\ request'[r].counted \in BOOLEAN
  <2>1. request'[r] \in Rows
    BY DEF RunsInv
  <2>2. request'[r].counted \in BOOLEAN
    BY <2>1 DEF Rows
  <2>3. QED
    BY <1>4, <1>6, <1>7, <2>2
<1>9. \A m \in Minutes : CountInv(m)'
  <2>1. counts[mine] \in Nat /\ Limit \in Nat
    BY <1>2, RateLimiterAssumption DEF LimiterInv, LimiterTypeOK
  <2>2. request'[r].counted => counts[mine] + 1 <= Limit
    BY <1>8, <2>1
  <2>3. mine = MinuteOf(request[r].now)
    BY DEF mine
  <2>4. QED
    BY <1>1, <1>2, <1>3, <1>7, <1>8, <2>2, <2>3, CountsGrow
<1>10. LimiterTypeOK'
  <2>1. counts' = [m \in Minutes |-> counts'[m]]
    BY <1>3 DEF LimiterInv, LimiterTypeOK
  <2>2. \A m \in Minutes : counts'[m] \in Nat
    BY <1>2, <1>3 DEF LimiterInv, LimiterTypeOK
  <2>3. counts' \in [Minutes -> 0..Cardinality(Requests)]
    BY <1>9, <2>1, <2>2, CountsTyped
  <2>4. QED
    BY <1>3, <2>3 DEF LimiterInv, LimiterTypeOK, RunsInv, Rows
<1>11. InLoop'
  BY <1>1, <1>3, <1>7, <1>8, LoopStep
<1>12. \A p \in Processes : Kept(p)
  BY <1>1, <1>3, <1>7, <1>8 DEF Kept
<1>13. \A p \in Processes : BucketInv(p)'
  BY <1>3, <1>12, BucketsStay
<1>14. QED
  BY <1>9, <1>10, <1>11, <1>13 DEF LimiterInv

LEMMA CountFailsSound ==
    ASSUME LimiterInv, RunsInv, RunsInv', NEW r \in Requests, CountFails(r)
    PROVE  LimiterInv'
<1> DEFINE mine == MinuteOf(request[r].now)
<1>1. /\ request[r].stage = "counting" /\ ~ request[r].counted /\ request[r].admittedAt = Never
      /\ request[r] \in Rows /\ request[r].now <= clock /\ request[r].now \in 0..MaxTime
  <2>1. request[r].stage = "counting" /\ request[r] \in Rows /\ clock \in 0..MaxTime
    BY DEF CountFails, RunsInv
  <2>2. request[r].now <= clock /\ request[r].now \in Nat /\ MaxTime \in Nat
    BY <2>1, RequestsAssumption DEF LimiterInv, InLoop, Rows
  <2>3. QED
    BY <2>1, <2>2 DEF RunsInv, RunsOf
<1>2. mine \in Minutes
  BY <1>1, MinutesOfTimes
<1>3. /\ counts' = counts \/ counts' = [counts EXCEPT ![mine] = @ + 1]
      /\ Admit(r, request[r]) /\ clock' = clock
  BY DEF CountFails, Incr
<1>4. /\ buckets' \in [Processes -> Seq(0..MaxTime)]
      /\ \A p \in Processes : BucketInv(p)'
      /\ \A q \in Requests : q # r => request'[q] = request[q]
      /\ request'[r].stage \in {"handling", "answered"}
      /\ request'[r].now = request[r].now /\ request'[r].counted = request[r].counted
  BY <1>1, <1>3, AdmitSound
<1> HIDE DEF mine
<1>5. \A m \in Minutes : CountInv(m)'
  <2>1. CASE counts' = counts
    BY <1>1, <1>4, <2>1, CountsStay
  <2>2. CASE counts' = [counts EXCEPT ![mine] = @ + 1]
    <3>1. mine = MinuteOf(request[r].now)
      BY DEF mine
    <3>2. request'[r] \in Rows
      BY DEF RunsInv
    <3>3. request'[r].counted \in BOOLEAN
      BY <3>2 DEF Rows
    <3>4. ~ request'[r].counted
      BY <1>1, <1>4
    <3>5. QED
      BY <1>1, <1>2, <1>4, <2>2, <3>1, <3>3, <3>4, CountsGrow
  <2>3. QED
    BY <1>3, <2>1, <2>2
<1>6. LimiterTypeOK'
  <2>1. counts' = [m \in Minutes |-> counts'[m]]
    BY <1>3 DEF LimiterInv, LimiterTypeOK
  <2>2. \A m \in Minutes : counts'[m] \in Nat
    BY <1>2, <1>3 DEF LimiterInv, LimiterTypeOK
  <2>3. counts' \in [Minutes -> 0..Cardinality(Requests)]
    BY <1>5, <2>1, <2>2, CountsTyped
  <2>4. QED
    BY <1>3, <1>4, <2>3 DEF LimiterInv, LimiterTypeOK, RunsInv, Rows
<1>7. InLoop'
  BY <1>1, <1>3, <1>4, LoopStep
<1>8. QED
  BY <1>4, <1>5, <1>6, <1>7 DEF LimiterInv

\* The handler ends without another run: nothing changes but its answer.
LEMMA EndSound ==
    ASSUME LimiterInv, RunsInv, RunsInv', NEW r \in Requests, request[r].stage = "handling",
           NEW row, row.stage = "answered", row.now = request[r].now,
           row.counted = request[r].counted, row.admittedAt = request[r].admittedAt,
           request' = [request EXCEPT ![r] = row], UNCHANGED <<clock, counts, buckets>>
    PROVE  LimiterInv'
<1>1. /\ \A q \in Requests : q # r => request'[q] = request[q]
      /\ request'[r] = row /\ clock \in Nat
  BY RequestsAssumption DEF RunsInv
<1>2. LimiterTypeOK'
  BY DEF LimiterInv, LimiterTypeOK, RunsInv, Rows
<1>3. InLoop'
  BY <1>1, LoopStep
<1>4. \A m \in Minutes : CountInv(m)'
  BY <1>1, CountsStay
<1>5. \A p \in Processes : Kept(p)
  BY <1>1 DEF Kept
<1>6. \A p \in Processes : BucketInv(p)'
  BY <1>5, BucketsStay
<1>7. QED
  BY <1>2, <1>3, <1>4, <1>6 DEF LimiterInv

LEMMA ReturnsSound ==
    ASSUME LimiterInv, RunsInv, RunsInv', NEW r \in Requests, HandlerReturns(r)
    PROVE  LimiterInv'
<1> DEFINE row == [request[r] EXCEPT !.stage = "answered", !.answer = "returned"]
<1>1. /\ row.stage = "answered" /\ row.now = request[r].now
      /\ row.counted = request[r].counted /\ row.admittedAt = request[r].admittedAt
  <2>1. request[r] \in Rows
    BY DEF RunsInv
  <2>2. QED
    BY <2>1 DEF Rows
<1>2. /\ request[r].stage = "handling" /\ request' = [request EXCEPT ![r] = row]
      /\ UNCHANGED <<clock, counts, buckets>>
  BY DEF HandlerReturns, Answered
<1> HIDE DEF row
<1>3. QED
  BY <1>1, <1>2, EndSound

\* Only a request that Redis let in is started over, and it still has its stamp.
LEMMA RaisesSound ==
    ASSUME LimiterInv, RunsInv, RunsInv', NEW r \in Requests, HandlerRaises(r)
    PROVE  LimiterInv'
<1> DEFINE row == [request[r] EXCEPT !.failed = TRUE]
           ended == [row EXCEPT !.stage = "answered", !.answer = "500"]
<1>1. /\ request[r] \in Rows /\ request[r].stage = "handling" /\ LoopFree(r)
      /\ UNCHANGED <<clock, counts>> /\ request[r].now <= clock
      /\ request[r].now \in 0..MaxTime
  <2>1. request[r].stage = "handling" /\ request[r] \in Rows /\ clock \in 0..MaxTime
    BY DEF HandlerRaises, RunsInv
  <2>2. request[r].now <= clock /\ request[r].now \in Nat /\ MaxTime \in Nat
    BY <2>1, RequestsAssumption DEF LimiterInv, InLoop, Rows
  <2>3. QED
    BY <2>1, <2>2 DEF HandlerRaises
<1>2. /\ row \in Rows /\ row.now = request[r].now /\ row.counted = request[r].counted
      /\ row.admittedAt = request[r].admittedAt
  BY <1>1 DEF Rows
<1>3. /\ ended.stage = "answered" /\ ended.now = request[r].now
      /\ ended.counted = request[r].counted /\ ended.admittedAt = request[r].admittedAt
  BY <1>1 DEF Rows
<1>4. \/ row.counted /\ row.admittedAt = Never /\ Admit(r, row)
      \/ request' = [request EXCEPT ![r] = ended] /\ UNCHANGED buckets
  BY DEF HandlerRaises
<1> HIDE DEF row, ended
<1>5. CASE row.counted /\ row.admittedAt = Never /\ Admit(r, row)
  <2>1. /\ buckets' \in [Processes -> Seq(0..MaxTime)]
        /\ \A p \in Processes : BucketInv(p)'
        /\ \A q \in Requests : q # r => request'[q] = request[q]
        /\ request'[r].stage \in {"handling", "answered"}
        /\ request'[r].now = request[r].now /\ request'[r].counted = request[r].counted
    BY <1>1, <1>2, <1>5, AdmitSound
  <2>2. \A m \in Minutes : CountInv(m)'
    BY <1>1, <2>1, CountsStay
  <2>3. InLoop'
    BY <1>1, <2>1, LoopStep
  <2>4. LimiterTypeOK'
    BY <1>1, <2>1 DEF LimiterInv, LimiterTypeOK, RunsInv, Rows
  <2>5. QED
    BY <2>1, <2>2, <2>3, <2>4 DEF LimiterInv
<1>6. CASE request' = [request EXCEPT ![r] = ended] /\ UNCHANGED buckets
  BY <1>1, <1>3, <1>6, EndSound
<1>7. QED
  BY <1>4, <1>5, <1>6

\* Time passes, or somebody works on the keys.
LEMMA ElsewhereSound ==
    ASSUME LimiterInv, RunsInv, RunsInv', UNCHANGED <<counts, buckets, request>>, clock <= clock'
    PROVE  LimiterInv'
<1>1. clock \in Nat /\ clock' \in Nat
  BY RequestsAssumption DEF RunsInv
<1>2. LimiterTypeOK'
  BY DEF LimiterInv, LimiterTypeOK, RunsInv, Rows
<1>3. InLoop'
  <2>1. ASSUME NEW q \in Requests, request[q].stage \in {"counting", "handling"}
        PROVE  request[q].now <= clock'
    <3>1. request[q].now \in Nat /\ request[q].now <= clock
      BY <2>1, RequestsAssumption DEF LimiterInv, InLoop, RunsInv, Rows
    <3>2. QED
      BY <1>1, <3>1
  <2>2. QED
    BY <2>1 DEF LimiterInv, InLoop
<1>4. \A m \in Minutes : CountInv(m)'
  BY DEF LimiterInv, CountInv, CountedIn, Past
<1>5. \A p \in Processes : Kept(p)
  BY DEF Kept
<1>6. \A p \in Processes : BucketInv(p)'
  BY <1>5, BucketsStay
<1>7. QED
  BY <1>2, <1>3, <1>4, <1>6 DEF LimiterInv

LEMMA LimiterStep ==
    ASSUME LimiterInv, RunsInv, RunsInv', [GatewayNext]_gatewayVars
    PROVE  LimiterInv'
<1>1. clock \in Nat
  BY RequestsAssumption DEF RunsInv
<1>2. CASE Passes
  BY <1>1, <1>2, ElsewhereSound DEF Passes, Tick
<1>3. CASE Rotates \/ UNCHANGED gatewayVars \/ \E r \in Requests : Verifies(r)
  <2>1. UNCHANGED <<clock, counts, buckets, request>>
    BY <1>3
       DEF Rotates, Rotate, gatewayVars, limiterVars, Verifies, GetKeys, Look, Fetch,
           FetchFails, Store
  <2>2. QED
    BY <1>1, <2>1, ElsewhereSound
<1>4. ASSUME NEW r \in Requests, Limits(r) \/ Ends(r)
      PROVE  LimiterInv'
  BY <1>4, ArriveSound, CountSound, CountFailsSound, ReturnsSound, RaisesSound DEF Limits, Ends
<1>5. QED
  BY <1>2, <1>3, <1>4 DEF GatewayNext, Step

LEMMA AlwaysLimiterInv == GatewaySpec => [](LimiterInv /\ RunsInv)
<1>1. GatewayInit => LimiterInv /\ RunsInv
  BY LimiterInvInit, RunsInit
<1>2. LimiterInv /\ RunsInv /\ [GatewayNext]_gatewayVars => (LimiterInv /\ RunsInv)'
  BY LimiterStep, RunsStep
<1>3. QED
  BY <1>1, <1>2, PTL DEF GatewaySpec

\* Counters never exceed the client's requests, and buckets hold times.
THEOREM GatewayTypeCorrect == GatewaySpec => []TypeOK
<1>1. LimiterInv /\ KeysTypeOK => TypeOK
  BY DEF LimiterInv, TypeOK
<1>2. QED
  BY <1>1, AlwaysLimiterInv, GatewayImplementsKeys, KeysTypeCorrect, PTL

\* Whatever fails in between and in whatever order stamps come to a bucket:
\* Redis lets in no more than Limit requests of a minute, and a process no more
\* than Limit that arrived in any minute, of those that Redis had not counted.
THEOREM AdmissionsWithinLimit == GatewaySpec => []AdmittedWithinLimit
<1>1. LimiterInv => AdmittedWithinLimit
  BY DEF LimiterInv, CountInv, BucketInv, CountedIn, Window, AdmittedWithinLimit
<1>2. QED
  BY <1>1, AlwaysLimiterInv, PTL

-----------------------------------------------------------------------------
(* Requests that are turned away.                                          *)

\* What AdmittedWithinLimit allows for, seen from the request refused.
Reason(r) ==
    LET others == Requests \ {r}
        now    == request[r].now
    IN  \/ Limit <= Cardinality({q \in others :
                        /\ request[q].stage \in {"handling", "answered"}
                        /\ MinuteOf(request[q].now) = MinuteOf(now)})
        \/ Limit <= Cardinality({q \in others :
                        /\ process[q] = process[r]
                        /\ request[q].admittedAt # Never
                        /\ now < request[q].admittedAt + Minute})

LEMMA RefusedByRedis ==
    ASSUME LimiterInv, RunsInv, NEW r \in Requests, Count(r),
           request'[r].answer = "429", request[r].answer # "429"
    PROVE  Reason(r)
<1> DEFINE mine == MinuteOf(request[r].now)
           let == [request[r] EXCEPT !.counted = TRUE]
<1>1. /\ request[r].stage = "counting" /\ request[r] \in Rows
      /\ request \in [Requests -> Rows] /\ mine \in Minutes
  <2>1. request[r].stage = "counting" /\ request[r] \in Rows /\ clock \in 0..MaxTime
    BY DEF Count, RunsInv
  <2>2. request[r].now <= clock /\ request[r].now \in Nat /\ MaxTime \in Nat
    BY <2>1, RequestsAssumption DEF LimiterInv, InLoop, Rows
  <2>3. request[r].now \in 0..MaxTime
    BY <2>1, <2>2
  <2>4. QED
    BY <2>1, <2>3, MinutesOfTimes DEF RunsInv
<1>2. counts[mine] + 1 > Limit
  <2>1. SUFFICES ASSUME ~ (counts[mine] + 1 > Limit) PROVE FALSE
    OBVIOUS
  <2>2. request'[r] = Entered(r, let)
    BY <1>1, <2>1 DEF Count
  <2>3. let \in Rows /\ let.answer = request[r].answer
    BY <1>1 DEF Rows
  <2> HIDE DEF let
  <2>4. QED
    BY <2>2, <2>3, EnteredFields
<1> DEFINE past == {q \in Requests \ {r} : /\ request[q].stage \in {"handling", "answered"}
                                           /\ MinuteOf(request[q].now) = MinuteOf(request[r].now)}
<1>3. past = Past(mine)
  BY <1>1 DEF Past
<1> HIDE DEF mine
<1>4. counts[mine] <= Cardinality(Past(mine)) /\ counts[mine] \in Nat /\ Cardinality(Past(mine)) \in Nat
  BY <1>1, SetsOfRequests DEF LimiterInv, LimiterTypeOK, CountInv, Past
<1> HIDE DEF past
<1>5. Limit <= Cardinality(past)
  BY <1>2, <1>3, <1>4, RateLimiterAssumption
<1>6. QED
  BY <1>5 DEF Reason, past

LEMMA RefusedByProcess ==
    ASSUME LimiterInv, RunsInv, NEW r \in Requests, CountFails(r),
           request'[r].answer = "429", request[r].answer # "429"
    PROVE  Reason(r)
<1> DEFINE p == process[r]
           bucket == buckets[p]
           now == request[r].now
           rest == Popped(bucket, now)
           admitted == [request[r] EXCEPT !.admittedAt = clock]
<1>1. /\ p \in Processes /\ bucket \in Seq(0..MaxTime) /\ now \in Nat
      /\ request[r] \in Rows /\ request[r].admittedAt = Never /\ request[r].stage = "counting"
      /\ clock \in 0..MaxTime /\ request \in [Requests -> Rows]
  BY RequestsAssumption DEF CountFails, LimiterInv, LimiterTypeOK, RunsInv, RunsOf, Rows
<1>2. PICK k \in 1..(Len(bucket) + 1) :
          First(bucket, now, k) /\ rest = SubSeq(bucket, k, Len(bucket))
  BY <1>1, PoppedFrom
<1>3. Limit <= Len(rest)
  <2>1. SUFFICES ASSUME ~ (Len(rest) >= Limit) PROVE FALSE
    <3> HIDE DEF rest
    <3>1. Len(rest) \in Nat
      BY <1>1, <1>2, EndOf
    <3>2. QED
      BY <3>1, RateLimiterAssumption
  <2>2. request'[r] = Entered(r, admitted)
    BY <1>1, <2>1 DEF CountFails, Admit
  <2>3. admitted \in Rows /\ admitted.answer = request[r].answer
    BY <1>1 DEF Rows
  <2> HIDE DEF admitted
  <2>4. QED
    BY <2>2, <2>3, EnteredFields
<1> HIDE DEF rest, admitted
<1> DEFINE fresh == {q \in Requests \ {r} : /\ process[q] = process[r]
                                            /\ request[q].admittedAt # Never
                                            /\ request[r].now < request[q].admittedAt + Minute}
<1>4. Cardinality(fresh) \in Nat
  BY SetsOfRequests
<1>5. Len(rest) = Len(bucket) + 1 - k /\ Len(bucket) \in Nat /\ k \in Nat
  BY <1>1, <1>2, EndOf
<1>6. CASE k = Len(bucket) + 1
  <2>1. Limit <= Cardinality(fresh)
    <3> HIDE DEF fresh, bucket
    <3>1. QED
      BY <1>3, <1>4, <1>5, <1>6, RateLimiterAssumption
  <2>2. QED
    BY <2>1 DEF Reason
<1>7. CASE k # Len(bucket) + 1
  <2>1. k \in 1..Len(bucket) /\ k <= Len(bucket)
    BY <1>5, <1>7
  <2>2. bucket[k] \in Nat /\ now < bucket[k] + Minute
    BY <1>1, <1>2, <2>1, RequestsAssumption DEF First
  <2>3. Len(bucket) + 1 <= k + Cardinality(Since(p, bucket[k]))
    <3>1. k \in DOMAIN buckets[p]
      BY <1>1, <2>1
    <3>2. QED
      BY <1>1, <3>1 DEF LimiterInv, BucketInv, Owned
  <2>4. Since(p, bucket[k]) \subseteq fresh
    <3>1. ASSUME NEW q \in Since(p, bucket[k])
          PROVE  q # r /\ now < request[q].admittedAt + Minute
      <4>1. request[q].admittedAt \in Nat /\ bucket[k] <= request[q].admittedAt /\ q # r
        BY <1>1, RequestsAssumption DEF Since, Rows, Never
      <4>2. QED
        BY <1>1, <2>2, <4>1, RateLimiterAssumption
    <3>2. QED
      BY <3>1 DEF Since
  <2>5. /\ Cardinality(Since(p, bucket[k])) <= Cardinality(fresh)
        /\ Cardinality(Since(p, bucket[k])) \in Nat
    <3>1. Since(p, bucket[k]) \in SUBSET Requests /\ fresh \in SUBSET Requests
      BY DEF Since
    <3> HIDE DEF fresh
    <3>2. QED
      BY <2>4, <3>1, SetsOfRequests
  <2> DEFINE c == Cardinality(Since(p, bucket[k]))
  <2>6. Len(bucket) + 1 <= k + c /\ c <= Cardinality(fresh) /\ c \in Nat
    BY <2>3, <2>5
  <2>7. Limit <= Cardinality(fresh)
    <3> HIDE DEF c, fresh, bucket
    <3>1. QED
      BY <1>3, <1>4, <1>5, <2>6, RateLimiterAssumption
  <2>8. QED
    BY <2>7 DEF Reason
<1>8. QED
  BY <1>6, <1>7

LEMMA RefusedStep ==
    ASSUME LimiterInv, RunsInv, [GatewayNext]_gatewayVars, NEW r \in Requests,
           request'[r].answer = "429", request[r].answer # "429", request[r].runs = 0
    PROVE  Reason(r)
<1>1. request \in [Requests -> Rows] /\ request[r] \in Rows /\ request'[r] # request[r]
  BY DEF RunsInv
<1>2. ~ (UNCHANGED request)
  BY <1>1
<1>3. PICK q \in Requests : Limits(q) \/ Ends(q)
  BY <1>2 DEF GatewayNext, gatewayVars, limiterVars, Passes, Tick, Rotates, Rotate, Step, Verifies
<1>4. request' = [request EXCEPT ![q] = request'[q]]
  BY <1>1, <1>3 DEF Limits, Ends, Arrive, Count, CountFails, HandlerReturns, HandlerRaises, Admit
<1>5. q = r
  BY <1>1, <1>4
<1>6. ~ Arrive(r)
  BY <1>1 DEF Arrive, Rows
<1>7. ~ HandlerReturns(r)
  <2>1. SUFFICES ASSUME HandlerReturns(r) PROVE FALSE
    OBVIOUS
  <2>2. request'[r] = [request[r] EXCEPT !.stage = "answered", !.answer = "returned"]
    BY <1>1, <2>1 DEF HandlerReturns, Answered
  <2>3. request'[r].answer = "returned"
    BY <1>1, <2>2 DEF Rows
  <2>4. QED
    BY <2>3
<1>8. ~ HandlerRaises(r)
  <2>1. RunsOf(r, request[r])
    BY DEF RunsInv
  <2>2. request[r].stage # "handling"
    BY <2>1 DEF RunsOf
  <2>3. QED
    BY <2>2 DEF HandlerRaises
<1>9. QED
  BY <1>3, <1>5, <1>6, <1>7, <1>8, RefusedByRedis, RefusedByProcess DEF Limits, Ends

\* A request is turned away before its handler ran only for as many others as
\* the limit, let in within its minute of the shared counter or admitted by its
\* process within the last minute, whatever Redis counted before it failed and
\* in whatever order the stamps are.
THEOREM RefusalsHaveReasons == GatewaySpec => RefusedForReason
<1>1. LimiterInv /\ RunsInv /\ [GatewayNext]_gatewayVars =>
          [\A r \in Requests :
               request'[r].answer = "429" /\ request[r].answer # "429" /\ request[r].runs = 0 =>
                   LET others == Requests \ {r}
                       now    == request[r].now
                   IN  \/ Limit <= Cardinality({q \in others :
                                       /\ request[q].stage \in {"handling", "answered"}
                                       /\ MinuteOf(request[q].now) = MinuteOf(now)})
                       \/ Limit <= Cardinality({q \in others :
                                       /\ process[q] = process[r]
                                       /\ request[q].admittedAt # Never
                                       /\ now < request[q].admittedAt + Minute})]_limiterVars
  BY RefusedStep DEF Reason
<1>2. QED
  BY <1>1, AlwaysLimiterInv, PTL DEF GatewaySpec, RefusedForReason
=============================================================================
