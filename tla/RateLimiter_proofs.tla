-------------------------- MODULE RateLimiter_proofs --------------------------
(***************************************************************************)
(* The limiter in memory keeps its bound for every limit, duration and     *)
(* expiration, under every order of requests, clean-ups and ticks; the one *)
(* in Redis exceeds it by no more than two requests per other goroutine.   *)
(***************************************************************************)
EXTENDS RateLimiter, FiniteSetTheorems, TLAPS

\* Requests let through that the queue no longer holds.
Forgotten == Len(accepted) - Len(queue)

Typed ==
  /\ redis \in BOOLEAN /\ clock \in Nat
  /\ queue \in Seq(Nat) /\ accepted \in Seq(Nat)

\* The queue holds the last times at which requests were let through.
Suffix ==
  /\ Len(queue) <= maxRequestNum /\ Len(queue) <= Len(accepted)
  /\ \A i \in 1..Len(queue) : queue[i] = accepted[Forgotten + i]

Ordered ==
  /\ \A i \in 1..Len(accepted) : accepted[i] <= clock
  /\ \A i, j \in 1..Len(accepted) : i <= j => accepted[i] <= accepted[j]

\* What a queue with room left has forgotten is too old to count.
Stale == Len(queue) < maxRequestNum => \A i \in 1..Forgotten : clock - accepted[i] >= duration

Kept == Suffix /\ Ordered /\ Stale /\ Spaced(maxRequestNum)
LimiterInv == Typed /\ (~redis => Kept)

\* Nothing is kept or counted before the first request.
LEMMA InitKept == Init => LimiterInv
  BY LimiterAssumption DEF Init, LimiterInv, Typed, Kept, Suffix, Ordered, Stale, Spaced, Forgotten

\* A request is let through: the times grow by the present one.
LEMMA AcceptGrows ==
  ASSUME Typed, Accept
  PROVE  /\ accepted' \in Seq(Nat) /\ Len(accepted') = Len(accepted) + 1
         /\ accepted'[Len(accepted) + 1] = clock
         /\ \A i \in 1..Len(accepted) : accepted'[i] = accepted[i]
  BY DEF Typed, Accept

LEMMA AcceptOrdered ==
  ASSUME Typed, Ordered, Accept, clock' = clock
  PROVE  Ordered'
<1> DEFINE n == Len(accepted)
<1>0. n \in Nat /\ Len(accepted') = n + 1 /\ accepted'[n + 1] = clock /\ clock \in Nat
      /\ \A i \in 1..n : accepted'[i] = accepted[i]
  BY AcceptGrows DEF Typed
<1> HIDE DEF n
<1>1. ASSUME NEW i \in 1..n + 1 PROVE accepted'[i] <= clock
  <2>1. CASE i = n + 1
    BY <1>0, <2>1
  <2>2. CASE i # n + 1
    <3>1. i \in 1..n
      BY <1>0, <2>2
    <3>2. QED
      BY <1>0, <3>1 DEF Ordered, n
  <2>3. QED
    BY <2>1, <2>2
<1>2. ASSUME NEW i \in 1..n + 1, NEW j \in 1..n + 1, i <= j
      PROVE  accepted'[i] <= accepted'[j]
  <2>1. CASE j = n + 1
    BY <1>0, <1>1, <2>1
  <2>2. CASE j # n + 1
    <3>1. i \in 1..n /\ j \in 1..n
      BY <1>0, <1>2, <2>2
    <3>2. QED
      BY <1>0, <1>2, <3>1 DEF Ordered, n
  <2>3. QED
    BY <2>1, <2>2
<1>3. QED
  BY <1>0, <1>1, <1>2 DEF Ordered

\* A request answered 429 leaves what was let through.
LEMMA SameKept ==
  ASSUME Kept, clock' = clock, queue' = queue, accepted' = accepted
  PROVE  Kept'
  BY DEF Kept, Suffix, Ordered, Stale, Spaced, Forgotten

LEMMA TickKept ==
  ASSUME Typed, Kept, ~redis, Tick
  PROVE  Kept'
<1>1. clock' = clock + 1 /\ queue' = queue /\ accepted' = accepted
  BY DEF Tick, log
<1>2. Suffix' /\ Spaced(maxRequestNum)'
  BY <1>1 DEF Kept, Suffix, Spaced, Forgotten
<1>3. Ordered'
  BY <1>1 DEF Typed, Kept, Ordered
<1>4. Stale'
  <2>1. ASSUME Len(queue) < maxRequestNum, NEW i \in 1..Forgotten
        PROVE  clock' - accepted'[i] >= duration
    <3>1. accepted[i] \in Nat /\ clock \in Nat /\ duration \in Nat
      BY LimiterAssumption DEF Typed, Kept, Suffix, Forgotten
    <3>2. clock - accepted[i] >= duration
      BY <2>1 DEF Kept, Stale
    <3>3. QED
      BY <1>1, <3>1, <3>2
  <2>2. Forgotten' = Forgotten
    BY <1>1 DEF Forgotten
  <2>3. Len(queue') < maxRequestNum => \A i \in 1..Forgotten' : clock' - accepted'[i] >= duration
    BY <1>1, <2>1, <2>2
  <2>4. QED
    BY <2>3 DEF Stale
<1>5. QED
  BY <1>2, <1>3, <1>4 DEF Kept

\* Room is left: what the new request is measured against is forgotten, so old.
LEMMA RoomKept ==
  ASSUME Typed, Kept, clock' = clock, Len(queue) < maxRequestNum,
         queue' = Append(queue, clock), Accept
  PROVE  Kept'
<1>1. queue' \in Seq(Nat) /\ Len(queue') = Len(queue) + 1
      /\ queue'[Len(queue) + 1] = clock /\ \A i \in 1..Len(queue) : queue'[i] = queue[i]
  BY DEF Typed
<1> DEFINE n == Len(accepted)
           k == Len(queue)
<1>2. n \in Nat /\ k \in Nat /\ k <= n /\ maxRequestNum \in Nat \ {0} /\ duration \in Nat
  BY LimiterAssumption DEF Typed, Kept, Suffix
<1>3. Len(accepted') = n + 1 /\ Len(queue') = k + 1 /\ Forgotten' = Forgotten
  BY <1>1, <1>2, AcceptGrows DEF Forgotten
<1>4. Suffix'
  <2>1. ASSUME NEW i \in 1..k + 1 PROVE queue'[i] = accepted'[Forgotten + i]
    <3>1. CASE i = k + 1
      BY <1>1, <1>2, <3>1, AcceptGrows DEF Forgotten
    <3>2. CASE i # k + 1
      <4>1. i \in 1..k /\ Forgotten + i \in 1..n
        BY <1>2, <3>2 DEF Forgotten
      <4>2. QED
        BY <1>1, <4>1, AcceptGrows DEF Kept, Suffix
    <3>3. QED
      BY <3>1, <3>2
  <2>2. QED
    BY <1>2, <1>3, <2>1 DEF Suffix
<1>5. Stale'
  <2>1. ASSUME NEW i \in 1..Forgotten PROVE clock - accepted'[i] >= duration
    <3>1. i \in 1..n
      BY <1>2 DEF Forgotten
    <3>2. QED
      BY <3>1, AcceptGrows DEF Kept, Stale
  <2>2. QED
    BY <1>3, <2>1 DEF Stale
<1>6. Spaced(maxRequestNum)'
  <2>1. ASSUME NEW i \in 1..n + 1 - maxRequestNum
        PROVE  accepted'[i + maxRequestNum] - accepted'[i] >= duration
    <3>1. i \in 1..n /\ i \in 1..Forgotten
      BY <1>2 DEF Forgotten
    <3>2. CASE i = n + 1 - maxRequestNum
      <4>1. accepted'[i + maxRequestNum] = clock
        BY <1>2, <3>2, AcceptGrows
      <4>2. QED
        BY <3>1, <4>1, AcceptGrows DEF Kept, Stale
    <3>3. CASE i # n + 1 - maxRequestNum
      <4>1. i \in 1..n - maxRequestNum /\ i + maxRequestNum \in 1..n
        BY <1>2, <3>3
      <4>2. QED
        BY <3>1, <4>1, AcceptGrows DEF Kept, Spaced
    <3>4. QED
      BY <1>1, <3>2, <3>3
  <2>2. QED
    BY <1>2, <1>3, <2>1 DEF Spaced
<1>7. QED
  BY <1>4, <1>5, <1>6, AcceptOrdered DEF Kept

\* The queue is full: the new request is measured against its oldest time.
LEMMA FullKept ==
  ASSUME Typed, Kept, clock' = clock, Len(queue) >= maxRequestNum, clock - Head(queue) >= duration,
         queue' = Append(Tail(queue), clock), Accept
  PROVE  Kept'
<1> DEFINE n == Len(accepted)
           m == maxRequestNum
<1>1. n \in Nat /\ m \in Nat \ {0} /\ m <= n /\ Len(queue) = m /\ duration \in Nat
  BY LimiterAssumption DEF Typed, Kept, Suffix
<1>2. Tail(queue) \in Seq(Nat) /\ Len(Tail(queue)) = m - 1
      /\ \A i \in 1..m - 1 : Tail(queue)[i] = queue[i + 1]
  BY <1>1 DEF Typed
<1>3. queue' \in Seq(Nat) /\ Len(queue') = m /\ queue'[m] = clock
      /\ \A i \in 1..m - 1 : queue'[i] = queue[i + 1]
  BY <1>1, <1>2 DEF Typed
<1>4. Len(accepted') = n + 1 /\ Forgotten = n - m /\ Forgotten' = n + 1 - m
  <2>1. Len(accepted') = n + 1
    BY AcceptGrows
  <2>2. Len(queue') = m /\ Len(queue) = m
    BY <1>1, <1>3
  <2>3. Forgotten = n - m
    BY <2>2 DEF Forgotten
  <2>4. Forgotten' = n + 1 - m
    <3>1. PICK a, q : a = Len(accepted') /\ q = Len(queue')
      OBVIOUS
    <3>2. Forgotten' = a - q
      BY <3>1 DEF Forgotten
    <3>3. a = n + 1 /\ q = m
      BY <2>1, <2>2, <3>1
    <3>4. QED
      BY <1>1, <3>2, <3>3
  <2>5. QED
    BY <2>1, <2>3, <2>4
<1>5. Suffix'
  <2>1. ASSUME NEW i \in 1..m PROVE queue'[i] = accepted'[n + 1 - m + i]
    <3>1. CASE i = m
      BY <1>1, <1>3, <3>1, AcceptGrows
    <3>2. CASE i # m
      <4>1. i \in 1..m - 1 /\ i + 1 \in 1..Len(queue) /\ n - m + (i + 1) \in 1..n
            /\ n - m + (i + 1) = n + 1 - m + i
        BY <1>1, <3>2
      <4>2. queue'[i] = accepted[n - m + (i + 1)]
        BY <1>3, <1>4, <4>1 DEF Kept, Suffix
      <4>3. QED
        BY <4>1, <4>2, AcceptGrows
    <3>3. QED
      BY <3>1, <3>2
  <2>2. QED
    BY <1>1, <1>3, <1>4, <2>1 DEF Suffix
<1>6. Stale'
  BY <1>1, <1>3 DEF Stale
<1>7. Spaced(m)'
  <2>1. ASSUME NEW i \in 1..n + 1 - m
        PROVE  accepted'[i + m] - accepted'[i] >= duration
    <3>1. i \in 1..n
      BY <1>1
    <3>2. CASE i = n + 1 - m
      <4>1. accepted'[i + m] = clock
        BY <1>1, <3>2, AcceptGrows
      <4>2. Head(queue) = queue[1] /\ 1 \in 1..Len(queue) /\ Forgotten + 1 = i
        BY <1>1, <1>4, <3>2 DEF Typed
      <4>3. Head(queue) = accepted[i]
        BY <4>2 DEF Kept, Suffix
      <4>4. QED
        BY <3>1, <4>1, <4>3, AcceptGrows
    <3>3. CASE i # n + 1 - m
      <4>1. i \in 1..n - m /\ i + m \in 1..n
        BY <1>1, <3>3
      <4>2. QED
        BY <3>1, <4>1, AcceptGrows DEF Kept, Spaced
    <3>4. QED
      BY <1>1, <3>2, <3>3
  <2>2. QED
    BY <1>1, <1>4, <2>1 DEF Spaced
<1>8. QED
  BY <1>5, <1>6, <1>7, AcceptOrdered DEF Kept

\* A key is dropped when its newest time is older than the expiration, and the
\* duration is no longer than that.
LEMMA ClearKept ==
  ASSUME Typed, Kept, clearExpiredItems
  PROVE  Kept'
<1> DEFINE n == Len(accepted)
           k == Len(queue)
<1>1. clock' = clock /\ accepted' = accepted /\ queue' = <<>> /\ clock - queue[k] > Expiration /\ queue # <<>>
  BY DEF clearExpiredItems, log
<1>2. n \in Nat /\ k \in Nat \ {0} /\ k <= n /\ maxRequestNum \in Nat \ {0}
      /\ duration \in Nat /\ Expiration \in Nat /\ duration <= Expiration
  BY <1>1, LimiterAssumption DEF Typed, Kept, Suffix
<1>3. Len(queue') = 0 /\ Forgotten' = n
  BY <1>1, <1>2 DEF Forgotten
<1>4. queue[k] = accepted[n]
  BY <1>2 DEF Kept, Suffix, Forgotten
<1>5. ASSUME NEW i \in 1..n PROVE clock - accepted[i] >= duration
  <2>1. accepted[i] <= accepted[n] /\ accepted[i] \in Nat /\ accepted[n] \in Nat
    BY <1>2 DEF Typed, Kept, Ordered
  <2>2. clock \in Nat /\ clock - accepted[n] > Expiration
    BY <1>1, <1>4 DEF Typed
  <2> HIDE DEF n, k
  <2>3. QED
    BY <1>2, <2>1, <2>2
<1>6. Suffix'
  BY <1>1, <1>2, <1>3 DEF Suffix
<1>7. Stale'
  BY <1>1, <1>3, <1>5 DEF Stale
<1>8. Ordered' /\ Spaced(maxRequestNum)'
  BY <1>1 DEF Kept, Ordered, Spaced
<1>9. QED
  BY <1>6, <1>7, <1>8 DEF Kept

\* With Redis the invariant asks for types only; without it, every step keeps it.
LEMMA NextKept ==
  ASSUME LimiterInv, [Next]_vars
  PROVE  LimiterInv'
<1> USE DEF LimiterInv
<1>1. CASE Tick
  <2>1. Typed'
    <3>1. redis' = redis /\ clock' = clock + 1 /\ accepted' = accepted
      BY <1>1 DEF Tick, log
    <3>2. queue' = queue \/ queue' = <<>>
      BY <1>1 DEF Tick
    <3>3. clock' \in Nat
      BY <3>1 DEF Typed
    <3>4. queue' \in Seq(Nat)
      <4>1. <<>> \in Seq(Nat)
        OBVIOUS
      <4>2. QED
        BY <3>2, <4>1, Zenon DEF Typed
    <3>5. QED
      BY <3>1, <3>3, <3>4 DEF Typed
  <2>2. QED
    BY <1>1, <2>1, TickKept DEF Tick
<1>2. CASE Request
  <2>1. ~redis /\ redis' = redis /\ clock' = clock
    BY <1>2 DEF Request
  <2>2. CASE Len(queue) < maxRequestNum /\ queue' = Append(queue, clock) /\ Accept
    BY <2>1, <2>2, AcceptGrows, RoomKept DEF Typed
  <2>3. CASE /\ Len(queue) >= maxRequestNum /\ clock - Head(queue) >= duration
             /\ queue' = Append(Tail(queue), clock) /\ Accept
    <3>1. queue' \in Seq(Nat)
      BY <2>1, <2>3, LimiterAssumption DEF Typed
    <3>2. QED
      BY <2>1, <2>3, <3>1, AcceptGrows, FullKept DEF Typed
  <2>4. CASE UNCHANGED queue /\ Refuse
    BY <2>1, <2>4, SameKept DEF Typed, Refuse
  <2>5. QED
    BY <1>2, <2>2, <2>3, <2>4 DEF Request
<1>3. CASE clearExpiredItems
  <2>1. Typed'
    BY <1>3 DEF clearExpiredItems, Typed, log
  <2>2. QED
    BY <1>3, <2>1, ClearKept DEF clearExpiredItems
<1>4. ASSUME NEW p \in Procs, Llen(p) \/ Lindex(p) \/ Compare(p) \/ Lpush(p) \/ Ltrim(p) \/ Expire(p) \/ CommandFails(p)
      PROVE  LimiterInv'
  <2>1. redis /\ redis' = redis /\ clock' = clock
    BY <1>4 DEF Llen, Lindex, Compare, Lpush, Ltrim, Expire, CommandFails, At
  <2>2. CASE Llen(p) \/ Lindex(p) \/ Expire(p)
    BY <2>1, <2>2 DEF Llen, Lindex, Expire, Typed, log
  <2>3. CASE Compare(p)
    BY <2>1, <2>3 DEF Compare, Refuse, Typed, log
  <2>4. CASE Lpush(p)
    BY <2>1, <2>4 DEF Lpush, Accept, Typed
  <2>5. CASE Ltrim(p)
    <3>1. Newest(queue) \in Seq(Nat)
      <4>1. CASE Len(queue) <= maxRequestNum
        BY <4>1 DEF Newest, Typed
      <4>2. CASE ~(Len(queue) <= maxRequestNum)
        <5>1. /\ Len(queue) \in Nat /\ Len(queue) - maxRequestNum + 1 \in 1..Len(queue) + 1
              /\ \A i \in 1..Len(queue) : queue[i] \in Nat
          BY <4>2, LimiterAssumption DEF Typed
        <5>2. QED
          BY <4>2, <5>1 DEF Newest, Typed
      <4>3. QED
        BY <4>1, <4>2
    <3>2. QED
      BY <2>1, <2>5, <3>1 DEF Ltrim, Typed, log
  <2>6. CASE CommandFails(p)
    <3>1. queue' = queue
      BY <2>6 DEF CommandFails
    <3>2. Accept \/ accepted' = accepted
      BY <2>6 DEF CommandFails, log
    <3>3. QED
      BY <2>1, <3>1, <3>2, AcceptGrows DEF Typed
  <2>7. QED
    BY <1>4, <2>2, <2>3, <2>4, <2>5, <2>6
<1>5. CASE UNCHANGED vars
  BY <1>5, SameKept DEF vars, Typed, log
<1>6. QED
  BY <1>1, <1>2, <1>3, <1>4, <1>5 DEF Next

\* What the limiter in memory remembers is the end of what it let through, and what
\* it has forgotten is too old to count, in every state.
THEOREM LimiterRemembers == Spec => []LimiterInv
<1>1. Init => LimiterInv
  BY InitKept
<1>2. LimiterInv /\ [Next]_vars => LimiterInv'
  BY NextKept
<1>3. QED
  BY <1>1, <1>2, PTL DEF Spec

\* InMemoryRateLimiter.Request never lets more than maxRequestNum requests of a key
\* through within duration seconds, whatever the limit, the duration and the
\* expiration (not shorter than the duration) are.
THEOREM MemoryWindow == Spec => []WindowBound
<1>1. LimiterInv => WindowBound
  BY DEF LimiterInv, Kept, WindowBound
<1>2. QED
  BY <1>1, LimiterRemembers, PTL

-----------------------------------------------------------------------------
(* Requests that are answered 429. *)

Times == {accepted[i] : i \in 1..Len(accepted)}
Recent(r) == {i \in 1..r[2] : r[1] - accepted[i] < duration}
Enough == IF redis THEN 1 ELSE maxRequestNum

\* Whatever the list in Redis holds, and what a request has read of it, is the time of a
\* request that was let through.
Known ==
  /\ DOMAIN pc = Procs /\ DOMAIN oldTime = Procs
  /\ \A i \in 1..Len(queue) : queue[i] \in Times
  /\ \A p \in Procs : pc[p] = "compare" => oldTime[p] \in Times

\* Every refusal is of a time and of a number of requests already let through, enough of
\* them recent.
Caused ==
  \A r \in refused : /\ r[1] \in Nat /\ r[2] \in 0..Len(accepted)
                     /\ Cardinality(Recent(r)) >= Enough

\* What is let through later changes nothing for a refusal.
LEMMA CauseStays ==
  ASSUME Typed, Caused, redis' = redis, accepted' = accepted \/ Accept, NEW r \in refused
  PROVE  /\ r[1] \in Nat /\ r[2] \in 0..Len(accepted')
         /\ Cardinality(Recent(r)') >= Enough'
<1>1. /\ Len(accepted) \in Nat /\ Len(accepted') \in Nat /\ Len(accepted) <= Len(accepted')
      /\ \A i \in 1..Len(accepted) : accepted'[i] = accepted[i]
  BY AcceptGrows DEF Typed
<1>2. r[1] \in Nat /\ r[2] \in 0..Len(accepted) /\ Cardinality(Recent(r)) >= Enough
  BY DEF Caused
<1>3. \A i \in 1..r[2] : accepted'[i] = accepted[i]
  BY <1>1, <1>2
<1>4. Recent(r)' = Recent(r) /\ Enough' = Enough
  BY <1>3 DEF Recent, Enough
<1> QED
  BY <1>1, <1>2, <1>4

LEMMA TimesStay ==
  ASSUME Typed, accepted' = accepted \/ Accept
  PROVE  Times \subseteq Times' /\ (Accept => clock \in Times')
<1>1. /\ Len(accepted) \in Nat /\ Len(accepted') \in Nat /\ Len(accepted) <= Len(accepted')
      /\ \A i \in 1..Len(accepted) : accepted'[i] = accepted[i]
  BY AcceptGrows DEF Typed
<1>2. Accept => Len(accepted') = Len(accepted) + 1 /\ accepted'[Len(accepted) + 1] = clock
  BY AcceptGrows
<1> QED
  BY <1>1, <1>2 DEF Times

\* In memory a request is refused when the oldest of maxRequestNum times is recent.
LEMMA RefusedInMemory ==
  ASSUME Typed, Kept, Len(queue) >= maxRequestNum, ~(clock - Head(queue) >= duration)
  PROVE  Cardinality(Recent(<<clock, Len(accepted)>>)) >= maxRequestNum
<1> DEFINE n == Len(accepted)
           m == maxRequestNum
           r == <<clock, n>>
           last == n - m + 1..n
<1>1. n \in Nat /\ m \in Nat \ {0} /\ m <= n /\ Len(queue) = m /\ duration \in Nat /\ clock \in Nat
  BY LimiterAssumption DEF Typed, Kept, Suffix
<1>2. Head(queue) = queue[1] /\ 1 \in 1..Len(queue) /\ Forgotten + 1 = n - m + 1
  BY <1>1 DEF Typed, Forgotten
<1>3. Head(queue) = accepted[n - m + 1]
  BY <1>2 DEF Kept, Suffix
<1>4. ASSUME NEW i \in last PROVE i \in 1..n /\ clock - accepted[i] < duration
  <2>1. i \in 1..n /\ n - m + 1 \in 1..n /\ n - m + 1 <= i
    BY <1>1
  <2>2. accepted[n - m + 1] <= accepted[i]
    BY <2>1 DEF Kept, Ordered
  <2>3. accepted[i] \in Nat /\ accepted[n - m + 1] \in Nat
    BY <2>1 DEF Typed
  <2> QED
    BY <1>1, <1>3, <2>1, <2>2, <2>3
<1>5. last \in SUBSET Recent(r)
  BY <1>4 DEF Recent
<1>6. IsFiniteSet(1..n) /\ Recent(r) \in SUBSET (1..n)
  BY <1>1, FS_Interval DEF Recent
<1>7. IsFiniteSet(Recent(r))
  BY <1>6, FS_Subset
<1>8. Cardinality(last) = m
  BY <1>1, FS_Interval
<1>9. Cardinality(last) <= Cardinality(Recent(r)) /\ Cardinality(Recent(r)) \in Nat
  BY <1>5, <1>7, FS_Subset, FS_CardinalityType
<1> QED
  BY <1>1, <1>8, <1>9

\* In Redis it is refused for the one time that it has read.
LEMMA RefusedInRedis ==
  ASSUME Typed, Known, NEW p \in Procs, pc[p] = "compare", clock - oldTime[p] < duration
  PROVE  Cardinality(Recent(<<clock, Len(accepted)>>)) >= 1
<1> DEFINE n == Len(accepted)
           r == <<clock, n>>
<1>1. PICK i \in 1..n : oldTime[p] = accepted[i]
  BY DEF Known, Times
<1>2. n \in Nat /\ {i} \in SUBSET Recent(r)
  BY <1>1 DEF Typed, Recent
<1>3. IsFiniteSet(1..n) /\ Recent(r) \in SUBSET (1..n)
  BY <1>2, FS_Interval DEF Recent
<1>4. IsFiniteSet(Recent(r))
  BY <1>3, FS_Subset
<1>5. Cardinality({i}) = 1
  BY FS_Singleton
<1>6. Cardinality({i}) <= Cardinality(Recent(r)) /\ Cardinality(Recent(r)) \in Nat
  BY <1>2, <1>4, FS_Subset, FS_CardinalityType
<1> QED
  BY <1>5, <1>6

\* A step that refuses nobody.
LEMMA NoneRefused ==
  ASSUME Typed, Caused, redis' = redis, accepted' = accepted \/ Accept, refused' = refused
  PROVE  Caused'
<1>1. \A r \in refused : /\ r[1] \in Nat /\ r[2] \in 0..Len(accepted')
                         /\ Cardinality(Recent(r)') >= Enough'
  BY CauseStays
<1> QED
  BY <1>1 DEF Caused, Recent

LEMMA OneRefused ==
  ASSUME Typed, Caused, redis' = redis, Refuse,
         Cardinality(Recent(<<clock, Len(accepted)>>)) >= Enough
  PROVE  Caused'
<1> PICK q : q = <<clock, Len(accepted)>>
  OBVIOUS
<1>1. \A r \in refused : /\ r[1] \in Nat /\ r[2] \in 0..Len(accepted')
                         /\ Cardinality(Recent(r)') >= Enough'
  BY CauseStays DEF Refuse
<1>2. accepted' = accepted /\ refused' = refused \cup {q}
  BY DEF Refuse
<1>3. q[1] \in Nat /\ q[2] \in 0..Len(accepted)
  BY DEF Typed
<1>4. Recent(q)' = Recent(q) /\ Enough' = Enough
  BY <1>2 DEF Recent, Enough
<1>5. Cardinality(Recent(q)') >= Enough'
  BY <1>4
<1>6. \A r \in refused' : /\ r[1] \in Nat /\ r[2] \in 0..Len(accepted')
                          /\ Cardinality(Recent(r)') >= Enough'
  BY <1>1, <1>2, <1>3, <1>5
<1> QED
  BY <1>6 DEF Caused, Recent

\* The list and what was read of it, after the steps that change neither what was let
\* through nor the list except by forgetting.
LEMMA KnownStep ==
  ASSUME LimiterInv, Known, [Next]_vars
  PROVE  Known'
<1> USE DEF Known
<1>0. Typed
  BY DEF LimiterInv
<1>1. ASSUME accepted' = accepted, UNCHANGED local,
             \A i \in 1..Len(queue') : queue'[i] \in Times
      PROVE  Known'
  BY <1>0, <1>1, TimesStay DEF local
<1>2. CASE Tick \/ clearExpiredItems \/ UNCHANGED vars
  <2>1. accepted' = accepted /\ UNCHANGED local /\ (queue' = queue \/ queue' = <<>>)
    BY <1>2 DEF Tick, clearExpiredItems, vars, log
  <2> QED
    BY <1>1, <2>1
<1>3. CASE Request
  <2>1. UNCHANGED local /\ ~redis /\ clock' = clock
    BY <1>3 DEF Request
  <2>2. CASE UNCHANGED queue /\ Refuse
    BY <1>1, <2>1, <2>2 DEF Refuse
  <2>3. CASE Accept
    <3>1. Times \subseteq Times' /\ clock \in Times'
      BY <1>0, <2>3, TimesStay
    <3>2. ASSUME NEW i \in 1..Len(queue') PROVE queue'[i] \in Times'
      <4>1. CASE queue' = Append(queue, clock)
        BY <1>0, <3>1, <3>2, <4>1 DEF Typed
      <4>2. CASE Len(queue) >= maxRequestNum /\ queue' = Append(Tail(queue), clock)
        <5>1. Len(queue) \in Nat \ {0} /\ queue # <<>>
          BY <1>0, <4>2, LimiterAssumption DEF Typed
        <5>2. Tail(queue) \in Seq(Nat) /\ Len(Tail(queue)) = Len(queue) - 1
              /\ \A k \in 1..Len(queue) - 1 : Tail(queue)[k] = queue[k + 1]
          BY <1>0, <5>1 DEF Typed
        <5>3. CASE i = Len(queue)
          BY <1>0, <3>1, <4>2, <5>1, <5>2, <5>3 DEF Typed
        <5>4. CASE i # Len(queue)
          <6>1. i \in 1..Len(queue) - 1 /\ queue'[i] = Tail(queue)[i] /\ i + 1 \in 1..Len(queue)
            BY <1>0, <3>2, <4>2, <5>1, <5>2, <5>4 DEF Typed
          <6> QED
            BY <3>1, <5>2, <6>1
        <5> QED
          BY <5>3, <5>4
      <4> QED
        BY <1>3, <2>3, <4>1, <4>2, <3>1, <3>2 DEF Request, Accept
    <3> QED
      BY <2>1, <3>1, <3>2 DEF local
  <2> QED
    BY <1>3, <2>2, <2>3 DEF Request
<1>4. ASSUME NEW p \in Procs, Llen(p) \/ Expire(p) PROVE Known'
  <2>1. accepted' = accepted /\ queue' = queue /\ oldTime' = oldTime
    BY <1>4 DEF Llen, Expire, log
  <2>2. \A q \in Procs : pc'[q] = "compare" => pc[q] = "compare"
    BY <1>4 DEF Llen, Expire, Goto
  <2>3. DOMAIN pc' = Procs
    BY <1>4 DEF Llen, Expire, Goto
  <2> QED
    BY <1>0, <2>1, <2>2, <2>3, TimesStay
<1>5. ASSUME NEW p \in Procs, Lindex(p) PROVE Known'
  <2>1. accepted' = accepted /\ queue' = queue
    BY <1>5 DEF Lindex, log
  <2>2. CASE queue = <<>>
    BY <1>0, <1>5, <2>1, <2>2, TimesStay DEF Lindex, Goto
  <2>3. CASE queue # <<>>
    <3>1. Head(queue) \in Times
      <4>1. 1 \in 1..Len(queue) /\ Head(queue) = queue[1]
        BY <1>0, <2>3 DEF Typed
      <4> QED
        BY <4>1
    <3>2. pc' = [pc EXCEPT ![p] = "compare"] /\ oldTime' = [oldTime EXCEPT ![p] = Head(queue)]
      BY <1>5, <2>3 DEF Lindex, Goto
    <3>3. Times' = Times
      BY <2>1 DEF Times
    <3> QED
      BY <2>1, <3>1, <3>2, <3>3
  <2> QED
    BY <2>2, <2>3
<1>6. ASSUME NEW p \in Procs, Compare(p) PROVE Known'
  <2>1. accepted' = accepted /\ queue' = queue /\ oldTime' = oldTime
    BY <1>6 DEF Compare, log, Refuse
  <2>2. pc' = [pc EXCEPT ![p] = "expire"] \/ pc' = [pc EXCEPT ![p] = "push_trim"]
    BY <1>6 DEF Compare, Goto
  <2> QED
    BY <1>0, <2>1, <2>2, TimesStay
<1>7. ASSUME NEW p \in Procs, Lpush(p) PROVE Known'
  <2>1. Times \subseteq Times' /\ clock \in Times'
    BY <1>0, <1>7, TimesStay DEF Lpush
  <2>2. \A i \in 1..Len(queue') : queue'[i] \in Times'
    BY <1>0, <1>7, <2>1 DEF Lpush, Typed
  <2>3. oldTime' = oldTime /\ DOMAIN pc' = Procs
        /\ \A q \in Procs : pc'[q] = "compare" => pc[q] = "compare"
    BY <1>7 DEF Lpush, Goto
  <2> QED
    BY <2>1, <2>2, <2>3
<1>8. ASSUME NEW p \in Procs, Ltrim(p) PROVE Known'
  <2>1. accepted' = accepted /\ oldTime' = oldTime /\ queue' = Newest(queue)
        /\ pc' = [pc EXCEPT ![p] = "expire"]
    BY <1>8 DEF Ltrim, log, Goto
  <2>2. \A i \in 1..Len(queue') : queue'[i] \in Times
    <3>1. CASE Len(queue) <= maxRequestNum
      BY <2>1, <3>1 DEF Newest
    <3>2. CASE ~(Len(queue) <= maxRequestNum)
      <4> DEFINE b == Len(queue) - maxRequestNum + 1
      <4>1. b \in 1..Len(queue) + 1 /\ Len(queue) \in Nat /\ maxRequestNum \in Nat \ {0}
        BY <1>0, <3>2, LimiterAssumption DEF Typed
      <4>2. queue' = SubSeq(queue, b, Len(queue))
        BY <2>1, <3>2 DEF Newest
      <4>3. ASSUME NEW i \in 1..Len(queue') PROVE queue'[i] \in Times
        <5>1. Len(queue') = maxRequestNum /\ queue'[i] = queue[b + i - 1] /\ b + i - 1 \in 1..Len(queue)
          BY <1>0, <4>1, <4>2, <4>3 DEF Typed
        <5> QED
          BY <5>1
      <4> QED
        BY <4>3
    <3> QED
      BY <3>1, <3>2
  <2> QED
    BY <1>0, <2>1, <2>2, TimesStay
<1>9. ASSUME NEW p \in Procs, CommandFails(p) PROVE Known'
  <2>1. /\ queue' = queue /\ oldTime' = oldTime /\ DOMAIN pc' = Procs
        /\ accepted' = accepted \/ Accept
        /\ \A q \in Procs : pc'[q] = "compare" => pc[q] = "compare"
    BY <1>9 DEF CommandFails, Goto, log
  <2> QED
    BY <1>0, <2>1, TimesStay
<1> QED
  BY <1>2, <1>3, <1>4, <1>5, <1>6, <1>7, <1>8, <1>9 DEF Next

LEMMA CausedStep ==
  ASSUME LimiterInv, Known, Caused, [Next]_vars
  PROVE  Caused'
<1>0. Typed
  BY DEF LimiterInv
<1>1. CASE Tick \/ clearExpiredItems \/ UNCHANGED vars
  <2>1. redis' = redis /\ accepted' = accepted /\ refused' = refused
    BY <1>1 DEF Tick, clearExpiredItems, vars, log
  <2> QED
    BY <1>0, <2>1, NoneRefused
<1>2. CASE Request
  <2>1. ~redis /\ redis' = redis
    BY <1>2 DEF Request
  <2>2. CASE Accept
    BY <1>0, <2>1, <2>2, NoneRefused DEF Accept
  <2>3. CASE Len(queue) >= maxRequestNum /\ ~(clock - Head(queue) >= duration) /\ Refuse
    BY <1>0, <2>1, <2>3, RefusedInMemory, OneRefused DEF LimiterInv, Enough
  <2> QED
    BY <1>2, <2>2, <2>3 DEF Request
<1>3. ASSUME NEW p \in Procs, Compare(p) PROVE Caused'
  <2>1. redis /\ redis' = redis /\ pc[p] = "compare"
    BY <1>3 DEF Compare, At
  <2>2. CASE clock - oldTime[p] < duration
    BY <1>0, <1>3, <2>1, <2>2, RefusedInRedis, OneRefused DEF Compare, Enough
  <2>3. CASE ~(clock - oldTime[p] < duration)
    BY <1>0, <1>3, <2>1, <2>3, NoneRefused DEF Compare, log
  <2> QED
    BY <2>2, <2>3
<1>4. ASSUME NEW p \in Procs,
             Llen(p) \/ Lindex(p) \/ Lpush(p) \/ Ltrim(p) \/ Expire(p) \/ CommandFails(p)
      PROVE  Caused'
  <2>1. redis' = redis /\ refused' = refused /\ (accepted' = accepted \/ Accept)
    BY <1>4 DEF Llen, Lindex, Lpush, Ltrim, Expire, CommandFails, log, Accept
  <2> QED
    BY <1>0, <2>1, NoneRefused
<1> QED
  BY <1>1, <1>2, <1>3, <1>4 DEF Next

\* A request is answered 429 only when requests of its key were let through within the
\* duration, maxRequestNum of them in memory and at least one with Redis, whatever the
\* order of commands, ticks, expiries and failures (InMemoryRateLimiter.Request,
\* redisRateLimiter).
THEOREM Refusals == Spec => []RefusedWithCause
<1>1. Init => Known /\ Caused
  BY DEF Init, Known, Caused
<1>2. LimiterInv /\ Known /\ Caused /\ [Next]_vars => (Known /\ Caused)'
  BY KnownStep, CausedStep
<1>3. Caused => RefusedWithCause
  BY DEF Caused, RefusedWithCause, Recent, Enough
<1> QED
  BY <1>1, <1>2, <1>3, LimiterRemembers, PTL DEF Spec

-----------------------------------------------------------------------------
(* What Redis lets through in excess, as long as no command fails and the key does not  *)
(* expire under a request.                                                              *)

Sound == redis /\ faults = 0 /\ ~torn
N == Cardinality(Procs)
Most == maxRequestNum + 2 * (N - 1)

StepTyped ==
  /\ pc \in [Procs -> {"idle", "push", "lindex", "compare", "push_trim", "trim", "expire"}]
  /\ oldTime \in [Procs -> Nat \cup {Never}]
  /\ \A p \in Procs : pc[p] = "compare" => oldTime[p] \in Nat
  /\ deadline \in Nat \cup {Never} /\ faults \in Nat

\* The list holds the last times, however many.
Held ==
  /\ Len(queue) <= Len(accepted)
  /\ \A i \in 1..Len(queue) : queue[i] = accepted[Forgotten + i]

\* The key outlives its newest time by the expiration, or somebody will see to it.
Dated ==
  queue # <<>> => \/ \E p \in Procs : pc[p] \in {"trim", "expire"}
                  \/ deadline # Never /\ deadline >= accepted[Len(accepted)] + Expiration

\* The last of the goroutines that saw room in the list has not pushed yet only while
\* there is room.
SomeBarred == Len(queue) >= maxRequestNum => \E p \in Procs : pc[p] # "push"

Pushers == {q \in Procs : pc[q] = "push"}

\* The goroutines that may still let a request through by an old time, with respect to
\* the requests from the i-th on: those that have read one from before it or, while the
\* list begins before it, all but those that are about to trim the list.
Late(i) ==
  IF i <= Forgotten + 1
  THEN {q \in Procs : pc[q] = "push_trim" \/ (pc[q] = "compare" /\ oldTime[q] < accepted[i])}
  ELSE {q \in Procs : pc[q] # "trim"}

\* The requests let through from the i-th on, and those that may follow.
Since(i) == Len(accepted) - i + 1
Counted(i) == Since(i) + Cardinality(Pushers) + Cardinality(Late(i))
Full(i) == clock - accepted[i] < duration /\ Since(i) >= maxRequestNum

\* From the time that a duration holds maxRequestNum requests, those let through and
\* those that may follow come to no more than the bound.
Potential == \A i \in 1..Len(accepted) : Full(i) => Counted(i) <= Most

OvershootInv ==
  /\ Typed /\ StepTyped
  /\ Sound => Held /\ Ordered /\ Stale /\ Dated /\ SomeBarred /\ Potential /\ Spaced(Most)

\* A set of goroutines is finite and no larger than all of them, and smaller by each that
\* it lacks.
LEMMA Processes ==
  /\ N \in Nat \ {0} /\ maxRequestNum \in Nat \ {0} /\ Most \in Nat \ {0}
  /\ \A S : S \subseteq Procs =>
       /\ IsFiniteSet(S) /\ Cardinality(S) \in Nat /\ Cardinality(S) <= N
       /\ \A p \in Procs \ S : Cardinality(S) <= N - 1
       /\ \A p, q \in Procs \ S : p # q => Cardinality(S) <= N - 2
<1>1. IsFiniteSet(Procs) /\ Procs # {} /\ maxRequestNum \in Nat \ {0}
  BY LimiterAssumption
<1>2. N \in Nat \ {0}
  BY <1>1, FS_CardinalityType, FS_EmptySet DEF N
<1>3. Most \in Nat \ {0}
  BY <1>1, <1>2 DEF Most
<1>4. ASSUME NEW S, S \subseteq Procs
      PROVE  IsFiniteSet(S) /\ Cardinality(S) \in Nat /\ Cardinality(S) <= N
  BY <1>1, <1>4, FS_Subset, FS_CardinalityType DEF N
<1>5. ASSUME NEW S, S \subseteq Procs, NEW p \in Procs \ S
      PROVE  Cardinality(S) <= N - 1
  <2>1. IsFiniteSet(Procs \ {p}) /\ Cardinality(Procs \ {p}) = N - 1
    BY <1>1, FS_RemoveElement DEF N
  <2>2. S \in SUBSET (Procs \ {p})
    BY <1>5
  <2> QED
    BY <2>1, <2>2, FS_Subset
<1>6. ASSUME NEW S, S \subseteq Procs, NEW p \in Procs \ S, NEW q \in Procs \ S, p # q
      PROVE  Cardinality(S) <= N - 2
  <2>1. S \cup {p} \subseteq Procs /\ q \in Procs \ (S \cup {p})
    BY <1>6
  <2>2. Cardinality(S \cup {p}) <= N - 1
    BY <1>5, <2>1
  <2>3. Cardinality(S \cup {p}) = Cardinality(S) + 1 /\ Cardinality(S) \in Nat
    BY <1>4, <1>6, FS_AddElement
  <2> QED
    BY <1>2, <2>2, <2>3
<1> QED
  BY <1>1, <1>2, <1>3, <1>4, <1>5, <1>6

LEMMA InitOvershoot == Init => OvershootInv
<1> SUFFICES ASSUME Init PROVE OvershootInv
  OBVIOUS
<1>1. Len(accepted) = 0 /\ Len(queue) = 0 /\ accepted = <<>> /\ queue = <<>>
  BY DEF Init
<1>2. Typed /\ StepTyped
  BY LimiterAssumption DEF Init, Typed, StepTyped
<1>3. Held /\ Ordered /\ Stale /\ Dated /\ Potential
  BY <1>1 DEF Held, Ordered, Stale, Dated, Potential, Forgotten
<1>4. SomeBarred
  BY LimiterAssumption DEF Init, SomeBarred
<1>5. Most \in Nat
  BY Processes DEF Most
<1>6. Spaced(Most)
  BY <1>1, <1>5 DEF Spaced
<1> QED
  BY <1>2, <1>3, <1>4, <1>6 DEF OvershootInv

\* What is let through and what the list has forgotten stay: the bound of the requests
\* from the i-th on is kept when no goroutine joins those that may follow.
LEMMA PotentialStays ==
  ASSUME OvershootInv, Sound, accepted' = accepted, NEW i \in 1..Len(accepted),
         Full(i), Pushers' \subseteq Pushers, Late(i)' \subseteq Late(i)
  PROVE  Counted(i)' <= Most
<1>1. Pushers \subseteq Procs /\ Late(i) \subseteq Procs
  BY DEF Pushers, Late
<1>2. IsFiniteSet(Pushers) /\ IsFiniteSet(Late(i)) /\ Cardinality(Pushers) \in Nat /\ Cardinality(Late(i)) \in Nat
  BY <1>1, Processes
<1>3. /\ Cardinality(Pushers') <= Cardinality(Pushers) /\ Cardinality(Pushers') \in Nat
      /\ Cardinality(Late(i)') <= Cardinality(Late(i)) /\ Cardinality(Late(i)') \in Nat
  <2>1. Pushers' \in SUBSET Pushers /\ Late(i)' \in SUBSET Late(i)
    OBVIOUS
  <2> QED
    BY <1>2, <2>1, FS_Subset, FS_CardinalityType
<1>4. Since(i) \in Nat /\ Since(i)' = Since(i)
  BY DEF OvershootInv, Typed, Since
<1>5. Counted(i) <= Most /\ Most \in Nat
  BY Processes DEF OvershootInv, Potential
<1>6. Since(i) + Cardinality(Pushers) + Cardinality(Late(i)) <= Most
  BY <1>5 DEF Counted
<1>7. Counted(i)' = Since(i) + Cardinality(Pushers') + Cardinality(Late(i)')
  BY <1>4 DEF Counted
<1> QED
  BY <1>2, <1>3, <1>4, <1>5, <1>6, <1>7

\* While the list is short, no duration holds maxRequestNum requests.
LEMMA ShortIsOld ==
  ASSUME OvershootInv, Sound, NEW i \in 1..Len(accepted), Full(i)
  PROVE  /\ Len(queue) \in Nat /\ Forgotten \in Nat /\ Len(accepted) = Forgotten + Len(queue)
         /\ Len(queue) >= maxRequestNum
         /\ i > Forgotten + 1 => Len(queue) > maxRequestNum
<1> DEFINE a == Len(accepted)
           k == Len(queue)
           m == maxRequestNum
<1>1. a \in Nat /\ k \in Nat /\ k <= a /\ Forgotten = a - k /\ m \in Nat /\ i \in 1..a
  BY Processes DEF OvershootInv, Typed, Held, Forgotten
<1>2. a - i + 1 >= m /\ clock - accepted[i] < duration
  BY DEF Full, Since
<1>3. k < m => i > a - k
  <2>1. SUFFICES ASSUME k < m, ~(i > a - k) PROVE FALSE
    OBVIOUS
  <2>2. i \in 1..Forgotten
    BY <1>1, <2>1
  <2>3. clock - accepted[i] >= duration
    BY <2>1, <2>2 DEF OvershootInv, Stale
  <2>4. clock \in Nat /\ accepted[i] \in Nat /\ duration \in Nat
    BY LimiterAssumption DEF OvershootInv, Typed
  <2> QED
    BY <1>2, <2>3, <2>4
<1> HIDE DEF a, k, m
<1>4. k >= m
  BY <1>1, <1>2, <1>3
<1>5. i > a - k + 1 => k > m
  BY <1>1, <1>2
<1> QED
  BY <1>1, <1>4, <1>5 DEF a, k, m

\* Steps between commands that change neither the list nor what was let through.
LEMMA QuietStep ==
  ASSUME OvershootInv, Sound, StepTyped', Typed', accepted' = accepted, queue' = queue, clock' = clock,
         Dated', SomeBarred',
         \A i \in 1..Len(accepted) : Full(i) => Pushers' \subseteq Pushers /\ Late(i)' \subseteq Late(i)
  PROVE  Held' /\ Ordered' /\ Stale' /\ Dated' /\ SomeBarred' /\ Potential' /\ Spaced(Most)'
<1>1. Forgotten' = Forgotten
  BY DEF Forgotten
<1>2. Held' /\ Ordered' /\ Stale' /\ Spaced(Most)'
  BY <1>1 DEF OvershootInv, Held, Ordered, Stale, Spaced, Most, N
<1>3. ASSUME NEW i \in 1..Len(accepted), Full(i)' PROVE Counted(i)' <= Most
  <2>1. Full(i)
    BY <1>3 DEF Full, Since
  <2>2. Pushers' \subseteq Pushers /\ Late(i)' \subseteq Late(i)
    BY <2>1
  <2> QED
    BY <2>1, <2>2, PotentialStays
<1>4. Potential'
  BY <1>3 DEF Potential, Most, N
<1> QED
  BY <1>2, <1>4

\* LLEN: who sees room when a list is short adds to no full duration.
LEMMA LlenPotential ==
  ASSUME OvershootInv, Sound, StepTyped', Typed', NEW p \in Procs, Llen(p)
  PROVE  Held' /\ Ordered' /\ Stale' /\ Dated' /\ SomeBarred' /\ Potential' /\ Spaced(Most)'
<1>1. /\ accepted' = accepted /\ queue' = queue /\ clock' = clock /\ deadline' = deadline
      /\ oldTime' = oldTime /\ pc[p] = "idle"
      /\ pc' = [pc EXCEPT ![p] = IF Len(queue) < maxRequestNum THEN "push" ELSE "lindex"]
  BY DEF Llen, log, At, Goto
<1>2. pc \in [Procs -> {"idle", "push", "lindex", "compare", "push_trim", "trim", "expire"}]
  BY DEF OvershootInv, StepTyped
<1>3. Dated'
  <2>1. \A q \in Procs : pc[q] \in {"trim", "expire"} => pc'[q] = pc[q]
    BY <1>1, <1>2
  <2> QED
    BY <1>1, <2>1 DEF OvershootInv, Dated
<1>4. Len(queue) >= maxRequestNum => pc' = [pc EXCEPT ![p] = "lindex"]
  <2>1. Len(queue) \in Nat /\ maxRequestNum \in Nat
    BY Processes DEF OvershootInv, Typed
  <2>2. Len(queue) >= maxRequestNum => ~(Len(queue) < maxRequestNum)
    BY <2>1
  <2> QED
    BY <1>1, <2>2, Zenon
<1>5. SomeBarred'
  <2>1. Len(queue) >= maxRequestNum => pc'[p] = "lindex"
    BY <1>2, <1>4
  <2> QED
    BY <1>1, <2>1 DEF SomeBarred
<1>6. Forgotten' = Forgotten
  BY <1>1 DEF Forgotten
<1>7. ASSUME NEW i \in 1..Len(accepted), Full(i)
      PROVE  Pushers' \subseteq Pushers /\ Late(i)' \subseteq Late(i)
  <2>1. pc' = [pc EXCEPT ![p] = "lindex"]
    BY <1>4, <1>7, ShortIsOld
  <2> QED
    BY <1>1, <1>2, <1>6, <2>1 DEF Pushers, Late
<1> QED
  BY <1>1, <1>3, <1>5, <1>7, QuietStep

\* LINDEX: the oldest time on the list is no earlier than the duration's first, or the
\* goroutine was counted already.
LEMMA LindexPotential ==
  ASSUME OvershootInv, Sound, StepTyped', Typed', NEW p \in Procs, Lindex(p)
  PROVE  Held' /\ Ordered' /\ Stale' /\ Dated' /\ SomeBarred' /\ Potential' /\ Spaced(Most)'
<1>1. /\ accepted' = accepted /\ queue' = queue /\ clock' = clock /\ deadline' = deadline
      /\ pc[p] = "lindex"
      /\ \/ pc' = [pc EXCEPT ![p] = "idle"] /\ oldTime' = oldTime
         \/ /\ pc' = [pc EXCEPT ![p] = "compare"] /\ oldTime' = [oldTime EXCEPT ![p] = Head(queue)]
            /\ queue # <<>>
  BY DEF Lindex, log, At, Goto
<1>2. /\ pc \in [Procs -> {"idle", "push", "lindex", "compare", "push_trim", "trim", "expire"}]
      /\ oldTime \in [Procs -> Nat \cup {Never}]
  BY DEF OvershootInv, StepTyped
<1>3. \A q \in Procs : q # p => pc'[q] = pc[q] /\ oldTime'[q] = oldTime[q]
  BY <1>1, <1>2
<1>4. pc'[p] \in {"idle", "compare"}
  BY <1>1, <1>2
<1>5. Dated'
  <2>1. \A q \in Procs : pc[q] \in {"trim", "expire"} => pc'[q] = pc[q]
    BY <1>1, <1>3
  <2> QED
    BY <1>1, <2>1 DEF OvershootInv, Dated
<1>6. SomeBarred'
  BY <1>4 DEF SomeBarred
<1>7. Forgotten' = Forgotten
  BY <1>1 DEF Forgotten
<1>8. ASSUME NEW i \in 1..Len(accepted), Full(i)
      PROVE  Pushers' \subseteq Pushers /\ Late(i)' \subseteq Late(i)
  <2>1. Pushers' \subseteq Pushers
    BY <1>3, <1>4 DEF Pushers
  <2>2. CASE i <= Forgotten + 1
    <3>1. ~(pc'[p] = "compare" /\ oldTime'[p] < accepted[i])
      <4>1. SUFFICES ASSUME pc'[p] = "compare" PROVE ~(oldTime'[p] < accepted[i])
        OBVIOUS
      <4>2. queue # <<>> /\ oldTime'[p] = Head(queue)
        BY <1>1, <1>2, <4>1
      <4>3. Head(queue) = queue[1] /\ 1 \in 1..Len(queue)
        BY <4>2 DEF OvershootInv, Typed
      <4>4. Head(queue) = accepted[Forgotten + 1]
        BY <4>3 DEF OvershootInv, Held
      <4>5. Forgotten + 1 \in 1..Len(accepted) /\ i <= Forgotten + 1
        BY <2>2, <4>3, <1>8, ShortIsOld
      <4>6. accepted[i] <= accepted[Forgotten + 1]
        BY <4>5 DEF OvershootInv, Ordered
      <4>7. accepted[i] \in Nat /\ accepted[Forgotten + 1] \in Nat
        BY <4>5 DEF OvershootInv, Typed
      <4> QED
        BY <4>2, <4>4, <4>6, <4>7
    <3> QED
      BY <1>1, <1>3, <1>4, <1>7, <2>1, <2>2, <3>1 DEF Late
  <2>3. CASE ~(i <= Forgotten + 1)
    BY <1>1, <1>3, <1>7, <2>1, <2>3 DEF Late
  <2> QED
    BY <2>2, <2>3
<1> QED
  BY <1>1, <1>5, <1>6, <1>8, QuietStep

\* The comparison lets pass only those whose old time is before the duration.
LEMMA ComparePotential ==
  ASSUME OvershootInv, Sound, StepTyped', Typed', NEW p \in Procs, Compare(p)
  PROVE  Held' /\ Ordered' /\ Stale' /\ Dated' /\ SomeBarred' /\ Potential' /\ Spaced(Most)'
<1>1. /\ accepted' = accepted /\ queue' = queue /\ clock' = clock /\ deadline' = deadline
      /\ oldTime' = oldTime /\ pc[p] = "compare"
      /\ \/ pc' = [pc EXCEPT ![p] = "expire"]
         \/ pc' = [pc EXCEPT ![p] = "push_trim"] /\ ~(clock - oldTime[p] < duration)
  BY DEF Compare, log, At, Goto, Refuse
<1>2. pc \in [Procs -> {"idle", "push", "lindex", "compare", "push_trim", "trim", "expire"}]
  BY DEF OvershootInv, StepTyped
<1>3. \A q \in Procs : q # p => pc'[q] = pc[q]
  BY <1>1, <1>2
<1>4. pc'[p] = "expire" \/ (pc'[p] = "push_trim" /\ ~(clock - oldTime[p] < duration))
  BY <1>1, <1>2
<1>5. Dated'
  <2>1. \A q \in Procs : pc[q] \in {"trim", "expire"} => pc'[q] = pc[q]
    BY <1>1, <1>3
  <2> QED
    BY <1>1, <2>1 DEF OvershootInv, Dated
<1>6. SomeBarred'
  BY <1>4 DEF SomeBarred
<1>7. Forgotten' = Forgotten
  BY <1>1 DEF Forgotten
<1>8. ASSUME NEW i \in 1..Len(accepted), Full(i)
      PROVE  Pushers' \subseteq Pushers /\ Late(i)' \subseteq Late(i)
  <2>1. Pushers' \subseteq Pushers
    BY <1>3, <1>4 DEF Pushers
  <2>2. CASE i <= Forgotten + 1
    <3>1. pc'[p] = "push_trim" => oldTime[p] < accepted[i]
      <4>1. /\ clock \in Nat /\ accepted[i] \in Nat /\ duration \in Nat /\ oldTime[p] \in Nat
            /\ clock - accepted[i] < duration
        <5>1. clock \in Nat /\ accepted[i] \in Nat
          BY DEF OvershootInv, Typed
        <5>2. oldTime[p] \in Nat
          BY <1>1 DEF OvershootInv, StepTyped
        <5>3. clock - accepted[i] < duration
          BY <1>8 DEF Full
        <5> QED
          BY <5>1, <5>2, <5>3, LimiterAssumption
      <4>2. pc'[p] = "push_trim" => ~(clock - oldTime[p] < duration)
        BY <1>4
      <4> QED
        BY <4>1, <4>2
    <3> QED
      BY <1>1, <1>3, <1>4, <1>7, <2>1, <2>2, <3>1 DEF Late
  <2>3. CASE ~(i <= Forgotten + 1)
    BY <1>1, <1>3, <1>7, <2>1, <2>3 DEF Late
  <2> QED
    BY <2>2, <2>3
<1> QED
  BY <1>1, <1>5, <1>6, <1>8, QuietStep

LEMMA ExpirePotential ==
  ASSUME OvershootInv, Sound, StepTyped', Typed', NEW p \in Procs, Expire(p)
  PROVE  Held' /\ Ordered' /\ Stale' /\ Dated' /\ SomeBarred' /\ Potential' /\ Spaced(Most)'
<1>1. /\ accepted' = accepted /\ queue' = queue /\ clock' = clock
      /\ oldTime' = oldTime /\ pc[p] = "expire" /\ pc' = [pc EXCEPT ![p] = "idle"]
      /\ queue # <<>> => deadline' = clock + Expiration
  BY DEF Expire, log, At, Goto
<1>2. pc \in [Procs -> {"idle", "push", "lindex", "compare", "push_trim", "trim", "expire"}]
  BY DEF OvershootInv, StepTyped
<1>3. (\A q \in Procs : q # p => pc'[q] = pc[q]) /\ pc'[p] = "idle"
  BY <1>1, <1>2
<1>4. Dated'
  <2>1. SUFFICES ASSUME queue # <<>>
                 PROVE  deadline' # Never /\ deadline' >= accepted[Len(accepted)] + Expiration
    BY <1>1 DEF Dated
  <2>2. Len(accepted) \in 1..Len(accepted)
    <3>1. Len(queue) \in Nat \ {0} /\ Len(accepted) \in Nat /\ Len(queue) <= Len(accepted)
      BY <2>1 DEF OvershootInv, Typed, Held
    <3> QED
      BY <3>1
  <2>3. accepted[Len(accepted)] <= clock /\ accepted[Len(accepted)] \in Nat /\ clock \in Nat
    BY <2>2 DEF OvershootInv, Typed, Ordered
  <2> QED
    BY <1>1, <2>1, <2>3, LimiterAssumption
<1>5. SomeBarred'
  BY <1>3 DEF SomeBarred
<1>6. Forgotten' = Forgotten
  BY <1>1 DEF Forgotten
<1>7. ASSUME NEW i \in 1..Len(accepted), Full(i)
      PROVE  Pushers' \subseteq Pushers /\ Late(i)' \subseteq Late(i)
  BY <1>1, <1>3, <1>6 DEF Late, Pushers
<1> QED
  BY <1>1, <1>4, <1>5, <1>7, QuietStep

\* A second passes, and drops the key only when nobody is at work on it and its times
\* are all old.
LEMMA TickPotential ==
  ASSUME OvershootInv, Sound, Sound', Tick
  PROVE  Held' /\ Ordered' /\ Stale' /\ Dated' /\ SomeBarred' /\ Potential' /\ Spaced(Most)'
<1>1. /\ accepted' = accepted /\ clock' = clock + 1 /\ clock \in Nat /\ duration \in Nat
      /\ pc' = pc /\ oldTime' = oldTime /\ accepted \in Seq(Nat) /\ redis
  BY LimiterAssumption DEF Tick, local, log, OvershootInv, Typed, Sound
<1>2. \A i \in 1..Len(accepted) : clock - accepted[i] >= duration => clock' - accepted[i] >= duration
  BY <1>1
<1>3. Ordered'
  BY <1>1 DEF OvershootInv, Ordered
<1>4. Spaced(Most)'
  BY <1>1 DEF OvershootInv, Spaced, Most, N
<1>5. CASE queue' = queue /\ deadline' = deadline
  <2>1. Forgotten' = Forgotten
    BY <1>1, <1>5 DEF Forgotten
  <2>2. Held' /\ Dated' /\ SomeBarred'
    BY <1>1, <1>5, <2>1 DEF OvershootInv, Held, Dated, SomeBarred
  <2>3. Stale'
    <3>1. Forgotten \in Nat /\ Forgotten <= Len(accepted)
      BY DEF OvershootInv, Typed, Held, Forgotten
    <3> QED
      BY <1>1, <1>2, <1>5, <2>1, <3>1 DEF OvershootInv, Stale
  <2>4. ASSUME NEW i \in 1..Len(accepted), Full(i)' PROVE Counted(i)' <= Most
    <3>1. Full(i)
      BY <1>1, <2>4 DEF Full, Since
    <3>2. Pushers' = Pushers /\ Late(i)' = Late(i)
      BY <1>1, <2>1 DEF Pushers, Late
    <3> QED
      BY <1>1, <3>1, <3>2, PotentialStays
  <2>5. Potential'
    BY <1>1, <2>4 DEF Potential, Most, N
  <2> QED
    BY <1>3, <1>4, <2>2, <2>3, <2>5
<1>6. CASE /\ deadline # Never /\ clock' >= deadline /\ queue' = <<>>
           /\ torn' = (torn \/ \E p \in Procs : pc[p] # "idle")
  <2>1. \A p \in Procs : pc[p] = "idle"
    BY <1>6 DEF Sound
  <2>2. ASSUME NEW i \in 1..Len(accepted) PROVE clock' - accepted[i] >= duration
    <3>1. accepted[i] \in Nat
      BY <1>1
    <3>2. CASE queue = <<>>
      <4>1. Forgotten = Len(accepted) /\ Len(queue) < maxRequestNum
        BY <1>1, <3>2, Processes DEF Forgotten
      <4>2. clock - accepted[i] >= duration
        BY <2>2, <4>1 DEF OvershootInv, Stale
      <4> QED
        BY <1>2, <4>2
    <3>3. CASE queue # <<>>
      <4>1. deadline >= accepted[Len(accepted)] + Expiration /\ deadline \in Nat
        BY <1>6, <2>1, <3>3 DEF OvershootInv, Dated, StepTyped
      <4>2. Len(accepted) \in 1..Len(accepted) /\ i <= Len(accepted)
        BY <1>1
      <4>3. accepted[i] <= accepted[Len(accepted)] /\ accepted[Len(accepted)] \in Nat
        BY <1>1, <4>2 DEF OvershootInv, Ordered
      <4>4. clock' \in Nat /\ clock' >= deadline
        BY <1>1, <1>6
      <4>5. Expiration \in Nat /\ duration <= Expiration
        BY LimiterAssumption
      <4> QED
        BY <1>1, <3>1, <4>1, <4>3, <4>4, <4>5
    <3> QED
      BY <3>2, <3>3
  <2>3. Len(queue') = 0 /\ Forgotten' = Len(accepted)
    BY <1>1, <1>6 DEF Forgotten
  <2>4. Held' /\ Dated' /\ SomeBarred'
    BY <1>1, <1>6, <2>3, Processes DEF Held, Dated, SomeBarred
  <2>5. Stale'
    BY <1>1, <2>2, <2>3 DEF Stale
  <2>6. ASSUME NEW i \in 1..Len(accepted) PROVE ~Full(i)'
    <3>1. clock' - accepted'[i] >= duration /\ clock' \in Nat /\ accepted'[i] \in Nat
      BY <1>1, <2>2, <2>6
    <3> QED
      BY <1>1, <3>1 DEF Full
  <2>7. Potential'
    BY <1>1, <2>6 DEF Potential
  <2> QED
    BY <1>3, <1>4, <2>4, <2>5, <2>7
<1> QED
  BY <1>1, <1>5, <1>6 DEF Tick

\* What LTRIM leaves of the list.
LEMMA NewestIs ==
  ASSUME Typed, Len(queue) > maxRequestNum
  PROVE  /\ Len(Newest(queue)) = maxRequestNum
         /\ \A j \in 1..maxRequestNum : Newest(queue)[j] = queue[Len(queue) - maxRequestNum + j]
<1> DEFINE b == Len(queue) - maxRequestNum + 1
<1>1. /\ Len(queue) \in Nat /\ maxRequestNum \in Nat \ {0} /\ b \in 1..Len(queue)
      /\ queue \in Seq(Nat) /\ ~(Len(queue) <= maxRequestNum)
  BY Processes DEF Typed
<1>2. Newest(queue) = SubSeq(queue, b, Len(queue))
  BY <1>1 DEF Newest
<1> HIDE DEF b
<1>3. /\ Len(SubSeq(queue, b, Len(queue))) = Len(queue) - b + 1
      /\ \A j \in 1..Len(queue) - b + 1 : SubSeq(queue, b, Len(queue))[j] = queue[b + j - 1]
  BY <1>1
<1>4. /\ Len(queue) - b + 1 = maxRequestNum
      /\ \A j \in 1..maxRequestNum : b + j - 1 = Len(queue) - maxRequestNum + j
  BY <1>1 DEF b
<1> QED
  BY <1>2, <1>3, <1>4

\* LTRIM brings the head of the list into every full duration.
LEMMA LtrimPotential ==
  ASSUME OvershootInv, Sound, StepTyped', Typed', NEW p \in Procs, Ltrim(p)
  PROVE  Held' /\ Ordered' /\ Stale' /\ Dated' /\ SomeBarred' /\ Potential' /\ Spaced(Most)'
<1> DEFINE a == Len(accepted)
           k == Len(queue)
           m == maxRequestNum
<1>1. /\ accepted' = accepted /\ clock' = clock /\ deadline' = deadline
      /\ oldTime' = oldTime /\ pc[p] = "trim" /\ pc' = [pc EXCEPT ![p] = "expire"] /\ queue' = Newest(queue)
  BY DEF Ltrim, log, At, Goto
<1>2. pc \in [Procs -> {"idle", "push", "lindex", "compare", "push_trim", "trim", "expire"}]
  BY DEF OvershootInv, StepTyped
<1>3. (\A q \in Procs : q # p => pc'[q] = pc[q]) /\ pc'[p] = "expire"
  BY <1>1, <1>2
<1>4. Dated' /\ SomeBarred'
  BY <1>3 DEF Dated, SomeBarred
<1>5. /\ a \in Nat /\ k \in Nat /\ k <= a /\ Forgotten = a - k /\ m \in Nat \ {0}
      /\ \A i \in 1..k : queue[i] = accepted[a - k + i]
  BY Processes DEF OvershootInv, Typed, Held, Forgotten
<1>6. CASE k <= m
  <2>1. queue' = queue
    BY <1>1, <1>6 DEF Newest
  <2>2. Forgotten' = Forgotten
    BY <1>1, <2>1 DEF Forgotten
  <2>3. ASSUME NEW i \in 1..a, Full(i)
        PROVE  Pushers' \subseteq Pushers /\ Late(i)' \subseteq Late(i)
    <3>1. i <= Forgotten + 1
      <4>1. SUFFICES ASSUME ~(i <= Forgotten + 1) PROVE FALSE
        OBVIOUS
      <4>2. i > Forgotten + 1
        BY <1>5, <4>1
      <4> QED
        BY <1>5, <1>6, <2>3, <4>2, ShortIsOld
    <3> QED
      BY <1>1, <1>3, <2>2, <3>1 DEF Late, Pushers
  <2> QED
    BY <1>1, <1>4, <2>1, <2>3, QuietStep
<1>7. CASE k > m
  <2>1. Len(queue') = m /\ \A j \in 1..m : queue'[j] = queue[k - m + j]
    BY <1>1, <1>7, NewestIs DEF OvershootInv
  <2>2. Forgotten' = a - m
    BY <1>1, <2>1 DEF Forgotten
  <2>3. Held'
    <3>1. ASSUME NEW j \in 1..m PROVE queue'[j] = accepted[a - m + j]
      <4>1. k - m + j \in 1..k /\ a - k + (k - m + j) = a - m + j
        BY <1>5, <1>7
      <4> QED
        BY <1>5, <2>1, <4>1
    <3>2. m <= a
      BY <1>5, <1>7
    <3> QED
      BY <1>1, <2>1, <2>2, <3>1, <3>2 DEF Held
  <2>4. Stale'
    BY <1>5, <2>1 DEF Stale
  <2>5. Ordered' /\ Spaced(Most)'
    BY <1>1 DEF OvershootInv, Ordered, Spaced, Most, N
  <2>6. ASSUME NEW i \in 1..a, Full(i)' PROVE Counted(i)' <= Most
    <3>1. Full(i)
      BY <1>1, <2>6 DEF Full, Since
    <3>2. i <= Forgotten' + 1
      <4>1. a - i + 1 >= m
        BY <3>1 DEF Full, Since
      <4> QED
        BY <1>5, <2>2, <4>1
    <3>3. Pushers' \subseteq Pushers /\ Late(i)' \subseteq Late(i)
      BY <1>1, <1>3, <3>2 DEF Late, Pushers
    <3> QED
      BY <1>1, <3>1, <3>3, PotentialStays
  <2>7. Potential'
    BY <1>1, <2>6 DEF Potential, Most, N
  <2> QED
    BY <1>4, <2>3, <2>4, <2>5, <2>7
<1> QED
  BY <1>5, <1>6, <1>7

\* LPUSH: of the goroutines that may follow the one that lets a request through is one
\* less.  When the duration is full by this request, the goroutines that may follow are
\* all but it, once or twice.
LEMMA LpushPotential ==
  ASSUME OvershootInv, Sound, StepTyped', Typed', NEW p \in Procs, Lpush(p)
  PROVE  Held' /\ Ordered' /\ Stale' /\ Dated' /\ SomeBarred' /\ Potential' /\ Spaced(Most)'
<1> DEFINE a == Len(accepted)
           k == Len(queue)
           m == maxRequestNum
<1>1. /\ clock' = clock /\ deadline' = deadline /\ oldTime' = oldTime
      /\ \/ pc[p] = "push" /\ pc' = [pc EXCEPT ![p] = "expire"]
         \/ pc[p] = "push_trim" /\ pc' = [pc EXCEPT ![p] = "trim"]
      /\ queue' = Append(queue, clock) /\ Accept
  BY DEF Lpush, Goto
<1>2. pc \in [Procs -> {"idle", "push", "lindex", "compare", "push_trim", "trim", "expire"}]
  BY DEF OvershootInv, StepTyped
<1>3. /\ \A q \in Procs : q # p => pc'[q] = pc[q]
      /\ (pc[p] = "push" /\ pc'[p] = "expire") \/ (pc[p] = "push_trim" /\ pc'[p] = "trim")
  BY <1>1, <1>2
<1>4. /\ a \in Nat /\ k \in Nat /\ k <= a /\ Forgotten = a - k /\ m \in Nat \ {0} /\ N \in Nat \ {0}
      /\ \A i \in 1..k : queue[i] = accepted[a - k + i]
      /\ clock \in Nat /\ duration \in Nat /\ Typed
  BY Processes, LimiterAssumption DEF OvershootInv, Typed, Held, Forgotten
<1>5. /\ Len(accepted') = a + 1 /\ accepted'[a + 1] = clock /\ \A i \in 1..a : accepted'[i] = accepted[i]
      /\ Len(queue') = k + 1 /\ queue'[k + 1] = clock /\ \A i \in 1..k : queue'[i] = queue[i]
  BY <1>1, <1>4, AcceptGrows DEF Typed
<1>6. Forgotten' = Forgotten
  <2>1. Forgotten' = Len(accepted') - Len(queue')
    BY DEF Forgotten
  <2> HIDE DEF a, k
  <2>2. QED
    BY <1>4, <1>5, <2>1
<1>7. Ordered'
  BY <1>1, <1>4, AcceptOrdered DEF OvershootInv
<1>8. Dated' /\ SomeBarred'
  BY <1>3 DEF Dated, SomeBarred
<1>9. Held'
  <2>1. ASSUME NEW i \in 1..k + 1 PROVE queue'[i] = accepted'[a - k + i]
    <3>1. CASE i = k + 1
      BY <1>4, <1>5, <3>1
    <3>2. CASE i # k + 1
      <4>1. i \in 1..k /\ a - k + i \in 1..a
        BY <1>4, <3>2
      <4> QED
        BY <1>4, <1>5, <4>1
    <3> QED
      BY <3>1, <3>2
  <2> QED
    BY <1>4, <1>5, <1>6, <2>1 DEF Held
<1>10. Stale'
  <2>1. ASSUME k + 1 < m, NEW i \in 1..Forgotten PROVE clock - accepted'[i] >= duration
    <3>1. i \in 1..a /\ k < m
      BY <1>4, <2>1
    <3> QED
      BY <1>5, <3>1 DEF OvershootInv, Stale
  <2> QED
    BY <1>1, <1>5, <1>6, <2>1 DEF Stale
<1>11. Pushers' \subseteq Procs /\ p \notin Pushers'
  BY <1>3 DEF Pushers
<1>12. ASSUME NEW i \in 1..a + 1
       PROVE  /\ Since(i)' = a + 2 - i /\ Late(i)' \subseteq Procs
              /\ Cardinality(Pushers') \in Nat /\ Cardinality(Late(i)') \in Nat
              /\ Counted(i)' = a + 2 - i + Cardinality(Pushers') + Cardinality(Late(i)')
  <2>1. Since(i)' = a + 2 - i
    BY <1>4, <1>5 DEF Since
  <2>2. Late(i)' \subseteq Procs
    BY DEF Late
  <2>3. Cardinality(Pushers') \in Nat /\ Cardinality(Late(i)') \in Nat
    BY <1>11, <2>2, Processes
  <2> QED
    BY <2>1, <2>2, <2>3 DEF Counted
<1>13. ASSUME NEW i \in 1..a, Full(i) PROVE Counted(i)' <= Most
  <2>1. Pushers \subseteq Procs /\ Late(i) \subseteq Procs
    BY DEF Pushers, Late
  <2>2. /\ IsFiniteSet(Pushers) /\ Cardinality(Pushers) \in Nat
        /\ IsFiniteSet(Late(i)) /\ Cardinality(Late(i)) \in Nat /\ Most \in Nat
    BY <2>1, Processes
  <2>3. a - i + 1 + Cardinality(Pushers) + Cardinality(Late(i)) <= Most
    BY <1>13 DEF OvershootInv, Potential, Counted, Since
  <2>4. accepted'[i] = accepted[i] /\ i \in 1..a + 1
    BY <1>4, <1>5
  <2>5. Cardinality(Pushers') + Cardinality(Late(i)') <= Cardinality(Pushers) + Cardinality(Late(i)) - 1
    <3>1. CASE pc[p] = "push"
      <4>1. Pushers' = Pushers \ {p} /\ p \in Pushers
        BY <1>3, <3>1 DEF Pushers
      <4>2. Late(i)' \in SUBSET Late(i)
        BY <1>1, <1>3, <1>6, <2>4, <3>1 DEF Late
      <4>3. Cardinality(Pushers') = Cardinality(Pushers) - 1
        BY <2>2, <4>1, FS_RemoveElement
      <4>4. Cardinality(Late(i)') <= Cardinality(Late(i))
        BY <2>2, <4>2, FS_Subset
      <4> QED
        BY <1>12, <2>2, <2>4, <4>3, <4>4
    <3>2. CASE pc[p] = "push_trim"
      <4>1. Pushers' = Pushers
        BY <1>3, <3>2 DEF Pushers
      <4>2. Late(i)' = Late(i) \ {p} /\ p \in Late(i)
        BY <1>1, <1>3, <1>6, <2>4, <3>2 DEF Late
      <4>3. Cardinality(Late(i)') = Cardinality(Late(i)) - 1
        BY <2>2, <4>2, FS_RemoveElement
      <4> QED
        BY <1>12, <2>2, <2>4, <4>1, <4>3
    <3> QED
      BY <1>3, <3>1, <3>2
  <2>6. /\ Counted(i)' = a + 2 - i + Cardinality(Pushers') + Cardinality(Late(i)')
        /\ Cardinality(Pushers') \in Nat /\ Cardinality(Late(i)') \in Nat
    BY <1>12, <2>4
  <2> HIDE DEF a
  <2>7. QED
    BY <1>4, <2>2, <2>3, <2>5, <2>6
<1>14. ASSUME NEW i \in 1..a + 1, a + 2 - i = m PROVE Counted(i)' <= Most
  <2>1. /\ Counted(i)' = m + Cardinality(Pushers') + Cardinality(Late(i)')
        /\ Cardinality(Pushers') \in Nat /\ Cardinality(Late(i)') \in Nat /\ Late(i)' \subseteq Procs
    BY <1>12, <1>14
  <2>2. CASE p \notin Late(i)'
    <3>1. Cardinality(Pushers') <= N - 1 /\ Cardinality(Late(i)') <= N - 1
      BY <1>11, <2>1, <2>2, Processes
    <3> QED
      BY <1>4, <2>1, <3>1 DEF Most
  <2>3. CASE p \in Late(i)'
    <3>1. pc[p] = "push" /\ i > Forgotten + 1
      <4>1. i \in Int /\ Forgotten \in Int /\ (~(i <= Forgotten + 1) => i > Forgotten + 1)
        BY <1>4, <1>14
      <4> QED
        BY <1>3, <1>6, <2>3, <4>1 DEF Late
    <3>2. k >= m
      BY <1>4, <1>14, <3>1
    <3>3. PICK q \in Procs : pc[q] # "push"
      BY <3>2 DEF OvershootInv, SomeBarred
    <3>4. q # p /\ q \notin Pushers'
      BY <1>3, <3>1, <3>3 DEF Pushers
    <3>5. p \in Procs \ Pushers' /\ q \in Procs \ Pushers'
      BY <1>11, <3>3, <3>4
    <3>6. Cardinality(Pushers') <= N - 2 /\ Cardinality(Late(i)') <= N
      BY <1>11, <2>1, <3>4, <3>5, Processes
    <3> QED
      BY <1>4, <2>1, <3>6 DEF Most
  <2> QED
    BY <2>2, <2>3
<1>15. ASSUME NEW i \in 1..a + 1, Full(i)' PROVE Counted(i)' <= Most
  <2>1. a + 2 - i >= m /\ clock - accepted'[i] < duration
    BY <1>1, <1>12, <1>15 DEF Full
  <2>2. CASE i <= a /\ a - i + 1 >= m
    <3>1. i \in 1..a /\ Full(i)
      BY <1>4, <1>5, <2>1, <2>2 DEF Full, Since
    <3> QED
      BY <1>13, <3>1
  <2>3. CASE ~(i <= a /\ a - i + 1 >= m)
    <3>1. a + 2 - i = m
      BY <1>4, <2>1, <2>3
    <3> QED
      BY <1>14, <3>1
  <2> QED
    BY <2>2, <2>3
<1>16. Potential'
  BY <1>5, <1>15 DEF Potential, Most, N
<1>17. Spaced(Most)'
  <2>1. Most \in Nat /\ m <= Most
    BY <1>4, Processes DEF Most
  <2>2. ASSUME NEW i \in 1..a + 1 - Most PROVE accepted'[i + Most] - accepted'[i] >= duration
    <3>1. i \in 1..a + 1 /\ i + Most \in 1..a + 1
      BY <1>4, <2>1
    <3>2. CASE i + Most = a + 1
      <4>1. a \in Nat /\ m \in Nat \ {0} /\ clock \in Nat /\ duration \in Nat
        BY <1>4
      <4> HIDE DEF a, m
      <4>2. i \in 1..a /\ a + 2 - i = Most + 1
        BY <2>1, <3>1, <3>2, <4>1
      <4>3. accepted'[i] \in Nat /\ accepted'[i + Most] = clock
        <5>1. accepted'[i] = accepted[i] /\ accepted'[i + Most] = clock
          BY <1>5, <3>2, <4>2
        <5>2. accepted[i] \in Nat
          BY <4>2 DEF OvershootInv, Typed, a
        <5> QED
          BY <5>1, <5>2
      <4>4. Since(i)' = Most + 1
        BY <1>12, <3>1, <4>2
      <4>5. Since(i)' >= m /\ Most + 1 \in Nat
        BY <2>1, <4>1, <4>4
      <4>6. Counted(i)' > Most
        <5>1. /\ Counted(i)' = a + 2 - i + Cardinality(Pushers') + Cardinality(Late(i)')
              /\ Cardinality(Pushers') \in Nat /\ Cardinality(Late(i)') \in Nat
          BY <1>12, <3>1
        <5>2. Counted(i)' = Most + 1 + Cardinality(Pushers') + Cardinality(Late(i)')
          BY <4>2, <5>1
        <5> QED
          BY <2>1, <5>1, <5>2
      <4>7. Counted(i)' \in Nat
        BY <1>12, <2>1, <3>1, <4>2
      <4>8. ~Full(i)'
        BY <1>15, <2>1, <3>1, <4>6, <4>7
      <4>9. ~(clock - accepted'[i] < duration)
        BY <1>1, <4>5, <4>8 DEF Full, m
      <4> QED
        BY <4>1, <4>3, <4>9
    <3>3. CASE i + Most # a + 1
      <4>1. i \in 1..a - Most /\ i + Most \in 1..a /\ i \in 1..a
        <5>1. a \in Nat
          BY <1>4
        <5> HIDE DEF a
        <5>2. QED
          BY <2>1, <3>1, <3>3, <5>1
      <4>2. accepted[i + Most] - accepted[i] >= duration
        BY <4>1 DEF OvershootInv, Spaced
      <4> QED
        BY <1>5, <4>1, <4>2
    <3> QED
      BY <3>2, <3>3
  <2>3. ASSUME NEW i \in 1..Len(accepted') - Most PROVE accepted'[i + Most] - accepted'[i] >= duration
    <3>1. Len(accepted') - Most = a + 1 - Most
      BY <1>4, <1>5, <2>1
    <3> HIDE DEF a
    <3>2. i \in 1..a + 1 - Most
      BY <2>3, <3>1, Zenon
    <3> QED
      BY <2>2, <3>2
  <2>4. Most' = Most
    BY DEF Most, N
  <2> QED
    BY <2>3, <2>4 DEF Spaced
<1> QED
  BY <1>7, <1>8, <1>9, <1>10, <1>16, <1>17

LEMMA StepTypes ==
  ASSUME OvershootInv, [Next]_vars
  PROVE  StepTyped'
<1> DEFINE Steps == {"idle", "push", "lindex", "compare", "push_trim", "trim", "expire"}
<1>0. /\ pc \in [Procs -> Steps] /\ oldTime \in [Procs -> Nat \cup {Never}]
      /\ \A q \in Procs : pc[q] = "compare" => oldTime[q] \in Nat
      /\ deadline \in Nat \cup {Never} /\ faults \in Nat /\ clock \in Nat /\ Expiration \in Nat
      /\ queue \in Seq(Nat)
  BY LimiterAssumption DEF OvershootInv, Typed, StepTyped
<1>2. CASE Tick
  BY <1>0, <1>2 DEF Tick, StepTyped, local
<1>3. CASE Request \/ clearExpiredItems \/ UNCHANGED vars
  BY <1>0, <1>3 DEF Request, clearExpiredItems, StepTyped, vars, local
<1>4. ASSUME NEW p \in Procs, Llen(p) \/ Lindex(p) \/ Compare(p) \/ Lpush(p) \/ Ltrim(p) \/ Expire(p) \/ CommandFails(p)
      PROVE  StepTyped'
  <2>1. CASE Lindex(p)
    <3>1. CASE queue = <<>>
      BY <1>0, <2>1, <3>1 DEF Lindex, Goto, StepTyped
    <3>2. CASE queue # <<>>
      <4>1. Head(queue) \in Nat
        BY <1>0, <3>2
      <4>2. /\ pc' = [pc EXCEPT ![p] = "compare"] /\ oldTime' = [oldTime EXCEPT ![p] = Head(queue)]
            /\ deadline' = deadline /\ faults' = faults
        BY <2>1, <3>2 DEF Lindex, Goto
      <4> QED
        BY <1>0, <4>1, <4>2 DEF StepTyped
    <3> QED
      BY <3>1, <3>2
  <2>2. CASE Llen(p) \/ Compare(p) \/ Lpush(p) \/ Ltrim(p)
    <3>1. /\ oldTime' = oldTime /\ deadline' = deadline /\ faults' = faults
          /\ \E step \in Steps \ {"compare"} : pc' = [pc EXCEPT ![p] = step]
      BY <2>2 DEF Llen, Compare, Lpush, Ltrim, Goto
    <3> QED
      BY <1>0, <3>1 DEF StepTyped
  <2>3. CASE Expire(p)
    <3>1. /\ oldTime' = oldTime /\ deadline' \in Nat \cup {Never} /\ faults' = faults
          /\ pc' = [pc EXCEPT ![p] = "idle"]
      BY <1>0, <2>3 DEF Expire, Goto
    <3> QED
      BY <1>0, <3>1 DEF StepTyped
  <2>4. CASE CommandFails(p)
    <3>1. /\ oldTime' = oldTime /\ deadline' = deadline /\ faults' = faults + 1
          /\ pc' = pc \/ \E step \in Steps \ {"compare"} : pc' = [pc EXCEPT ![p] = step]
      BY <2>4 DEF CommandFails, Goto
    <3> QED
      BY <1>0, <3>1 DEF StepTyped
  <2> QED
    BY <1>4, <2>1, <2>2, <2>3, <2>4
<1> QED
  BY <1>2, <1>3, <1>4 DEF Next

LEMMA OvershootStep ==
  ASSUME OvershootInv, Typed', [Next]_vars
  PROVE  OvershootInv'
<1>1. Typed' /\ StepTyped'
  BY StepTypes
<1> SUFFICES ASSUME Sound'
             PROVE  Held' /\ Ordered' /\ Stale' /\ Dated' /\ SomeBarred' /\ Potential' /\ Spaced(Most)'
  BY <1>1 DEF OvershootInv
<1>2. CASE Tick
  <2>1. redis' = redis /\ faults' = faults /\ (torn => torn')
    <3>1. redis' = redis /\ faults' = faults
      BY <1>2 DEF Tick
    <3>2. torn' = (torn \/ \E p \in Procs : pc[p] # "idle") \/ torn' = torn
      BY <1>2 DEF Tick
    <3>3. CASE torn' = (torn \/ \E p \in Procs : pc[p] # "idle")
      BY <3>1, <3>3
    <3>4. CASE torn' = torn
      BY <3>1, <3>4
    <3> QED
      BY <3>1, <3>2, <3>3, <3>4, Zenon
  <2>2. Sound
    <3>1. redis' /\ faults' = 0 /\ ~torn'
      BY DEF Sound
    <3>2. redis /\ faults = 0 /\ ~torn
      BY <2>1, <3>1
    <3> QED
      BY <3>2 DEF Sound
  <2> QED
    BY <1>2, <2>2, TickPotential
<1>3. CASE Request \/ clearExpiredItems
  BY <1>3 DEF Request, clearExpiredItems, Sound
<1>4. ASSUME NEW p \in Procs, Llen(p) \/ Lindex(p) \/ Compare(p) \/ Lpush(p) \/ Ltrim(p) \/ Expire(p)
      PROVE  Held' /\ Ordered' /\ Stale' /\ Dated' /\ SomeBarred' /\ Potential' /\ Spaced(Most)'
  <2>1. redis' = redis /\ faults' = faults /\ torn' = torn
    BY <1>4 DEF Llen, Lindex, Compare, Lpush, Ltrim, Expire
  <2>2. Sound
    BY <2>1 DEF Sound
  <2> QED
    BY <1>1, <1>4, <2>2, LlenPotential, LindexPotential, ComparePotential, LpushPotential,
       LtrimPotential, ExpirePotential
<1>5. ASSUME NEW p \in Procs, CommandFails(p) PROVE FALSE
  BY <1>5 DEF CommandFails, Sound, OvershootInv, StepTyped
<1>6. CASE UNCHANGED vars
  <2>1. /\ accepted' = accepted /\ queue' = queue /\ clock' = clock /\ deadline' = deadline
        /\ pc' = pc /\ oldTime' = oldTime /\ Sound
    BY <1>6 DEF vars, local, log, Sound
  <2>2. Dated' /\ SomeBarred'
    BY <2>1 DEF OvershootInv, Dated, SomeBarred
  <2>3. \A i \in 1..Len(accepted) : Full(i) => Pushers' \subseteq Pushers /\ Late(i)' \subseteq Late(i)
    BY <2>1 DEF Pushers, Late, Forgotten
  <2> QED
    BY <1>1, <2>1, <2>2, <2>3, QuietStep
<1> QED
  BY <1>2, <1>3, <1>4, <1>5, <1>6 DEF Next

\* redisRateLimiter lets at most two requests in excess through per other goroutine, within
\* any duration, whatever the limit, the duration and the number of goroutines, as long
\* as no command fails and the key does not expire under a request.
THEOREM Overshoot == Spec => []OvershootBound
<1>1. Init => OvershootInv
  BY InitOvershoot
<1>2. OvershootInv /\ LimiterInv' /\ [Next]_vars => OvershootInv'
  BY OvershootStep DEF LimiterInv
<1>3. OvershootInv => OvershootBound
  BY DEF OvershootInv, OvershootBound, Sound, Most, N
<1> QED
  BY <1>1, <1>2, <1>3, LimiterRemembers, PTL DEF Spec

=============================================================================
