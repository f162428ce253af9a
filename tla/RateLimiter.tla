----------------------------- MODULE RateLimiter -----------------------------
(***************************************************************************)
(* The request limits of one key (a limit's mark and a client's address):  *)
(* the times of the last requests let through, kept in memory under a lock *)
(* or, with Redis, in a list that every request reads and writes by        *)
(* separate commands.  Time is in whole seconds.  An absent key is the     *)
(* empty queue; a queue runs from old to new.                              *)
(***************************************************************************)
EXTENDS Integers, Sequences, FiniteSets

CONSTANTS
  Procs,         \* goroutines that serve requests of this key
  RedisModes,    \* values of RedisEnabled
  maxRequestNum,
  duration,      \* of the limit
  Expiration,    \* RateLimitKeyExpirationDuration
  Never,         \* a key without an expiry
  MaxClock,      \* bound: seconds
  MaxRequests,   \* bound: requests let through
  MaxFaults      \* bound: Redis commands that fail

\* A limit of 0 installs no limiter, and config.go asks that no duration be larger
\* than the expiration.
ASSUME LimiterAssumption ==
  /\ IsFiniteSet(Procs) /\ Procs # {}
  /\ RedisModes \subseteq BOOLEAN
  /\ maxRequestNum \in Nat \ {0} /\ duration \in Nat /\ Expiration \in Nat /\ duration <= Expiration
  /\ Never \notin Nat
  /\ {MaxClock, MaxRequests, MaxFaults} \subseteq Nat

VARIABLES
  redis,      \* RedisEnabled
  clock,
  queue,      \* the times kept for the key
  deadline,   \* when Redis drops the key
  pc, oldTime,  \* of each goroutine in redisRateLimiter
  accepted,   \* history: when requests were let through
  refused,    \* history: when requests were answered 429, and how many had been let through
  torn,       \* history: the key expired under a request in progress
  faults

local == <<pc, oldTime>>
log == <<accepted, refused>>
vars == <<redis, clock, queue, deadline, local, log, torn, faults>>

Init ==
  /\ redis \in RedisModes
  /\ clock = 0 /\ queue = <<>> /\ deadline = Never
  /\ pc = [p \in Procs |-> "idle"] /\ oldTime = [p \in Procs |-> Never]
  /\ accepted = <<>> /\ refused = {} /\ torn = FALSE /\ faults = 0

More == Len(accepted) < MaxRequests
Accept == accepted' = Append(accepted, clock) /\ UNCHANGED refused
Refuse == refused' = refused \cup {<<clock, Len(accepted)>>} /\ UNCHANGED accepted

\* A second passes.  Redis drops a key at its deadline.
Tick ==
  /\ clock < MaxClock /\ clock' = clock + 1
  /\ IF redis /\ deadline # Never /\ clock' >= deadline
     THEN /\ queue' = <<>> /\ deadline' = Never
          /\ torn' = (torn \/ \E p \in Procs : pc[p] # "idle")
     ELSE UNCHANGED <<queue, deadline, torn>>
  /\ UNCHANGED <<redis, local, log, faults>>

-----------------------------------------------------------------------------
(* InMemoryRateLimiter: both functions hold the mutex throughout. *)

\* Faulty variant: the request is held against the newest time.
RequestNewest ==
  /\ ~redis /\ More
  /\ \/ Len(queue) < maxRequestNum /\ queue' = Append(queue, clock) /\ Accept
     \/ /\ Len(queue) >= maxRequestNum
        /\ IF clock - queue[Len(queue)] >= duration
           THEN queue' = Append(Tail(queue), clock) /\ Accept
           ELSE UNCHANGED queue /\ Refuse
  /\ UNCHANGED <<redis, clock, deadline, local, torn, faults>>

Request ==
  /\ ~redis /\ More
  /\ \/ Len(queue) < maxRequestNum /\ queue' = Append(queue, clock) /\ Accept
     \/ /\ Len(queue) >= maxRequestNum
        /\ IF clock - Head(queue) >= duration
           THEN queue' = Append(Tail(queue), clock) /\ Accept
           ELSE UNCHANGED queue /\ Refuse
  /\ UNCHANGED <<redis, clock, deadline, local, torn, faults>>

\* Faulty variant: the age of a key is that of its oldest time.
clearOldestExpired ==
  /\ ~redis /\ queue # <<>>
  /\ clock - Head(queue) > Expiration
  /\ queue' = <<>>
  /\ UNCHANGED <<redis, clock, deadline, local, log, torn, faults>>

\* The loop sleeps for the expiration; when it began, and how late it runs, is open.
clearExpiredItems ==
  /\ ~redis /\ queue # <<>>
  /\ clock - queue[Len(queue)] > Expiration
  /\ queue' = <<>>
  /\ UNCHANGED <<redis, clock, deadline, local, log, torn, faults>>

-----------------------------------------------------------------------------
(* redisRateLimiter: every command is a step. *)

At(p, step) == redis /\ pc[p] = step
Goto(p, step) == pc' = [pc EXCEPT ![p] = step]

Llen(p) ==
  /\ At(p, "idle") /\ More
  /\ Goto(p, IF Len(queue) < maxRequestNum THEN "push" ELSE "lindex")
  /\ UNCHANGED <<redis, clock, queue, deadline, oldTime, log, torn, faults>>

\* LINDEX -1 of a key that is gone by now is an error: the answer is 500.
Lindex(p) ==
  /\ At(p, "lindex")
  /\ IF queue = <<>> THEN Goto(p, "idle") /\ UNCHANGED oldTime
     ELSE Goto(p, "compare") /\ oldTime' = [oldTime EXCEPT ![p] = Head(queue)]
  /\ UNCHANGED <<redis, clock, queue, deadline, log, torn, faults>>

Compare(p) ==
  /\ At(p, "compare")
  /\ IF clock - oldTime[p] < duration THEN Goto(p, "expire") /\ Refuse
     ELSE Goto(p, "push_trim") /\ UNCHANGED log
  /\ UNCHANGED <<redis, clock, queue, deadline, oldTime, torn, faults>>

Lpush(p) ==
  /\ redis /\ pc[p] \in {"push", "push_trim"}
  /\ queue' = Append(queue, clock) /\ Accept
  /\ Goto(p, IF pc[p] = "push" THEN "expire" ELSE "trim")
  /\ UNCHANGED <<redis, clock, deadline, oldTime, torn, faults>>

\* Faulty variant: LTRIM at the other end.
Oldest(s) == IF Len(s) <= maxRequestNum THEN s ELSE SubSeq(s, 1, maxRequestNum)

\* LTRIM 0 maxRequestNum-1 keeps the newest.
Newest(s) == IF Len(s) <= maxRequestNum THEN s ELSE SubSeq(s, Len(s) - maxRequestNum + 1, Len(s))

Ltrim(p) ==
  /\ At(p, "trim")
  /\ queue' = Newest(queue)
  /\ Goto(p, "expire")
  /\ UNCHANGED <<redis, clock, deadline, oldTime, log, torn, faults>>

\* EXPIRE does nothing when there is no key.
Expire(p) ==
  /\ At(p, "expire")
  /\ deadline' = IF queue = <<>> THEN Never ELSE clock + Expiration
  /\ Goto(p, "idle")
  /\ UNCHANGED <<redis, clock, queue, oldTime, log, torn, faults>>

\* A failed LLEN or LINDEX is answered 500; the errors of the others are dropped.
CommandFails(p) ==
  /\ redis /\ faults < MaxFaults /\ faults' = faults + 1
  /\ \/ pc[p] = "idle" /\ More /\ UNCHANGED <<pc, log>>
     \/ pc[p] = "lindex" /\ Goto(p, "idle") /\ UNCHANGED log
     \/ pc[p] = "push" /\ Goto(p, "expire") /\ Accept
     \/ pc[p] = "push_trim" /\ Goto(p, "trim") /\ Accept
     \/ pc[p] = "trim" /\ Goto(p, "expire") /\ UNCHANGED log
     \/ pc[p] = "expire" /\ Goto(p, "idle") /\ UNCHANGED log
  /\ UNCHANGED <<redis, clock, queue, deadline, oldTime, torn>>

Next ==
  \/ Tick \/ Request \/ clearExpiredItems
  \/ \E p \in Procs : \/ Llen(p) \/ Lindex(p) \/ Compare(p) \/ Lpush(p) \/ Ltrim(p) \/ Expire(p)
                      \/ CommandFails(p)
Spec == Init /\ [][Next]_vars

-----------------------------------------------------------------------------
TypeOK ==
  /\ redis \in RedisModes
  /\ clock \in 0..MaxClock
  /\ queue \in Seq(Nat) /\ (~redis => Len(queue) <= maxRequestNum)
  /\ deadline \in Nat \cup {Never}
  /\ pc \in [Procs -> {"idle", "push", "lindex", "compare", "push_trim", "trim", "expire"}]
  /\ oldTime \in [Procs -> Nat \cup {Never}]
  /\ accepted \in Seq(Nat) /\ refused \subseteq Nat \X Nat
  /\ torn \in BOOLEAN /\ faults \in 0..MaxFaults

Spaced(n) == \A i \in 1..Len(accepted) - n : accepted[i + n] - accepted[i] >= duration

\* In memory no more than maxRequestNum requests are let through in any span of
\* duration seconds, however requests and the clean-up fall.
WindowBound == ~redis => Spaced(maxRequestNum)

\* In Redis, whose list is read and written by separate commands, each other goroutine
\* can let two requests through in excess: one decided on a length read before the
\* list was full, one on an old time that is yet to be trimmed.  Not more, unless a
\* command fails or the key expires under a request in progress (between its LPUSH and
\* its EXPIRE, say).
OvershootBound == redis /\ faults = 0 /\ ~torn => Spaced(maxRequestNum + 2 * (Cardinality(Procs) - 1))

\* A request is answered 429 only when others were let through within the last
\* duration seconds: in memory maxRequestNum of them; in Redis, where the key may
\* expire between LLEN and LINDEX and be begun again, at least one.
RefusedWithCause ==
  \A r \in refused :
    Cardinality({i \in 1..r[2] : r[1] - accepted[i] < duration}) >= IF redis THEN 1 ELSE maxRequestNum

=============================================================================
