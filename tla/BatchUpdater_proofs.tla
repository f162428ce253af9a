------------------------- MODULE BatchUpdater_proofs -------------------------
(***************************************************************************)
(* Proofs about BatchUpdater for every set of rows and every amount: the   *)
(* conservation of what was posted, and that every counter is the          *)
(* write-behind counter of module WriteBehind.                             *)
(***************************************************************************)
EXTENDS BatchUpdater, TLAPS

\* The maps of the updater: the empty one, one more key, one key less.
LEMMA EmptyMap == IsMap(Empty) /\ \A j \in Ids : ValueIn(Empty, j) = 0
  BY DEF IsMap, Empty, ValueIn

LEMMA ValueType == ASSUME NEW m, IsMap(m), NEW j \in Ids PROVE ValueIn(m, j) \in Int
  BY DEF IsMap, ValueIn

LEMMA PutValue ==
  ASSUME NEW m, IsMap(m), NEW i \in Ids, NEW n \in Int
  PROVE  /\ IsMap(Put(m, i, n))
         /\ \A j \in Ids : ValueIn(Put(m, i, n), j) = IF j = i THEN n ELSE ValueIn(m, j)
  BY DEF IsMap, Put, ValueIn

LEMMA WithoutValue ==
  ASSUME NEW m, IsMap(m), NEW i \in Ids
  PROVE  /\ IsMap(Without(m, i))
         /\ \A j \in Ids : ValueIn(Without(m, i), j) = IF j = i THEN 0 ELSE ValueIn(m, j)
  BY DEF IsMap, Without, ValueIn

LEMMA EmptyStores ==
  ASSUME NEW f, f = [t \in Types |-> Empty]
  PROVE  f = [t \in Types |-> f[t]] /\ \A t \in Types : IsMap(f[t])
  BY EmptyMap, Zenon

-----------------------------------------------------------------------------
(* What a request and the goroutine do, as one fact each. *)

\* Every action of a request is one call of addNewRecord.
Posting == \E t \in Types, i \in Ids, n \in Changes :
  addNewRecord(t, i, n) /\ counting' \subseteq Ids
Draining == Wake \/ Swap \/ NextType \/ \E i \in Ids : Apply(i) \/ ApplyFails(i)

LEMMA TypesFacts ==
  /\ {UserQuota, TokenQuota, UsedQuota, ChannelUsedQuota, RequestCount} \subseteq Types
  /\ TypeCount \notin Types
  /\ \A t \in 0..TypeCount : t < TypeCount => t \in Types /\ t + 1 \in 0..TypeCount
  /\ 0 \in 0..TypeCount /\ TypeCount \in 0..TypeCount
  /\ \A t \in Types : t < TypeCount /\ t \in 0..TypeCount
  BY DEF Types, TypeCount, UserQuota, TokenQuota, UsedQuota, ChannelUsedQuota, RequestCount

LEMMA ChangesFacts == Changes \subseteq Int
<1> SUFFICES ASSUME NEW x \in Changes PROVE x \in Int
  OBVIOUS
<1>1. x \in Amounts \/ (\E n \in Amounts : x = 0 - n) \/ x = 1
  BY DEF Changes
<1>2. \A n \in Amounts : n \in Int
  BY BatchAssumption
<1>3. ASSUME NEW n \in Amounts, x = 0 - n PROVE x \in Int
  BY <1>2, <1>3
<1>4. QED
  BY <1>1, <1>2, <1>3

LEMMA NextSplits ==
  ASSUME counting \subseteq Ids, Next PROVE Posting \/ Draining \/ Restart
<1>1. ASSUME NEW i \in Ids, NEW n \in Amounts,
             ChangeQuota(i, n) \/ ChangeChannelUsedQuota(i, n) \/ RecordUsedQuota(i, n)
      PROVE  Posting
  <2>1. n \in Changes /\ 0 - n \in Changes
    BY DEF Changes
  <2>2. QED
    BY <1>1, <2>1, TypesFacts DEF ChangeQuota, ChangeChannelUsedQuota, RecordUsedQuota, Posting
<1>2. ASSUME NEW i \in Ids, RecordRequest(i) PROVE Posting
  BY <1>2, TypesFacts DEF RecordRequest, Posting, Changes
<1>3. QED
  BY <1>1, <1>2 DEF Next, batchUpdate, Draining

-----------------------------------------------------------------------------
(* Typing. *)

\* Every variable keeps its type; in particular the goroutine holds no map while
\* it sleeps, so a wake-up overwrites none.
THEOREM BatchTypes == Spec => []TypeOK
<1>1. Init => TypeOK
  <2> SUFFICES ASSUME Init PROVE TypeOK
    OBVIOUS
  <2>1. store = [t \in Types |-> store[t]] /\ \A t \in Types : IsMap(store[t])
    BY EmptyMap, EmptyStores DEF Init
  <2>2. posts \in 0..MaxPosts /\ faults \in 0..MaxFaults
    BY BatchAssumption DEF Init
  <2>3. db \in [Counters -> Int] /\ posted \in [Counters -> Int] /\ lost \in [Counters -> Int]
    BY DEF Init
  <2>4. QED
    BY <2>1, <2>2, <2>3, EmptyMap, TypesFacts DEF Init, TypeOK
<1>2. TypeOK /\ [Next]_vars => TypeOK'
  <2> SUFFICES ASSUME TypeOK, [Next]_vars PROVE TypeOK'
    OBVIOUS
  <2>1. ASSUME NEW t \in Types, NEW i \in Ids, NEW n \in Int,
               addNewRecord(t, i, n), counting' \subseteq Ids
        PROVE  TypeOK'
    <3>1. IsMap(store[t]) /\ ValueIn(store[t], i) + n \in Int
      BY ValueType DEF TypeOK
    <3>2. IsMap(Put(store[t], i, ValueIn(store[t], i) + n))
      BY <3>1, PutValue
    <3>3. store' = [store EXCEPT ![t] = Put(store[t], i, ValueIn(store[t], i) + n)]
      BY <2>1, Zenon DEF addNewRecord
    <3>4. store' = [x \in Types |-> store'[x]] /\ \A x \in Types : IsMap(store'[x])
      BY <3>2, <3>3, Zenon DEF TypeOK
    <3>5. posted' \in [Counters -> Int]
      BY <2>1 DEF TypeOK, addNewRecord, Counters
    <3>6. QED
      BY <2>1, <3>4, <3>5, BatchAssumption DEF TypeOK, addNewRecord, goroutine
  <2>2. CASE Wake
    BY <2>2, TypesFacts DEF Wake, TypeOK, history
  <2>3. CASE Swap
    <3>1. turn \in Types
      BY <2>3, TypesFacts DEF Swap, TypeOK
    <3>2. IsMap(batch') /\ \A x \in Types : IsMap(store'[x])
      BY <2>3, <3>1, EmptyMap, Zenon DEF Swap, TypeOK
    <3>3. store' = [x \in Types |-> store'[x]]
      BY <2>3, <3>1, Zenon DEF Swap, TypeOK
    <3>4. QED
      BY <2>3, <3>2, <3>3 DEF Swap, TypeOK, history
  <2>4. CASE NextType
    <3>1. batch' = Empty
      BY <2>4 DEF NextType, Empty, TypeOK, IsMap
    <3>2. turn' \in 0..TypeCount
      BY <2>4, TypesFacts DEF NextType, TypeOK
    <3>3. QED
      BY <2>4, <3>1, <3>2 DEF NextType, TypeOK, history
  <2>5. ASSUME NEW i \in Ids, Apply(i) \/ ApplyFails(i) PROVE TypeOK'
    <3>1. turn \in Types /\ batch[i] \in Int
      BY <2>5, TypesFacts DEF Apply, ApplyFails, TypeOK, IsMap
    <3>2. IsMap(batch')
      BY <2>5, WithoutValue DEF Apply, ApplyFails, TypeOK
    <3>3. db' \in [Counters -> Int] /\ lost' \in [Counters -> Int]
      <4>1. <<turn, i>> \in Counters
        BY <3>1 DEF Counters
      <4>2. db[<<turn, i>>] + batch[i] \in Int /\ lost[<<turn, i>>] + batch[i] \in Int
        BY <3>1, <4>1 DEF TypeOK
      <4>3. CASE Apply(i)
        BY <4>1, <4>2, <4>3 DEF Apply, TypeOK, history
      <4>4. CASE ApplyFails(i)
        BY <4>1, <4>2, <4>4 DEF ApplyFails, TypeOK
      <4>5. QED
        BY <2>5, <4>3, <4>4
    <3>4. faults' \in 0..MaxFaults
      BY <2>5, BatchAssumption DEF Apply, ApplyFails, TypeOK, history
    <3>5. QED
      BY <2>5, <3>2, <3>3, <3>4 DEF Apply, ApplyFails, TypeOK, history
  <2>6. CASE Restart
    <3>1. \A c \in Counters : c[1] \in Types /\ c[2] \in Ids
      BY DEF Counters
    <3>2. \A c \in Counters : ValueIn(store[c[1]], c[2]) \in Int /\ ValueIn(batch, c[2]) \in Int
      BY <3>1, ValueType DEF TypeOK
    <3>3. lost' \in [Counters -> Int]
      BY <2>6, <3>2 DEF Restart, TypeOK
    <3>4. store' = [t \in Types |-> store'[t]] /\ \A t \in Types : IsMap(store'[t])
      <4>1. store' = [t \in Types |-> Empty]
        BY <2>6 DEF Restart
      <4>2. QED
        BY <4>1, EmptyStores
    <3>5. faults' \in 0..MaxFaults
      BY <2>6, BatchAssumption DEF Restart, TypeOK
    <3>6. QED
      BY <2>6, <3>3, <3>4, <3>5, EmptyMap, TypesFacts DEF Restart, TypeOK
  <2>7. CASE UNCHANGED vars
    BY <2>7 DEF vars, TypeOK, goroutine, history
  <2>8. QED
    BY <2>1, <2>2, <2>3, <2>4, <2>5, <2>6, <2>7, NextSplits, ChangesFacts DEF Posting, Draining, TypeOK
<1>3. QED
  BY <1>1, <1>2, PTL DEF Spec

-----------------------------------------------------------------------------
(* What each step does to the parts a counter is split into. *)

LEMMA CounterParts ==
  ASSUME TypeOK, NEW c \in Counters
  PROVE  /\ c[1] \in Types /\ c[2] \in Ids /\ c = <<c[1], c[2]>>
         /\ Waiting(c) \in Int /\ Writing(c) \in Int
         /\ posted[c] \in Int /\ db[c] \in Int /\ lost[c] \in Int
<1>1. c[1] \in Types /\ c[2] \in Ids /\ c = <<c[1], c[2]>>
  BY DEF Counters
<1>2. IsMap(store[c[1]]) /\ IsMap(batch)
  BY <1>1 DEF TypeOK
<1>3. Waiting(c) \in Int /\ Writing(c) \in Int
  BY <1>1, <1>2, ValueType DEF Waiting, Writing
<1>4. QED
  BY <1>1, <1>3 DEF TypeOK

LEMMA PostEffect ==
  ASSUME TypeOK, NEW t \in Types, NEW i \in Ids, NEW n \in Int, addNewRecord(t, i, n),
         NEW c \in Counters
  PROVE  /\ Waiting(c)' = IF c = <<t, i>> THEN Waiting(c) + n ELSE Waiting(c)
         /\ Writing(c)' = Writing(c)
<1>1. c[1] \in Types /\ c[2] \in Ids /\ c = <<c[1], c[2]>>
  BY CounterParts
<1>2. store' = [store EXCEPT ![t] = Put(store[t], i, ValueIn(store[t], i) + n)]
  BY Zenon DEF addNewRecord
<1>3. IsMap(store[t]) /\ ValueIn(store[t], i) + n \in Int
  BY ValueType DEF TypeOK
<1>4. ASSUME c[1] = t
      PROVE  Waiting(c)' = IF c = <<t, i>> THEN Waiting(c) + n ELSE Waiting(c)
  <2>1. store'[c[1]] = Put(store[t], i, ValueIn(store[t], i) + n)
    BY <1>1, <1>2, <1>4, Zenon DEF TypeOK
  <2>2. ValueIn(store'[c[1]], c[2])
          = IF c[2] = i THEN ValueIn(store[t], i) + n ELSE ValueIn(store[t], c[2])
    BY <1>1, <1>3, <2>1, PutValue
  <2>3. (c = <<t, i>>) <=> (c[2] = i)
    BY <1>1, <1>4
  <2>4. QED
    BY <1>4, <2>2, <2>3 DEF Waiting
<1>5. ASSUME c[1] # t PROVE Waiting(c)' = Waiting(c) /\ c # <<t, i>>
  <2>1. store'[c[1]] = store[c[1]]
    BY <1>1, <1>2, <1>5, Zenon DEF TypeOK
  <2>2. QED
    BY <1>1, <1>5, <2>1 DEF Waiting
<1>6. Writing(c)' = Writing(c)
  BY DEF addNewRecord, goroutine, Writing
<1>7. QED
  BY <1>4, <1>5, <1>6

LEMMA SwapEffect ==
  ASSUME TypeOK, Swap, NEW c \in Counters
  PROVE  /\ Writing(c) = 0
         /\ Writing(c)' = IF c[1] = turn THEN Waiting(c) ELSE 0
         /\ Waiting(c)' = IF c[1] = turn THEN 0 ELSE Waiting(c)
<1>1. c[1] \in Types /\ c[2] \in Ids /\ turn' = turn /\ batch = Empty
  BY CounterParts DEF Swap, TypeOK
<1>2. batch' = store[turn] /\ store' = [store EXCEPT ![turn] = Empty]
  BY Zenon DEF Swap
<1>3. Writing(c) = 0
  BY <1>1, EmptyMap DEF Writing
<1>4. Writing(c)' = IF c[1] = turn THEN Waiting(c) ELSE 0
  BY <1>1, <1>2 DEF Writing, Waiting
<1>5. CASE c[1] = turn
  <2>1. store'[c[1]] = Empty
    BY <1>1, <1>2, <1>5, Zenon DEF TypeOK
  <2>2. QED
    BY <1>1, <1>3, <1>4, <1>5, <2>1, EmptyMap DEF Waiting
<1>6. CASE c[1] # turn
  <2>1. store'[c[1]] = store[c[1]]
    BY <1>1, <1>2, <1>6, Zenon DEF TypeOK
  <2>2. QED
    BY <1>3, <1>4, <1>6, <2>1 DEF Waiting
<1>7. QED
  BY <1>5, <1>6

LEMMA ApplyEffect ==
  ASSUME TypeOK, NEW i \in Ids, Apply(i) \/ ApplyFails(i), NEW c \in Counters
  PROVE  /\ Waiting(c)' = Waiting(c)
         /\ Writing(c)' = IF c = <<turn, i>> THEN 0 ELSE Writing(c)
         /\ <<turn, i>> \in Counters /\ Writing(<<turn, i>>) = batch[i]
<1>1. c[1] \in Types /\ c[2] \in Ids /\ c = <<c[1], c[2]>>
  BY CounterParts
<1>2. /\ store' = store /\ turn' = turn /\ batch' = Without(batch, i)
      /\ turn \in Types /\ i \in DOMAIN batch /\ IsMap(batch)
  BY TypesFacts DEF Apply, ApplyFails, TypeOK
<1>3. ValueIn(batch', c[2]) = IF c[2] = i THEN 0 ELSE ValueIn(batch, c[2])
  BY <1>1, <1>2, WithoutValue
<1>4. Writing(c)' = IF c = <<turn, i>> THEN 0 ELSE Writing(c)
  BY <1>1, <1>2, <1>3 DEF Writing
<1>5. QED
  BY <1>2, <1>4 DEF Waiting, Writing, ValueIn, Counters

LEMMA TurnEffect ==
  ASSUME TypeOK, Wake \/ NextType, NEW c \in Counters
  PROVE  Waiting(c)' = Waiting(c) /\ Writing(c)' = Writing(c)
<1>1. store' = store /\ batch' = batch /\ DOMAIN batch = {}
  BY TypesFacts DEF Wake, NextType, TypeOK, Empty
<1>2. QED
  BY <1>1 DEF Waiting, Writing, ValueIn

LEMMA RestartEffect ==
  ASSUME TypeOK, Restart, NEW c \in Counters
  PROVE  /\ Waiting(c)' = 0 /\ Writing(c)' = 0
         /\ lost'[c] = lost[c] + Waiting(c) + Writing(c)
<1>1. c[1] \in Types /\ c[2] \in Ids
  BY CounterParts
<1>2. store'[c[1]] = Empty /\ batch' = Empty
  BY <1>1, Zenon DEF Restart
<1>3. QED
  BY <1>1, <1>2, EmptyMap DEF Restart, Waiting, Writing

-----------------------------------------------------------------------------
(* Conservation. *)

\* Nothing posted is written twice, and nothing is missing but what a failed
\* statement or a restart dropped.
THEOREM Conservation == Spec => []Conserved
<1>1. Init => Conserved
  <2> SUFFICES ASSUME Init, NEW c \in Counters
               PROVE  posted[c] = db[c] + Waiting(c) + Writing(c) + lost[c]
    BY DEF Conserved
  <2>1. store[c[1]] = Empty /\ batch = Empty /\ c[2] \in Ids
    BY DEF Init, Counters
  <2>2. QED
    BY <2>1, EmptyMap DEF Init, Waiting, Writing
<1>2. TypeOK /\ Conserved /\ [Next]_vars => Conserved'
  <2> SUFFICES ASSUME TypeOK, Conserved, [Next]_vars, NEW c \in Counters
               PROVE  posted'[c] = db'[c] + Waiting(c)' + Writing(c)' + lost'[c]
    BY DEF Conserved
  <2>1. posted[c] = db[c] + Waiting(c) + Writing(c) + lost[c]
    BY DEF Conserved
  <2>2. CASE Posting
    <3>1. PICK t \in Types, i \in Ids, n \in Int : addNewRecord(t, i, n)
      BY <2>2, ChangesFacts DEF Posting
    <3>2. posted'[c] = IF c = <<t, i>> THEN posted[c] + n ELSE posted[c]
      BY <3>1 DEF addNewRecord, TypeOK
    <3>3. db' = db /\ lost' = lost
      BY <3>1 DEF addNewRecord
    <3>4. QED
      BY <2>1, <3>1, <3>2, <3>3, PostEffect, CounterParts
  <2>3. CASE Wake \/ NextType
    <3>1. posted' = posted /\ db' = db /\ lost' = lost
      BY <2>3 DEF Wake, NextType, history
    <3>2. QED
      BY <2>1, <2>3, <3>1, TurnEffect
  <2>4. CASE Swap
    <3>1. posted' = posted /\ db' = db /\ lost' = lost
      BY <2>4 DEF Swap, history
    <3>2. QED
      BY <2>1, <2>4, <3>1, SwapEffect, CounterParts
  <2>5. ASSUME NEW i \in Ids, Apply(i) PROVE posted'[c] = db'[c] + Waiting(c)' + Writing(c)' + lost'[c]
    <3>1. posted' = posted /\ lost' = lost
      BY <2>5 DEF Apply, history
    <3>2. db'[c] = IF c = <<turn, i>> THEN db[c] + Writing(c) ELSE db[c]
      <4>1. <<turn, i>> \in Counters /\ Writing(<<turn, i>>) = batch[i]
        BY <2>5, ApplyEffect
      <4>2. db' = [db EXCEPT ![<<turn, i>>] = db[<<turn, i>>] + batch[i]]
        BY <2>5, Zenon DEF Apply
      <4>3. db \in [Counters -> Int]
        BY DEF TypeOK
      <4>4. QED
        BY <4>1, <4>2, <4>3
    <3>3. Waiting(c)' = Waiting(c) /\ Writing(c)' = IF c = <<turn, i>> THEN 0 ELSE Writing(c)
      BY <2>5, ApplyEffect
    <3>4. Writing(c) \in Int /\ Waiting(c) \in Int /\ db[c] \in Int /\ lost[c] \in Int
      BY CounterParts
    <3>5. QED
      BY <2>1, <3>1, <3>2, <3>3, <3>4
  <2>6. ASSUME NEW i \in Ids, ApplyFails(i) PROVE posted'[c] = db'[c] + Waiting(c)' + Writing(c)' + lost'[c]
    <3>1. posted' = posted /\ db' = db
      BY <2>6 DEF ApplyFails
    <3>2. lost'[c] = IF c = <<turn, i>> THEN lost[c] + Writing(c) ELSE lost[c]
      <4>1. <<turn, i>> \in Counters /\ Writing(<<turn, i>>) = batch[i]
        BY <2>6, ApplyEffect
      <4>2. lost' = [lost EXCEPT ![<<turn, i>>] = lost[<<turn, i>>] + batch[i]]
        BY <2>6, Zenon DEF ApplyFails
      <4>3. lost \in [Counters -> Int]
        BY DEF TypeOK
      <4>4. QED
        BY <4>1, <4>2, <4>3
    <3>3. Waiting(c)' = Waiting(c) /\ Writing(c)' = IF c = <<turn, i>> THEN 0 ELSE Writing(c)
      BY <2>6, ApplyEffect
    <3>4. Writing(c) \in Int /\ Waiting(c) \in Int /\ db[c] \in Int /\ lost[c] \in Int
      BY CounterParts
    <3>5. QED
      BY <2>1, <3>1, <3>2, <3>3, <3>4
  <2>7. CASE Restart
    <3>1. posted' = posted /\ db' = db
      BY <2>7 DEF Restart
    <3>2. QED
      BY <2>1, <2>7, <3>1, RestartEffect, CounterParts
  <2>8. CASE UNCHANGED vars
    BY <2>1, <2>8 DEF vars, goroutine, history, Waiting, Writing
  <2>9. QED
    BY <2>2, <2>3, <2>4, <2>5, <2>6, <2>7, <2>8, NextSplits DEF Draining, TypeOK
<1>3. QED
  BY <1>1, <1>2, BatchTypes, PTL DEF Spec

-----------------------------------------------------------------------------
(* Refinement. *)

\* The maps of all types together implement one write-behind counter per type
\* and row: a posted amount reaches its row once, with what was posted before it.
THEOREM Refinement == Spec => WriteBehindCounters
<1> DEFINE writing == [c \in Counters |-> Writing(c)]
           waiting == [c \in Counters |-> Waiting(c)]
<1>1. Init => Behind!Init
  <2> SUFFICES ASSUME Init PROVE Behind!Init
    OBVIOUS
  <2>1. \A c \in Counters : Waiting(c) = 0 /\ Writing(c) = 0
    <3> SUFFICES ASSUME NEW c \in Counters PROVE Waiting(c) = 0 /\ Writing(c) = 0
      OBVIOUS
    <3>1. store[c[1]] = Empty /\ batch = Empty /\ c[2] \in Ids
      BY DEF Init, Counters
    <3>2. QED
      BY <3>1, EmptyMap DEF Waiting, Writing
  <2>2. QED
    BY <2>1 DEF Init, Behind!Init, Behind!zero
<1>2. TypeOK /\ [Next]_vars => [Behind!Next]_(Behind!vars)
  <2> SUFFICES ASSUME TypeOK, [Next]_vars PROVE [Behind!Next]_(Behind!vars)
    OBVIOUS
  <2>1. CASE Posting
    <3>1. PICK t \in Types, i \in Ids, n \in Changes : addNewRecord(t, i, n)
      BY <2>1 DEF Posting
    <3>2. n \in Int /\ <<t, i>> \in Counters
      BY ChangesFacts DEF Counters
    <3>3. \A c \in Counters : /\ Waiting(c)' = IF c = <<t, i>> THEN Waiting(c) + n ELSE Waiting(c)
                              /\ Writing(c)' = Writing(c)
      BY <3>1, <3>2, PostEffect
    <3>4. waiting' = [waiting EXCEPT ![<<t, i>>] = waiting[<<t, i>>] + n] /\ writing' = writing
      BY <3>2, <3>3
    <3>5. db' = db
      BY <3>1 DEF addNewRecord
    <3>6. Behind!Accept(<<t, i>>, n)
      BY <3>4, <3>5 DEF Behind!Accept
    <3>7. QED
      BY <3>2, <3>6 DEF Behind!Next
  <2>2. CASE Wake \/ NextType
    <3>1. waiting' = waiting /\ writing' = writing
      BY <2>2, TurnEffect
    <3>2. db' = db
      BY <2>2 DEF Wake, NextType
    <3>3. QED
      BY <3>1, <3>2 DEF Behind!vars
  <2>3. CASE Swap
    <3> DEFINE C == {c \in Counters : c[1] = turn}
    <3>1. \A c \in Counters : /\ Writing(c) = 0
                              /\ Writing(c)' = IF c \in C THEN Waiting(c) ELSE 0
                              /\ Waiting(c)' = IF c \in C THEN 0 ELSE Waiting(c)
      <4> SUFFICES ASSUME NEW c \in Counters
                   PROVE  /\ Writing(c) = 0
                          /\ Writing(c)' = IF c \in C THEN Waiting(c) ELSE 0
                          /\ Waiting(c)' = IF c \in C THEN 0 ELSE Waiting(c)
        OBVIOUS
      <4>1. (c \in C) <=> (c[1] = turn)
        OBVIOUS
      <4>2. /\ Writing(c) = 0
            /\ Writing(c)' = IF c[1] = turn THEN Waiting(c) ELSE 0
            /\ Waiting(c)' = IF c[1] = turn THEN 0 ELSE Waiting(c)
        BY <2>3, SwapEffect
      <4>3. QED
        BY <4>1, <4>2
    <3>2. db' = db
      BY <2>3 DEF Swap
    <3>3. C \in SUBSET Counters
      OBVIOUS
    <3> HIDE DEF C
    <3>4. writing = Behind!zero
      BY <3>1 DEF Behind!zero
    <3>5. writing' = [c \in Counters |-> IF c \in C THEN waiting[c] ELSE 0]
      BY <3>1
    <3>6. waiting' = [c \in Counters |-> IF c \in C THEN 0 ELSE waiting[c]]
      BY <3>1
    <3>7. Behind!PickUp(C)
      BY <3>2, <3>4, <3>5, <3>6 DEF Behind!PickUp
    <3>8. QED
      BY <3>3, <3>7 DEF Behind!Next
  <2>4. ASSUME NEW i \in Ids, Apply(i) \/ ApplyFails(i) PROVE Behind!Next
    <3> DEFINE k == <<turn, i>>
    <3>0. k \in Counters
      BY <2>4, TypesFacts DEF Apply, ApplyFails, TypeOK, Counters
    <3>1. Writing(k) = batch[i]
      BY <2>4, <3>0, ApplyEffect
    <3>2. \A c \in Counters : Waiting(c)' = Waiting(c) /\ Writing(c)' = IF c = k THEN 0 ELSE Writing(c)
      BY <2>4, ApplyEffect
    <3>3. db' = db \/ db' = [db EXCEPT ![k] = db[k] + batch[i]]
      BY <2>4 DEF Apply, ApplyFails
    <3> HIDE DEF k
    <3>4. waiting' = waiting /\ writing' = [writing EXCEPT ![k] = 0] /\ writing[k] = batch[i]
      BY <3>0, <3>1, <3>2
    <3>5. Behind!Drop(k) \/ Behind!Write(k)
      BY <3>3, <3>4 DEF Behind!Drop, Behind!Write
    <3>6. QED
      BY <3>0, <3>5 DEF Behind!Next
  <2>5. CASE Restart
    <3>1. \A c \in Counters : Waiting(c)' = 0 /\ Writing(c)' = 0
      BY <2>5, RestartEffect
    <3>2. db' = db
      BY <2>5 DEF Restart
    <3>3. Behind!Crash
      BY <3>1, <3>2 DEF Behind!Crash, Behind!zero
    <3>4. QED
      BY <3>3 DEF Behind!Next
  <2>6. CASE UNCHANGED vars
    BY <2>6 DEF vars, goroutine, history, Behind!vars, Waiting, Writing
  <2>7. QED
    BY <2>1, <2>2, <2>3, <2>4, <2>5, <2>6, NextSplits DEF Draining, TypeOK
<1>3. QED
  BY <1>1, <1>2, BatchTypes, PTL DEF Spec, WriteBehindCounters, Behind!Spec
=============================================================================
