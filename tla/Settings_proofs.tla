-------------------------- MODULE Settings_proofs --------------------------
(***************************************************************************)
(* ChargesAsGiven for any nodes, editors, tables, requests and bounds.  It *)
(* is not inductive: what a node shows may differ from what it was given   *)
(* by the entries that were added, and what it uses differs from what it   *)
(* shows while the mutex is held, so the invariant says who holds the      *)
(* mutex, and for which option.  BehindHasCause needs besides what rows    *)
(* that a node has polled, or is setting, have to do with the database.    *)
(***************************************************************************)
EXTENDS Settings, TLAPS

JobFields == {"pc", "node", "key", "raw", "text"}
InLock == {"config", "fill"}

Shapes ==
  /\ scope \in Scopes /\ DOMAIN db = scope.keys
  /\ DOMAIN job = Actors /\ DOMAIN lock = Nodes /\ DOMAIN todo = Nodes
  /\ DOMAIN given = Nodes /\ DOMAIN shown = Nodes /\ DOMAIN used = Nodes
  /\ \A a \in Actors : DOMAIN job[a] = JobFields
  /\ \A n \in Nodes : /\ DOMAIN given[n] = scope.keys /\ DOMAIN shown[n] = scope.keys
                      /\ DOMAIN used[n] = scope.keys /\ DOMAIN todo[n] \subseteq scope.keys

OwnText(j) == j.text \in {j.raw, Loaded(j.key, j.raw)}

Jobs == \A a \in Actors : job[a].pc # "idle" =>
          job[a].node \in Nodes /\ job[a].key \in scope.keys /\ OwnText(job[a])

Holders == \A a \in Actors, n \in Nodes : lock[n] = a <=> (job[a].node = n /\ job[a].pc \in InLock)

Held == \A a \in Actors : job[a].pc \in InLock => shown[job[a].node][job[a].key] = job[a].text

Applied == \A n \in Nodes, k \in scope.keys :
             used[n][k] = Parse(k, shown[n][k]) \/ (lock[n] \in Actors /\ job[lock[n]].key = k)

Sources == \A n \in Nodes, k \in scope.keys : shown[n][k] \in {given[n][k], Loaded(k, given[n][k])}

IInv == Shapes /\ Jobs /\ Holders /\ Held /\ Applied /\ Sources

-----------------------------------------------------------------------------
(* Prices. *)

\* Adding the entries that are missing changes no price (AddNewMissingRatio).
THEOREM AddingKeepsPrices ==
  ASSUME NEW table, NEW m \in Names, NEW t \in Types
  PROVE  GetModelRatio(MissingAdded(table), m, t) = GetModelRatio(table, m, t)
<1> DEFINE base == PromptBase[m]
           model == Specific[base][t]
           more == MissingAdded(table)
<1>1. DOMAIN more = DOMAIN table \cup DOMAIN DefaultModelRatio
  BY DEF MissingAdded
<1>2. \A e \in DOMAIN more : more[e] = IF e \in DOMAIN table THEN table[e] ELSE DefaultModelRatio[e]
  BY DEF MissingAdded
<1> HIDE DEF more
<1>3. GetModelRatio(more, m, t) = GetModelRatio(table, m, t)
  BY <1>1, <1>2, Zenon DEF GetModelRatio
<1> QED
  BY <1>3 DEF more

\* Whatever text a node was given, showing it as it is or with what is missing gives
\* the same prices.
LEMMA LoadedKeepsPrices ==
  ASSUME NEW k \in TableKeys, NEW text
  PROVE  SamePrices(k, Parse(k, Loaded(k, text)), Parse(k, text))
<1>1. CASE k = "ModelRatio" /\ text.kind = "good"
  <2>1. Parse(k, Loaded(k, text)) = MissingAdded(text.value) /\ Parse(k, text) = text.value
    BY <1>1 DEF Parse, Loaded, AddNewMissingRatio, Text, TableKeys
  <2> QED
    BY <1>1, <2>1, AddingKeepsPrices DEF SamePrices
<1>2. CASE ~(k = "ModelRatio" /\ text.kind = "good")
  <2>1. Loaded(k, text) = text
    BY <1>2 DEF Loaded, AddNewMissingRatio
  <2> QED
    BY <2>1 DEF SamePrices
<1> QED
  BY <1>1, <1>2

\* And the same value, for an option that is not a table.
LEMMA LoadedKeepsValues ==
  ASSUME NEW k, k \notin TableKeys, NEW text
  PROVE  Loaded(k, text) = text
BY DEF Loaded, TableKeys

LEMMA InvariantCharges == IInv => ChargesAsGiven
<1> SUFFICES ASSUME IInv, NEW n \in Nodes, lock[n] = "none", NEW k \in scope.keys
             PROVE  /\ used[n][k] = Parse(k, shown[n][k])
                    /\ IF k \in TableKeys THEN SamePrices(k, used[n][k], Parse(k, given[n][k]))
                       ELSE used[n][k] = Parse(k, given[n][k])
  BY DEF ChargesAsGiven
<1>1. used[n][k] = Parse(k, shown[n][k])
  BY SettingsAssumption DEF IInv, Applied, Actors
<1>2. shown[n][k] \in {given[n][k], Loaded(k, given[n][k])}
  BY DEF IInv, Sources
<1>3. CASE k \in TableKeys
  <2>1. SamePrices(k, Parse(k, given[n][k]), Parse(k, given[n][k]))
    BY DEF SamePrices
  <2> QED
    BY <1>1, <1>2, <1>3, <2>1, LoadedKeepsPrices
<1>4. CASE k \notin TableKeys
  BY <1>1, <1>2, <1>4, LoadedKeepsValues
<1> QED
  BY <1>1, <1>3, <1>4

-----------------------------------------------------------------------------
(* The invariant. *)

LEMMA InitInvariant == Init => IInv
<1> SUFFICES ASSUME Init PROVE IInv
  OBVIOUS
<1>1. \A a \in Actors : job[a] = Idle
  BY DEF Init
<1>2. \A n \in Nodes : lock[n] = "none"
  BY DEF Init
<1>3. \A n \in Nodes, k \in scope.keys :
        /\ given[n][k] = Given(k, FirstRead) /\ shown[n][k] = Shown(k, FirstRead)
        /\ used[n][k] = Parse(k, Shown(k, FirstRead))
  BY DEF Init
<1>4. Shapes
  BY <1>1 DEF Init, Shapes, Idle, JobFields, EmptyTable
<1>5. Jobs /\ Holders /\ Held
  BY <1>1, <1>2, SettingsAssumption DEF Jobs, Holders, Held, Idle, InLock, Actors
<1>6. Applied
  BY <1>3 DEF Applied
<1>7. Sources
  BY <1>3 DEF Sources, Given, Shown
<1> QED
  BY <1>4, <1>5, <1>6, <1>7 DEF IInv

\* Steps of UpdateOption before it comes to the map.
LEMMA EditorStep ==
  ASSUME IInv, NEW x \in Editors, UpdateOption(x) \/ Create(x) \/ Save(x) \/ SaveFails(x)
  PROVE  IInv'
<1>1. UNCHANGED <<scope, shown, used, lock, todo, given>> /\ DOMAIN db' = DOMAIN db
  BY DEF UpdateOption, Create, Save, SaveFails, WriteRow, ghosts
<1>2. PICK j : /\ job' = [job EXCEPT ![x] = j] /\ DOMAIN j = JobFields
               /\ j.pc \notin InLock /\ j.node \in Nodes /\ j.key \in scope.keys /\ OwnText(j)
  <2>1. CASE UpdateOption(x)
    <3>1. PICK n \in Hosts[x], r \in scope.requests : job' = [job EXCEPT ![x] = Job("create", n, r.key, r.text, r.text)]
      BY <2>1 DEF UpdateOption
    <3>2. n \in Nodes /\ r.key \in scope.keys
      BY SettingsAssumption DEF IInv, Shapes
    <3> DEFINE j == Job("create", n, r.key, r.text, r.text)
    <3>3. DOMAIN j = JobFields /\ j.pc \notin InLock /\ j.node \in Nodes /\ j.key \in scope.keys /\ OwnText(j)
      BY <3>2 DEF Job, JobFields, InLock, OwnText
    <3> HIDE DEF j
    <3> QED
      BY <3>1, <3>3 DEF j
  <2>2. CASE Create(x) \/ Save(x) \/ SaveFails(x)
    <3>1. job[x].pc # "idle" /\ \E pc \in {"save", "map"} : job' = [job EXCEPT ![x] = [job[x] EXCEPT !.pc = pc]]
      BY <2>2 DEF Create, Save, SaveFails, Goto
    <3>2. PICK pc \in {"save", "map"} : job' = [job EXCEPT ![x] = [job[x] EXCEPT !.pc = pc]]
      BY <3>1
    <3> DEFINE j == [job[x] EXCEPT !.pc = pc]
    <3>3. DOMAIN job[x] = JobFields /\ job[x].node \in Nodes /\ job[x].key \in scope.keys /\ OwnText(job[x])
      BY <3>1 DEF IInv, Shapes, Jobs, Actors
    <3>4. DOMAIN j = JobFields /\ j.pc = pc /\ j.node = job[x].node /\ j.key = job[x].key /\ j.raw = job[x].raw /\ j.text = job[x].text
      BY <3>3 DEF JobFields
    <3>5. j.pc \notin InLock /\ OwnText(j)
      BY <3>3, <3>4 DEF OwnText, InLock
    <3> HIDE DEF j
    <3> QED
      BY <3>2, <3>3, <3>4, <3>5 DEF j
  <2> QED
    BY <2>1, <2>2
<1>3. \A n \in Nodes : lock[n] # x
  <2>1. job[x].pc \notin InLock
    BY DEF UpdateOption, Create, Save, SaveFails, InLock
  <2> QED
    BY <2>1 DEF IInv, Holders, Actors
<1>4. x \in Actors /\ DOMAIN job = Actors
  BY DEF Actors, IInv, Shapes
<1>5. Shapes'
  BY <1>1, <1>2, <1>4 DEF IInv, Shapes
<1>6. Jobs' /\ Holders' /\ Held'
  BY <1>1, <1>2, <1>3, <1>4 DEF IInv, Jobs, Holders, Held, OwnText, Loaded
<1>7. Applied' /\ Sources'
  BY <1>1, <1>2, <1>3, <1>4 DEF IInv, Applied, Sources
<1> QED
  BY <1>5, <1>6, <1>7 DEF IInv

\* The mutex is taken, and the map changed.
LEMMA MapPreserves ==
  ASSUME IInv, NEW a \in Actors, MapStep(a)
  PROVE  IInv'
<1> DEFINE n == job[a].node
           k == job[a].key
<1>1. /\ job[a].pc = "map" /\ lock[n] = "none" /\ UNCHANGED <<scope, db, used, todo>>
      /\ lock' = [lock EXCEPT ![n] = a] /\ job' = [job EXCEPT ![a].pc = "config"]
      /\ shown' = [shown EXCEPT ![n][k] = job[a].text] /\ given' = [given EXCEPT ![n][k] = job[a].raw]
  BY DEF MapStep, Goto
<1>2. n \in Nodes /\ k \in scope.keys /\ OwnText(job[a]) /\ DOMAIN job[a] = JobFields /\ DOMAIN job = Actors
  BY <1>1 DEF IInv, Jobs, Shapes
<1>3. job'[a] = [job[a] EXCEPT !.pc = "config"] /\ \A b \in Actors \ {a} : job'[b] = job[b]
  BY <1>1, <1>2
<1>4. /\ job'[a].pc = "config" /\ job'[a].node = n /\ job'[a].key = k
      /\ job'[a].raw = job[a].raw /\ job'[a].text = job[a].text /\ DOMAIN job'[a] = JobFields
  BY <1>2, <1>3 DEF JobFields
<1>5. /\ DOMAIN lock = Nodes /\ DOMAIN shown = Nodes /\ DOMAIN given = Nodes
      /\ \A m \in Nodes : DOMAIN shown[m] = scope.keys /\ DOMAIN given[m] = scope.keys
  BY DEF IInv, Shapes
<1>6. lock'[n] = a /\ \A m \in Nodes \ {n} : lock'[m] = lock[m]
  BY <1>1, <1>2, <1>5
<1>7. /\ shown'[n][k] = job[a].text /\ given'[n][k] = job[a].raw
      /\ \A m \in Nodes, q \in scope.keys : m # n \/ q # k => shown'[m][q] = shown[m][q] /\ given'[m][q] = given[m][q]
  BY <1>1, <1>2, <1>5
<1>8. \A b \in Actors : b # a => ~(job[b].node = n /\ job[b].pc \in InLock)
  BY <1>1, <1>2, SettingsAssumption DEF IInv, Holders, Actors
<1>0. shown'[n][k] \in {given'[n][k], Loaded(k, given'[n][k])}
  BY <1>2, <1>7 DEF OwnText
<1> HIDE DEF n, k
<1>9. Shapes'
  BY <1>1, <1>2, <1>3, <1>4, <1>5 DEF IInv, Shapes
<1>10. Jobs'
  BY <1>1, <1>2, <1>3, <1>4 DEF IInv, Jobs, OwnText, Loaded
<1>11. Holders'
  <2> SUFFICES ASSUME NEW b \in Actors, NEW m \in Nodes
               PROVE  lock'[m] = b <=> (job'[b].node = m /\ job'[b].pc \in InLock)
    BY DEF Holders
  <2>1. CASE b = a /\ m = n
    BY <1>4, <1>6, <2>1 DEF InLock
  <2>2. CASE b = a /\ m # n
    <3>1. lock[m] # a
      BY <1>1 DEF IInv, Holders, InLock
    <3> QED
      BY <1>4, <1>6, <2>2, <3>1
  <2>3. CASE b # a /\ m = n
    BY <1>3, <1>6, <1>8, <2>3
  <2>4. CASE b # a /\ m # n
    BY <1>3, <1>6, <2>4 DEF IInv, Holders
  <2> QED
    BY <2>1, <2>2, <2>3, <2>4
<1>12. Held'
  <2> SUFFICES ASSUME NEW b \in Actors, job'[b].pc \in InLock
               PROVE  shown'[job'[b].node][job'[b].key] = job'[b].text
    BY DEF Held
  <2>1. CASE b = a
    BY <1>4, <1>7, <2>1
  <2>2. CASE b # a
    <3>1. job[b].pc \in InLock /\ job[b].node \in Nodes /\ job[b].key \in scope.keys
      BY <1>3, <2>2 DEF IInv, Jobs, InLock
    <3>2. job[b].node # n
      BY <1>8, <2>2, <3>1
    <3> QED
      BY <1>3, <1>7, <2>2, <3>1, <3>2 DEF IInv, Held
  <2> QED
    BY <2>1, <2>2
<1>13. Applied'
  <2> SUFFICES ASSUME NEW m \in Nodes, NEW q \in scope.keys
               PROVE  used[m][q] = Parse(q, shown'[m][q]) \/ (lock'[m] \in Actors /\ job'[lock'[m]].key = q)
    BY <1>1 DEF Applied
  <2>1. CASE m = n /\ q = k
    BY <1>4, <1>6, <2>1
  <2>2. CASE m = n /\ q # k
    <3>1. used[m][q] = Parse(q, shown[m][q])
      BY <1>1, <2>2, SettingsAssumption DEF IInv, Applied, Actors
    <3> QED
      BY <1>7, <2>2, <3>1
  <2>3. CASE m # n
    <3>1. CASE used[m][q] = Parse(q, shown[m][q])
      BY <1>7, <2>3, <3>1
    <3>2. CASE lock[m] \in Actors /\ job[lock[m]].key = q
      <4>1. lock[m] # a
        BY <1>1 DEF IInv, Holders, InLock
      <4> QED
        BY <1>3, <1>6, <2>3, <3>2, <4>1
    <3> QED
      BY <3>1, <3>2 DEF IInv, Applied
  <2> QED
    BY <2>1, <2>2, <2>3
<1>14. Sources'
  <2> SUFFICES ASSUME NEW m \in Nodes, NEW q \in scope.keys
               PROVE  shown'[m][q] \in {given'[m][q], Loaded(q, given'[m][q])}
    BY <1>1 DEF Sources
  <2>1. CASE m = n /\ q = k
    BY <1>0, <2>1
  <2>2. CASE ~(m = n /\ q = k)
    BY <1>7, <2>2 DEF IInv, Sources
  <2> QED
    BY <2>1, <2>2
<1> QED
  BY <1>9, <1>10, <1>11, <1>12, <1>13, <1>14 DEF IInv

\* The variable is set, and the mutex released, or the completion ratios are emptied.
LEMMA ConfigPreserves ==
  ASSUME IInv, NEW a \in Actors, ConfigStep(a) \/ FillStep(a)
  PROVE  IInv'
<1> DEFINE n == job[a].node
           k == job[a].key
<1>1. job[a].pc \in InLock /\ UNCHANGED <<scope, db, shown, todo, given>>
  BY DEF ConfigStep, FillStep, InLock, ghosts
<1>2. n \in Nodes /\ k \in scope.keys /\ OwnText(job[a]) /\ DOMAIN job[a] = JobFields /\ DOMAIN job = Actors
  BY <1>1 DEF IInv, Jobs, Shapes, InLock
<1>3. lock[n] = a /\ shown[n][k] = job[a].text
  BY <1>1, <1>2 DEF IInv, Holders, Held
<1>4. \A m \in Nodes \ {n} : lock[m] # a
  BY <1>1 DEF IInv, Holders
<1>5. \A b \in Actors \ {a} : ~(job[b].node = n /\ job[b].pc \in InLock)
  BY <1>2, <1>3 DEF IInv, Holders
<1>6. DOMAIN lock = Nodes /\ DOMAIN used = Nodes /\ \A m \in Nodes : DOMAIN used[m] = scope.keys
  BY DEF IInv, Shapes
<1>7. CASE /\ used' = [used EXCEPT ![n][k] = Parse(k, job[a].text)]
           /\ lock' = [lock EXCEPT ![n] = "none"] /\ job' = [job EXCEPT ![a] = Idle]
  <2>1. job'[a] = Idle /\ \A b \in Actors \ {a} : job'[b] = job[b]
    BY <1>2, <1>7
  <2>2. lock'[n] = "none" /\ \A m \in Nodes \ {n} : lock'[m] = lock[m]
    BY <1>2, <1>6, <1>7
  <2>3. /\ used'[n][k] = Parse(k, shown[n][k])
        /\ \A m \in Nodes, q \in scope.keys : m # n \/ q # k => used'[m][q] = used[m][q]
    BY <1>2, <1>3, <1>6, <1>7
  <2>4. \A m \in Nodes : DOMAIN used'[m] = scope.keys
    BY <1>6, <1>7
  <2>5. Shapes'
    BY <1>1, <1>2, <1>7, <2>1, <2>4 DEF IInv, Shapes, Idle, JobFields
  <2> HIDE DEF n, k
  <2>6. Jobs'
    BY <1>1, <2>1 DEF IInv, Jobs, OwnText, Loaded, Idle
  <2>7. Holders'
    <3> SUFFICES ASSUME NEW b \in Actors, NEW m \in Nodes
                 PROVE  lock'[m] = b <=> (job'[b].node = m /\ job'[b].pc \in InLock)
      BY DEF Holders
    <3>1. CASE m = n
      BY <1>5, <2>1, <2>2, <3>1, SettingsAssumption DEF Idle, InLock, Actors
    <3>2. CASE m # n
      BY <1>4, <2>1, <2>2, <3>2 DEF IInv, Holders, Idle, InLock
    <3> QED
      BY <3>1, <3>2
  <2>8. Held'
    BY <1>1, <2>1 DEF IInv, Held, Idle, InLock
  <2>9. Applied'
    <3> SUFFICES ASSUME NEW m \in Nodes, NEW q \in scope.keys
                 PROVE  used'[m][q] = Parse(q, shown[m][q]) \/ (lock'[m] \in Actors /\ job'[lock'[m]].key = q)
      BY <1>1 DEF Applied
    <3>1. CASE m = n /\ q = k
      BY <2>3, <3>1
    <3>2. CASE m = n /\ q # k
      <4>1. job[lock[m]].key # q
        BY <1>3, <3>2 DEF k
      <4>2. used[m][q] = Parse(q, shown[m][q])
        BY <4>1 DEF IInv, Applied
      <4> QED
        BY <2>3, <3>2, <4>2
    <3>3. CASE m # n
      BY <1>4, <2>1, <2>2, <2>3, <3>3 DEF IInv, Applied
    <3> QED
      BY <3>1, <3>2, <3>3
  <2>10. Sources'
    BY <1>1 DEF IInv, Sources
  <2> QED
    BY <2>5, <2>6, <2>7, <2>8, <2>9, <2>10 DEF IInv
<1>8. CASE /\ used' = [used EXCEPT ![n][k] = EmptyTable] /\ UNCHANGED lock
           /\ job' = [job EXCEPT ![a].pc = "fill"]
  <2>1. job'[a] = [job[a] EXCEPT !.pc = "fill"] /\ \A b \in Actors \ {a} : job'[b] = job[b]
    BY <1>2, <1>8
  <2>2. /\ job'[a].pc = "fill" /\ job'[a].node = n /\ job'[a].key = k
        /\ job'[a].raw = job[a].raw /\ job'[a].text = job[a].text /\ DOMAIN job'[a] = JobFields
    BY <1>2, <2>1 DEF JobFields
  <2>3. \A m \in Nodes, q \in scope.keys : m # n \/ q # k => used'[m][q] = used[m][q]
    BY <1>2, <1>6, <1>8
  <2>4. \A m \in Nodes : DOMAIN used'[m] = scope.keys
    BY <1>6, <1>8
  <2>5. Shapes'
    BY <1>1, <1>2, <1>8, <2>1, <2>2, <2>4 DEF IInv, Shapes
  <2>6. Jobs'
    <3>1. job'[a].node \in Nodes /\ job'[a].key \in scope.keys /\ OwnText(job'[a])
      BY <1>2, <2>2 DEF OwnText
    <3> QED
      BY <1>1, <2>1, <3>1 DEF IInv, Jobs
  <2>7. Holders'
    <3> SUFFICES ASSUME NEW b \in Actors, NEW m \in Nodes
                 PROVE  lock[m] = b <=> (job'[b].node = m /\ job'[b].pc \in InLock)
      BY <1>8 DEF Holders
    <3>1. job'[b].node = job[b].node /\ (job'[b].pc \in InLock <=> job[b].pc \in InLock)
      BY <1>1, <2>1, <2>2 DEF InLock
    <3> QED
      BY <3>1 DEF IInv, Holders
  <2>8. Held'
    <3> SUFFICES ASSUME NEW b \in Actors, job'[b].pc \in InLock
                 PROVE  shown[job'[b].node][job'[b].key] = job'[b].text
      BY <1>1 DEF Held
    <3>1. CASE b = a
      BY <1>3, <2>2, <3>1
    <3>2. CASE b # a
      BY <2>1, <3>2 DEF IInv, Held
    <3> QED
      BY <3>1, <3>2
  <2>9. Applied'
    <3> SUFFICES ASSUME NEW m \in Nodes, NEW q \in scope.keys
                 PROVE  used'[m][q] = Parse(q, shown[m][q]) \/ (lock[m] \in Actors /\ job'[lock[m]].key = q)
      BY <1>1, <1>8 DEF Applied
    <3>1. CASE m = n /\ q = k
      BY <1>3, <2>2, <3>1
    <3>2. CASE ~(m = n /\ q = k)
      <4>1. \A b \in Actors : job'[b].key = job[b].key
        BY <2>1, <2>2
      <4> QED
        BY <2>3, <3>2, <4>1 DEF IInv, Applied
    <3> QED
      BY <3>1, <3>2
  <2>10. Sources'
    BY <1>1 DEF IInv, Sources
  <2> QED
    BY <2>5, <2>6, <2>7, <2>8, <2>9, <2>10 DEF IInv
<1> QED
  BY <1>7, <1>8 DEF ConfigStep, FillStep, Release, Goto

\* The loop reads the rows, or takes one of those it has read.
LEMMA LoopPreserves ==
  ASSUME IInv, NEW n \in Nodes, Poll(n) \/ NextRow(n)
  PROVE  IInv'
<1>1. UNCHANGED <<scope, db, shown, used, lock, given>> /\ job[n].pc = "idle"
  BY DEF Poll, NextRow, ghosts
<1>2. n \in Actors /\ DOMAIN job = Actors /\ DOMAIN todo = Nodes
  BY DEF Actors, IInv, Shapes
<1>3. \A m \in Nodes : lock[m] # n
  BY <1>1, <1>2 DEF IInv, Holders, InLock
<1>4. CASE Poll(n)
  <2>1. job' = job /\ DOMAIN todo' = Nodes /\ \A m \in Nodes : DOMAIN todo'[m] \subseteq scope.keys
    BY <1>2, <1>4 DEF Poll, Rows, IInv, Shapes
  <2>2. Shapes'
    BY <1>1, <2>1 DEF IInv, Shapes
  <2>3. Jobs' /\ Holders' /\ Held'
    BY <1>1, <2>1 DEF IInv, Jobs, Holders, Held
  <2>4. Applied' /\ Sources'
    BY <1>1, <2>1 DEF IInv, Applied, Sources
  <2> QED
    BY <2>2, <2>3, <2>4 DEF IInv
<1>5. CASE NextRow(n)
  <2>1. PICK k \in DOMAIN todo[n] : /\ job' = [job EXCEPT ![n] = Job("map", n, k, todo[n][k], Loaded(k, todo[n][k]))]
                                    /\ todo' = [todo EXCEPT ![n] = Rest(n, k)]
    BY <1>5 DEF NextRow
  <2>2. k \in scope.keys
    BY DEF IInv, Shapes
  <2>3. DOMAIN todo' = Nodes /\ \A m \in Nodes : DOMAIN todo'[m] \subseteq scope.keys
    BY <1>2, <2>1 DEF Rest, IInv, Shapes
  <2> DEFINE j == Job("map", n, k, todo[n][k], Loaded(k, todo[n][k]))
  <2>4. DOMAIN j = JobFields /\ j.pc = "map" /\ j.node = n /\ j.key = k /\ OwnText(j)
    BY DEF Job, JobFields, OwnText
  <2>5. job'[n] = j /\ \A b \in Actors \ {n} : job'[b] = job[b]
    BY <1>2, <2>1
  <2>6. DOMAIN job' = Actors
    BY <1>2, <2>1
  <2> HIDE DEF j
  <2>7. Shapes'
    BY <1>1, <2>3, <2>4, <2>5, <2>6 DEF IInv, Shapes
  <2>8. Jobs'
    BY <1>1, <2>2, <2>4, <2>5 DEF IInv, Jobs
  <2>9. Holders' /\ Held'
    BY <1>1, <1>2, <1>3, <2>4, <2>5 DEF IInv, Holders, Held, InLock
  <2>10. Applied' /\ Sources'
    BY <1>1, <1>3, <2>5 DEF IInv, Applied, Sources
  <2> QED
    BY <2>7, <2>8, <2>9, <2>10 DEF IInv
<1> QED
  BY <1>4, <1>5

\* A program is gone with its jobs, and has read some rows since.
LEMMA BeginPreserves ==
  ASSUME IInv, NEW n \in Nodes, NEW read, Begin(n, read)
  PROVE  IInv'
<1>1. /\ UNCHANGED <<scope, db>> /\ lock' = [lock EXCEPT ![n] = "none"] /\ todo' = [todo EXCEPT ![n] = EmptyTable]
      /\ job' = [a \in Actors |-> IF job[a].node = n THEN Idle ELSE job[a]]
  BY DEF Begin
<1>2. /\ given' = [given EXCEPT ![n] = [k \in scope.keys |-> Given(k, read)]]
      /\ shown' = [shown EXCEPT ![n] = [k \in scope.keys |-> Shown(k, read)]]
      /\ used' = [used EXCEPT ![n] = [k \in scope.keys |-> Parse(k, Shown(k, read))]]
  BY DEF Begin
<1>3. /\ DOMAIN lock = Nodes /\ DOMAIN todo = Nodes /\ DOMAIN given = Nodes /\ DOMAIN shown = Nodes /\ DOMAIN used = Nodes
      /\ \A a \in Actors : DOMAIN job[a] = JobFields
      /\ \A m \in Nodes : /\ DOMAIN given[m] = scope.keys /\ DOMAIN shown[m] = scope.keys
                          /\ DOMAIN used[m] = scope.keys /\ DOMAIN todo[m] \subseteq scope.keys
  BY DEF IInv, Shapes
<1>4. \A m \in Nodes \ {n} : lock'[m] = lock[m] /\ given'[m] = given[m] /\ shown'[m] = shown[m] /\ used'[m] = used[m]
  BY <1>1, <1>2, <1>3
<1>5. lock'[n] = "none" /\ \A k \in scope.keys :
        given'[n][k] = Given(k, read) /\ shown'[n][k] = Shown(k, read) /\ used'[n][k] = Parse(k, Shown(k, read))
  BY <1>1, <1>2, <1>3
<1>6. \A a \in Actors : job'[a] = IF job[a].node = n THEN Idle ELSE job[a]
  BY <1>1
<1>7. Idle.pc = "idle" /\ Idle.node \notin Nodes /\ DOMAIN Idle = JobFields /\ "none" \notin Actors
  BY SettingsAssumption DEF Idle, JobFields, Actors
<1>8. Shapes'
  <2>1. \A m \in Nodes : /\ DOMAIN given'[m] = scope.keys /\ DOMAIN shown'[m] = scope.keys
                         /\ DOMAIN used'[m] = scope.keys /\ DOMAIN todo'[m] \subseteq scope.keys
    BY <1>1, <1>2, <1>3 DEF EmptyTable
  <2>2. \A a \in Actors : DOMAIN job'[a] = JobFields
    BY <1>3, <1>6, <1>7
  <2> QED
    BY <1>1, <1>2, <1>3, <2>1, <2>2 DEF IInv, Shapes
<1> HIDE DEF Idle
<1>9. Jobs'
  BY <1>1, <1>6, <1>7 DEF IInv, Jobs, OwnText, Loaded
<1>10. Holders'
  <2> SUFFICES ASSUME NEW a \in Actors, NEW m \in Nodes
               PROVE  lock'[m] = a <=> (job'[a].node = m /\ job'[a].pc \in InLock)
    BY DEF Holders
  <2>1. CASE m = n
    BY <1>5, <1>6, <1>7, <2>1
  <2>2. CASE m # n
    BY <1>4, <1>6, <1>7, <2>2 DEF IInv, Holders
  <2> QED
    BY <2>1, <2>2
<1>11. Held'
  BY <1>4, <1>6, <1>7 DEF IInv, Held, Jobs, InLock
<1>12. Applied'
  <2> SUFFICES ASSUME NEW m \in Nodes, NEW k \in scope.keys
               PROVE  used'[m][k] = Parse(k, shown'[m][k]) \/ (lock'[m] \in Actors /\ job'[lock'[m]].key = k)
    BY <1>1 DEF Applied
  <2>1. CASE m = n
    BY <1>5, <2>1
  <2>2. CASE m # n
    <3>1. lock[m] \in Actors => job'[lock[m]] = job[lock[m]]
      BY <1>6, <2>2 DEF IInv, Holders
    <3> QED
      BY <1>4, <2>2, <3>1 DEF IInv, Applied
  <2> QED
    BY <2>1, <2>2
<1>13. Sources'
  <2> SUFFICES ASSUME NEW m \in Nodes, NEW k \in scope.keys
               PROVE  shown'[m][k] \in {given'[m][k], Loaded(k, given'[m][k])}
    BY <1>1 DEF Sources
  <2>1. CASE m = n
    BY <1>5, <2>1 DEF Given, Shown
  <2>2. CASE m # n
    BY <1>4, <2>2 DEF IInv, Sources
  <2> QED
    BY <2>1, <2>2
<1> QED
  BY <1>8, <1>9, <1>10, <1>11, <1>12, <1>13 DEF IInv

LEMMA StepInvariant == IInv /\ [Next]_vars => IInv'
<1> SUFFICES ASSUME IInv, [Next]_vars PROVE IInv'
  OBVIOUS
<1>1. CASE \E x \in Editors : UpdateOption(x) \/ Create(x) \/ Save(x) \/ SaveFails(x)
  BY <1>1, EditorStep
<1>2. CASE \E a \in Actors : MapStep(a) \/ ConfigStep(a) \/ FillStep(a)
  BY <1>2, MapPreserves, ConfigPreserves
<1>3. CASE \E n \in Nodes : Poll(n) \/ NextRow(n) \/ RowPanics(n) \/ Restart(n) \/ StartAgain(n)
  BY <1>3, LoopPreserves, BeginPreserves DEF RowPanics, Restart, StartAgain
<1>4. CASE UNCHANGED vars
  <2>1. UNCHANGED <<scope, db, shown, used, lock, job, todo, given>>
    BY <1>4 DEF vars, ghosts
  <2>2. Shapes'
    BY <2>1 DEF IInv, Shapes
  <2>3. Jobs' /\ Holders' /\ Held'
    BY <2>1 DEF IInv, Jobs, Holders, Held
  <2>4. Applied' /\ Sources'
    BY <2>1 DEF IInv, Applied, Sources
  <2> QED
    BY <2>2, <2>3, <2>4 DEF IInv
<1> QED
  BY <1>1, <1>2, <1>3, <1>4 DEF Next

\* What a node shows, uses and was given go together, and the mutex of OptionMap is
\* held by the one goroutine that is setting a variable (updateOptionMap).
THEOREM SettingsInvariant == Spec => []IInv
<1> QED
  BY InitInvariant, StepInvariant, PTL DEF Spec

\* Nodes that were given the same text charge the same, whatever the tables, the
\* requests and the interleaving of updates, loops and restarts.
THEOREM ChargedAsGiven == Spec => []ChargesAsGiven
<1> QED
  BY SettingsInvariant, InvariantCharges, PTL

-----------------------------------------------------------------------------
(* What a node is behind of. *)

\* A row that the loop has read is the one of the database, or was written since.
Polled == /\ DOMAIN dirty = Nodes /\ DOMAIN late = Nodes
          /\ \A n \in Nodes : \A k \in DOMAIN todo[n] : todo[n][k] = db[k] \/ k \in dirty[n]

\* So is the row that the loop is applying.
Taken == \A n \in Nodes : job[n].pc # "idle" =>
           job[n].node = n /\ (job[n].pc = "map" => job[n].raw = db[job[n].key] \/ job[n].key \in dirty[n])

Causes == Polled /\ Taken /\ BehindHasCause

LEMMA InitCauses == Init => Causes
<1> SUFFICES ASSUME Init PROVE Causes
  OBVIOUS
<1>1. \A n \in Nodes : job[n] = Idle /\ DOMAIN todo[n] = {}
  BY DEF Init, Actors, EmptyTable
<1>2. \A n \in Nodes, k \in Rows : given[n][k] = db[k] \/ k \in dirty[n]
  BY DEF Init, Given, Rows
<1>3. Polled
  BY <1>1 DEF Polled, Init
<1>4. Taken
  BY <1>1 DEF Taken, Idle
<1>5. BehindHasCause
  BY <1>2 DEF BehindHasCause
<1> QED
  BY <1>3, <1>4, <1>5 DEF Causes

\* A statement on a row makes every node behind it by a row that is dirty.
LEMMA EditorCauses ==
  ASSUME IInv, Causes, NEW x \in Editors, UpdateOption(x) \/ Create(x) \/ Save(x) \/ SaveFails(x)
  PROVE  Causes'
<1>1. UNCHANGED <<scope, todo, given, late>> /\ DOMAIN job = Actors /\ x \in Actors /\ x \notin Nodes
  BY SettingsAssumption DEF UpdateOption, Create, Save, SaveFails, ghosts, IInv, Shapes, Actors
<1>2. \/ UNCHANGED <<db, dirty>>
      \/ \E k \in scope.keys : \E text : WriteRow(k, text)
  BY DEF UpdateOption, Create, Save, SaveFails, ghosts, IInv, Jobs, Actors
<1>3. /\ DOMAIN dirty' = Nodes /\ \A n \in Nodes : dirty[n] \subseteq dirty'[n]
      /\ \A k \in scope.keys : db'[k] = db[k] \/ \A n \in Nodes : k \in dirty'[n]
  BY <1>2 DEF WriteRow, Causes, Polled, IInv, Shapes
<1>4. job[x].pc # "map" /\ \A a \in Actors \ {x} : job'[a] = job[a]
  BY <1>1 DEF UpdateOption, Create, Save, SaveFails, Goto
<1>5. Polled'
  BY <1>1, <1>3 DEF Causes, Polled, IInv, Shapes
<1>6. Taken'
  <2>1. \A n \in Nodes : job'[n] = job[n] /\ (job[n].pc # "idle" => job[n].key \in scope.keys)
    BY <1>1, <1>4 DEF Actors, IInv, Jobs
  <2> QED
    BY <1>3, <2>1 DEF Causes, Taken
<1>7. BehindHasCause'
  <2> SUFFICES ASSUME NEW n \in Nodes, NEW k \in Rows', given'[n][k] # db'[k]
               PROVE  k \in dirty'[n] \cup late'[n] \/ Pending(n, k)'
    BY DEF BehindHasCause
  <2>1. CASE db'[k] = db[k]
    <3>1. k \in dirty[n] \cup late[n] \/ Pending(n, k)
      BY <1>1, <2>1 DEF Causes, BehindHasCause, Rows, NoRow
    <3>2. Pending(n, k) => Pending(n, k)'
      BY <1>1, <1>4 DEF Pending
    <3> QED
      BY <1>1, <1>3, <3>1, <3>2
  <2>2. CASE db'[k] # db[k]
    BY <1>1, <1>3, <2>2 DEF Rows
  <2> QED
    BY <2>1, <2>2
<1> QED
  BY <1>5, <1>6, <1>7 DEF Causes

\* The map takes a text that is the row, or is older than it and then says so.
LEMMA MapCauses ==
  ASSUME IInv, Causes, NEW a \in Actors, MapStep(a)
  PROVE  Causes'
<1> DEFINE n == job[a].node
           k == job[a].key
<1>1. /\ job[a].pc = "map" /\ UNCHANGED <<scope, db, todo, dirty>>
      /\ given' = [given EXCEPT ![n][k] = job[a].raw]
      /\ late' = [late EXCEPT ![n] = IF a \in Editors /\ job[a].raw # db[k] THEN @ \cup {k} ELSE @ \ {k}]
      /\ job' = [job EXCEPT ![a].pc = "config"]
  BY DEF MapStep, Goto
<1>2. n \in Nodes /\ k \in scope.keys /\ DOMAIN job[a] = JobFields /\ DOMAIN job = Actors /\ DOMAIN late = Nodes
  BY <1>1 DEF IInv, Jobs, Shapes, Causes, Polled
<1>3. /\ job'[a].pc = "config" /\ job'[a].node = n
      /\ \A b \in Actors \ {a} : job'[b] = job[b]
  BY <1>1, <1>2 DEF JobFields
<1>4. /\ given'[n][k] = job[a].raw
      /\ \A m \in Nodes, q \in scope.keys : m # n \/ q # k => given'[m][q] = given[m][q]
  BY <1>1, <1>2 DEF IInv, Shapes
<1>5. /\ DOMAIN late' = Nodes
      /\ \A m \in Nodes, q \in scope.keys : m # n \/ q # k => (q \in late'[m] <=> q \in late[m])
      /\ a \in Editors /\ job[a].raw # db[k] => k \in late'[n]
  BY <1>1, <1>2
<1>6. a \notin Editors => a = n /\ (job[a].raw = db[k] \/ k \in dirty[n])
  BY <1>1 DEF Actors, Causes, Taken
<1> HIDE DEF n, k
<1>7. Polled'
  BY <1>1, <1>5 DEF Causes, Polled
<1>8. Taken'
  <2> SUFFICES ASSUME NEW m \in Nodes, job'[m].pc # "idle"
               PROVE  job'[m].node = m /\ (job'[m].pc = "map" => job'[m].raw = db'[job'[m].key] \/ job'[m].key \in dirty'[m])
    BY DEF Taken
  <2>1. CASE m = a
    BY <1>1, <1>3, <2>1 DEF Causes, Taken, n
  <2>2. CASE m # a
    BY <1>1, <1>3, <2>2 DEF Causes, Taken, Actors
  <2> QED
    BY <2>1, <2>2
<1>9. BehindHasCause'
  <2> SUFFICES ASSUME NEW m \in Nodes, NEW q \in Rows', given'[m][q] # db'[q]
               PROVE  q \in dirty'[m] \cup late'[m] \/ Pending(m, q)'
    BY DEF BehindHasCause
  <2>0. q \in Rows /\ q \in scope.keys /\ db'[q] = db[q]
    BY <1>1 DEF Rows, NoRow
  <2>1. CASE m = n /\ q = k
    BY <1>1, <1>4, <1>5, <1>6, <2>1
  <2>2. CASE m # n \/ q # k
    <3>1. q \in dirty[m] \cup late[m] \/ Pending(m, q)
      BY <1>4, <2>0, <2>2 DEF Causes, BehindHasCause
    <3>2. Pending(m, q) => Pending(m, q)'
      BY <1>1, <1>3, <2>2 DEF Pending, n, k
    <3> QED
      BY <1>1, <1>5, <2>0, <2>2, <3>1, <3>2
  <2> QED
    BY <2>1, <2>2
<1> QED
  BY <1>7, <1>8, <1>9 DEF Causes

\* Setting the variable of a text that has been taken changes none of this.
LEMMA ConfigCauses ==
  ASSUME IInv, Causes, NEW a \in Actors, ConfigStep(a) \/ FillStep(a)
  PROVE  Causes'
<1>1. UNCHANGED <<scope, db, todo, given, dirty, late>> /\ job[a].pc # "map" /\ job[a].pc # "idle"
  BY DEF ConfigStep, FillStep, ghosts
<1>2. DOMAIN job = Actors /\ DOMAIN job[a] = JobFields
  BY DEF IInv, Shapes
<1>3. /\ \A b \in Actors \ {a} : job'[b] = job[b]
      /\ job'[a].pc # "map" /\ (job'[a].pc # "idle" => job'[a].node = job[a].node)
  BY <1>2 DEF ConfigStep, FillStep, Release, Goto, Idle, JobFields
<1>4. Polled'
  BY <1>1 DEF Causes, Polled
<1>5. Taken'
  BY <1>1, <1>3 DEF Causes, Taken, Actors
<1>6. \A n \in Nodes, k \in scope.keys : Pending(n, k) => Pending(n, k)'
  BY <1>1, <1>3 DEF Pending
<1>7. BehindHasCause'
  BY <1>1, <1>6 DEF Causes, BehindHasCause, Rows, NoRow
<1> QED
  BY <1>4, <1>5, <1>7 DEF Causes

\* The loop reads the rows, all of which then wait, or takes one of those it has read.
LEMMA LoopCauses ==
  ASSUME IInv, Causes, NEW n \in Nodes, Poll(n) \/ NextRow(n)
  PROVE  Causes'
<1>1. UNCHANGED <<scope, db, given, late>> /\ job[n].pc = "idle" /\ n \in Actors
  BY DEF Poll, NextRow, ghosts, Actors
<1>2. DOMAIN todo = Nodes /\ DOMAIN job = Actors /\ DOMAIN dirty = Nodes
  BY DEF IInv, Shapes, Causes, Polled
<1>3. CASE Poll(n)
  <2>1. /\ job' = job /\ DOMAIN dirty' = Nodes /\ DOMAIN todo'[n] = Rows
        /\ \A k \in Rows : todo'[n][k] = db[k]
        /\ \A m \in Nodes \ {n} : todo'[m] = todo[m] /\ dirty'[m] = dirty[m]
    BY <1>2, <1>3 DEF Poll
  <2>2. Polled'
    BY <1>1, <2>1 DEF Causes, Polled
  <2>3. Taken'
    BY <1>1, <2>1 DEF Causes, Taken
  <2>4. \A m \in Nodes \ {n}, k \in scope.keys : Pending(m, k) => Pending(m, k)'
    BY <2>1 DEF Pending
  <2>5. \A k \in Rows : Pending(n, k)'
    BY <2>1 DEF Pending
  <2>6. BehindHasCause'
    BY <1>1, <2>1, <2>4, <2>5 DEF Causes, BehindHasCause, Rows, NoRow
  <2> QED
    BY <2>2, <2>3, <2>6 DEF Causes
<1>4. CASE NextRow(n)
  <2>1. PICK k \in DOMAIN todo[n] : /\ job' = [job EXCEPT ![n] = Job("map", n, k, todo[n][k], Loaded(k, todo[n][k]))]
                                    /\ todo' = [todo EXCEPT ![n] = Rest(n, k)]
    BY <1>4 DEF NextRow
  <2>2. /\ job'[n].pc = "map" /\ job'[n].node = n /\ job'[n].key = k /\ job'[n].raw = todo[n][k]
        /\ \A b \in Actors \ {n} : job'[b] = job[b]
    BY <1>1, <1>2, <2>1 DEF Job
  <2>3. /\ DOMAIN todo'[n] = DOMAIN todo[n] \ {k} /\ \A q \in DOMAIN todo'[n] : todo'[n][q] = todo[n][q]
        /\ \A m \in Nodes \ {n} : todo'[m] = todo[m]
        /\ dirty' = dirty
    BY <1>2, <1>4, <2>1 DEF Rest, NextRow, ghosts
  <2>4. Polled'
    BY <1>1, <2>3 DEF Causes, Polled
  <2>5. Taken'
    BY <1>1, <2>2, <2>3 DEF Causes, Polled, Taken, Actors
  <2>6. \A m \in Nodes, q \in scope.keys : Pending(m, q) => Pending(m, q)'
    <3> SUFFICES ASSUME NEW m \in Nodes, NEW q \in scope.keys, Pending(m, q) PROVE Pending(m, q)'
      OBVIOUS
    <3>1. CASE q \in DOMAIN todo[m]
      BY <1>1, <2>2, <2>3, <3>1 DEF Pending
    <3>2. CASE \E b \in Actors : job[b].node = m /\ job[b].key = q /\ job[b].pc = "map"
      BY <1>1, <2>2, <3>2 DEF Pending
    <3> QED
      BY <3>1, <3>2 DEF Pending
  <2>7. BehindHasCause'
    BY <1>1, <2>3, <2>6 DEF Causes, BehindHasCause, Rows, NoRow
  <2> QED
    BY <2>4, <2>5, <2>7 DEF Causes
<1> QED
  BY <1>3, <1>4

\* A node that starts has the rows, or is behind those it has not read.
LEMMA BeginCauses ==
  ASSUME IInv, Causes, NEW n \in Nodes, NEW read, Begin(n, read)
  PROVE  Causes'
<1>1. /\ UNCHANGED <<scope, db>> /\ todo' = [todo EXCEPT ![n] = EmptyTable] /\ late' = [late EXCEPT ![n] = {}]
      /\ job' = [a \in Actors |-> IF job[a].node = n THEN Idle ELSE job[a]]
  BY DEF Begin
<1>2. /\ given' = [given EXCEPT ![n] = [k \in scope.keys |-> Given(k, read)]]
      /\ dirty' = [dirty EXCEPT ![n] = Rows \ read]
  BY DEF Begin
<1>3. DOMAIN todo = Nodes /\ DOMAIN given = Nodes /\ DOMAIN dirty = Nodes /\ DOMAIN late = Nodes
  BY DEF IInv, Shapes, Causes, Polled
<1>4. /\ \A m \in Nodes \ {n} : /\ todo'[m] = todo[m] /\ given'[m] = given[m]
                                /\ dirty'[m] = dirty[m] /\ late'[m] = late[m]
      /\ DOMAIN todo'[n] = {} /\ dirty'[n] = Rows \ read
      /\ \A k \in scope.keys : given'[n][k] = Given(k, read)
  BY <1>1, <1>2, <1>3 DEF EmptyTable
<1>5. \A a \in Actors : job'[a] = IF job[a].node = n THEN Idle ELSE job[a]
  BY <1>1
<1>6. Polled'
  BY <1>1, <1>2, <1>3, <1>4 DEF Causes, Polled
<1>7. Taken'
  <2> SUFFICES ASSUME NEW m \in Nodes, job'[m].pc # "idle"
               PROVE  job'[m].node = m /\ (job'[m].pc = "map" => job'[m].raw = db'[job'[m].key] \/ job'[m].key \in dirty'[m])
    BY DEF Taken
  <2>1. job'[m] = job[m] /\ job[m].node # n
    BY <1>5 DEF Idle, Actors
  <2> QED
    BY <1>1, <1>4, <2>1 DEF Causes, Taken
<1>8. BehindHasCause'
  <2> SUFFICES ASSUME NEW m \in Nodes, NEW k \in Rows', given'[m][k] # db'[k]
               PROVE  k \in dirty'[m] \cup late'[m] \/ Pending(m, k)'
    BY DEF BehindHasCause
  <2>1. k \in Rows /\ k \in scope.keys /\ db'[k] = db[k]
    BY <1>1 DEF Rows, NoRow
  <2>2. CASE m = n
    BY <1>4, <2>1, <2>2 DEF Given
  <2>3. CASE m # n
    <3>1. k \in dirty[m] \cup late[m] \/ Pending(m, k)
      BY <1>4, <2>1, <2>3 DEF Causes, BehindHasCause
    <3>2. Pending(m, k) => Pending(m, k)'
      BY <1>4, <1>5, <2>3 DEF Pending
    <3> QED
      BY <1>4, <2>3, <3>1, <3>2
  <2> QED
    BY <2>2, <2>3
<1> QED
  BY <1>6, <1>7, <1>8 DEF Causes

LEMMA StepCauses == IInv /\ Causes /\ [Next]_vars => Causes'
<1> SUFFICES ASSUME IInv, Causes, [Next]_vars PROVE Causes'
  OBVIOUS
<1>1. CASE \E x \in Editors : UpdateOption(x) \/ Create(x) \/ Save(x) \/ SaveFails(x)
  BY <1>1, EditorCauses
<1>2. CASE \E a \in Actors : MapStep(a) \/ ConfigStep(a) \/ FillStep(a)
  BY <1>2, MapCauses, ConfigCauses
<1>3. CASE \E n \in Nodes : Poll(n) \/ NextRow(n) \/ RowPanics(n) \/ Restart(n) \/ StartAgain(n)
  BY <1>3, LoopCauses, BeginCauses DEF RowPanics, Restart, StartAgain
<1>4. CASE UNCHANGED vars
  <2>1. UNCHANGED <<scope, db, job, todo, given, dirty, late>>
    BY <1>4 DEF vars, ghosts
  <2> QED
    BY <2>1 DEF Causes, Polled, Taken, BehindHasCause, Pending, Rows, NoRow
<1> QED
  BY <1>1, <1>2, <1>3, <1>4 DEF Next

\* A node is behind a row only for a cause that the polling loop repairs or a lost race
\* of its own editor left (SyncOptions, UpdateOption, InitOptionMap).
THEOREM BehindForCause == Spec => []BehindHasCause
<1>1. IInv /\ Causes /\ [Next]_vars => (IInv /\ Causes)'
  BY StepInvariant, StepCauses
<1>2. Causes => BehindHasCause
  BY DEF Causes
<1> QED
  BY InitInvariant, InitCauses, <1>1, <1>2, PTL DEF Spec

=============================================================================
