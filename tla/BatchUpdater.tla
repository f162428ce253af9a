---------------------------- MODULE BatchUpdater ----------------------------
(***************************************************************************)
(* BATCH_UPDATE_ENABLED: quota and usage changes are summed in memory, a   *)
(* map and a lock per kind of counter, and one goroutine writes them to    *)
(* the database.  It swaps the map of a kind for an empty one under the    *)
(* lock and then, without the lock, updates one row per key while requests *)
(* go on adding to the new map.  Nothing is written when the process ends. *)
(***************************************************************************)
EXTENDS Integers

CONSTANTS
  Ids,          \* rows a counter may belong to
  Amounts,      \* the values requests add
  MaxPosts,     \* bound: calls of addNewRecord
  MaxFaults     \* bound: failed statements and ends of the process together

ASSUME BatchAssumption == Amounts \subseteq Int /\ MaxPosts \in Nat /\ MaxFaults \in Nat

UserQuota == 0
TokenQuota == 1
UsedQuota == 2
ChannelUsedQuota == 3
RequestCount == 4
TypeCount == 5
Types == 0..TypeCount - 1
Counters == Types \X Ids

VARIABLES
  store,     \* batchUpdateStores: for every type a map from ids to sums
  batch,     \* the map the goroutine has swapped out
  turn,      \* the type it is at; TypeCount while it sleeps
  swapped,   \* it has swapped out the map of that type
  db,        \* the columns in the database
  counting,  \* users whose used quota was recorded and whose request was not yet
  posted,    \* history: all that was ever added
  lost,      \* history: all that was never written and never will be
  posts, faults

goroutine == <<batch, turn, swapped>>
history == <<posted, lost, posts, faults>>
vars == <<store, goroutine, db, counting, history>>

\* Maps with keys among Ids.
Empty == [i \in {} |-> 0]
ValueIn(m, i) == IF i \in DOMAIN m THEN m[i] ELSE 0
Put(m, i, n) == [x \in DOMAIN m \cup {i} |-> IF x = i THEN n ELSE m[x]]
Without(m, i) == [x \in DOMAIN m \ {i} |-> m[x]]

Init ==
  /\ store = [t \in Types |-> Empty]
  /\ batch = Empty /\ turn = TypeCount /\ swapped = FALSE
  /\ db = [c \in Counters |-> 0]
  /\ counting = {}
  /\ posted = [c \in Counters |-> 0] /\ lost = [c \in Counters |-> 0]
  /\ posts = 0 /\ faults = 0

-----------------------------------------------------------------------------
(* Requests. *)

\* Faulty variant: the value replaces the sum that was there.
AddOverwriting(t, i, n) ==
  /\ posts < MaxPosts /\ posts' = posts + 1
  /\ store' = [store EXCEPT ![t] = Put(@, i, n)]
  /\ posted' = [posted EXCEPT ![<<t, i>>] = @ + n]
  /\ UNCHANGED <<goroutine, db, lost, faults>>

\* addNewRecord, under the lock of its type.
addNewRecord(t, i, n) ==
  /\ posts < MaxPosts /\ posts' = posts + 1
  /\ store' = [store EXCEPT ![t] = Put(@, i, ValueIn(@, i) + n)]
  /\ posted' = [posted EXCEPT ![<<t, i>>] = @ + n]
  /\ UNCHANGED <<goroutine, db, lost, faults>>

\* IncreaseUserQuota and its siblings, and UpdateChannelUsedQuota.
ChangeQuota(i, n) ==
  /\ \E t \in {UserQuota, TokenQuota} : addNewRecord(t, i, n) \/ addNewRecord(t, i, 0 - n)
  /\ UNCHANGED counting
ChangeChannelUsedQuota(i, n) == addNewRecord(ChannelUsedQuota, i, n) /\ UNCHANGED counting

\* UpdateUserUsedQuotaAndRequestCount is two calls; the batch may run between.
RecordUsedQuota(i, n) ==
  /\ i \notin counting
  /\ addNewRecord(UsedQuota, i, n)
  /\ counting' = counting \cup {i}

RecordRequest(i) ==
  /\ i \in counting
  /\ addNewRecord(RequestCount, i, 1)
  /\ counting' = counting \ {i}

-----------------------------------------------------------------------------
(* The goroutine. *)

Wake ==
  /\ turn = TypeCount
  /\ turn' = 0 /\ swapped' = FALSE
  /\ UNCHANGED <<store, batch, db, counting, history>>

\* Faulty variant: the map is not replaced by a new one.
SwapKeeping ==
  /\ turn < TypeCount /\ ~swapped
  /\ batch' = store[turn]
  /\ swapped' = TRUE
  /\ UNCHANGED <<store, turn, db, counting, history>>

Swap ==
  /\ turn < TypeCount /\ ~swapped
  /\ batch' = store[turn]
  /\ store' = [store EXCEPT ![turn] = Empty]
  /\ swapped' = TRUE
  /\ UNCHANGED <<turn, db, counting, history>>

\* One key of the map, in no particular order; the row is updated by an expression.
Apply(i) ==
  /\ swapped /\ i \in DOMAIN batch
  /\ db' = [db EXCEPT ![<<turn, i>>] = @ + batch[i]]
  /\ batch' = Without(batch, i)
  /\ UNCHANGED <<store, turn, swapped, counting, history>>

\* The statement fails: it is logged and the sum is gone.
ApplyFails(i) ==
  /\ swapped /\ i \in DOMAIN batch /\ faults < MaxFaults
  /\ lost' = [lost EXCEPT ![<<turn, i>>] = @ + batch[i]]
  /\ batch' = Without(batch, i)
  /\ faults' = faults + 1
  /\ UNCHANGED <<store, turn, swapped, db, counting, posted, posts>>

\* Faulty variant: the loop stops before the last type.
NextTypeShort ==
  /\ swapped /\ DOMAIN batch = {}
  /\ turn' = IF turn = TypeCount - 2 THEN TypeCount ELSE turn + 1
  /\ swapped' = FALSE
  /\ UNCHANGED <<store, batch, db, counting, history>>

NextType ==
  /\ swapped /\ DOMAIN batch = {}
  /\ turn' = turn + 1 /\ swapped' = FALSE
  /\ UNCHANGED <<store, batch, db, counting, history>>

\* The process ends, on purpose or not, and starts again with empty maps.
Restart ==
  /\ faults < MaxFaults /\ faults' = faults + 1
  /\ lost' = [c \in Counters |-> lost[c] + ValueIn(store[c[1]], c[2])
                 + IF c[1] = turn THEN ValueIn(batch, c[2]) ELSE 0]
  /\ store' = [t \in Types |-> Empty]
  /\ batch' = Empty /\ turn' = TypeCount /\ swapped' = FALSE
  /\ counting' = {}
  /\ UNCHANGED <<db, posted, posts>>

batchUpdate == Wake \/ Swap \/ NextType \/ \E i \in Ids : Apply(i)

Next ==
  \/ \E i \in Ids : \/ \E n \in Amounts : ChangeQuota(i, n) \/ ChangeChannelUsedQuota(i, n)
                                            \/ RecordUsedQuota(i, n)
                    \/ RecordRequest(i)
                    \/ ApplyFails(i)
  \/ batchUpdate
  \/ Restart

Spec == Init /\ [][Next]_vars
\* The goroutine's loop never ends.
FairSpec == Spec /\ WF_vars(batchUpdate)

-----------------------------------------------------------------------------
(* Properties. *)

Waiting(c) == ValueIn(store[c[1]], c[2])
Writing(c) == IF c[1] = turn THEN ValueIn(batch, c[2]) ELSE 0

IsMap(m) == DOMAIN m \subseteq Ids /\ m \in [DOMAIN m -> Int]

TypeOK ==
  /\ store = [t \in Types |-> store[t]] /\ \A t \in Types : IsMap(store[t])
  /\ IsMap(batch) /\ turn \in 0..TypeCount /\ swapped \in BOOLEAN
  /\ (swapped => turn < TypeCount) /\ (~swapped => batch = Empty)
  /\ db \in [Counters -> Int] /\ posted \in [Counters -> Int] /\ lost \in [Counters -> Int]
  /\ counting \subseteq Ids /\ posts \in 0..MaxPosts /\ faults \in 0..MaxFaults

\* What a counter was ever given is in its row, in a map, or was lost to a
\* failed statement or a restart; no sum is written twice or dropped between
\* the swap, the unlocked loop and the requests that keep adding.
Conserved ==
  \A c \in Counters : posted[c] = db[c] + Waiting(c) + Writing(c) + lost[c]

\* used_quota and request_count are recorded by separate calls and written in
\* separate passes; when nothing is on its way and nothing was lost they agree.
\* (Every amount recorded is 1 in this run.)
AtRest(c) == c[2] \notin DOMAIN store[c[1]] /\ (c[1] = turn => c[2] \notin DOMAIN batch)

\* A sum that waits is eventually picked up, and one picked up eventually
\* leaves the map; a restart in between loses it.
SumsAreWritten ==
  /\ \A c \in Counters : c[2] \in DOMAIN store[c[1]] ~> c[2] \notin DOMAIN store[c[1]]
  /\ swapped ~> ~swapped

\* Every change a request may post.
Changes == Amounts \cup {0 - n : n \in Amounts} \cup {1}

\* Every counter is a write-behind counter of its own.
Behind == INSTANCE WriteBehind WITH
  durable <- db,
  writing <- [c \in Counters |-> Writing(c)],
  waiting <- [c \in Counters |-> Waiting(c)],
  Amounts <- Changes
WriteBehindCounters == Behind!Spec
=============================================================================
