---------------------------- MODULE ChannelStatus ----------------------------
(***************************************************************************)
(* Whether a channel serves requests is stored three times: in the column  *)
(* channels.status, in the column enabled of the rows the channel has in   *)
(* the table abilities, and, with the memory cache, in a routing table     *)
(* that a goroutine rebuilds from both.  Requests whose channel fails, the *)
(* test of all channels and administrators change them, each by several    *)
(* statements without a transaction.                                       *)
(*                                                                         *)
(* A channel stands for itself and all its abilities, which every          *)
(* statement here treats alike.  An operation in progress is the value of  *)
(* op for the goroutine that runs it; its step names the next statement.   *)
(***************************************************************************)
EXTENDS Deployment, Integers, FiniteSets

CONSTANTS
  Workers,       \* goroutines of requests, of their errors and of administrators
  Testers,       \* goroutines that ask for a test of all channels
  AutoEnable,    \* AutomaticEnableChannelEnabled
  EnableMetric,
  OneGroup,      \* all channels are in one group, or each in its own
  MaxEdits,      \* bound: operations of administrators
  MaxFaults      \* bound: failed statements and restarts together

ASSUME ChannelAssumption ==
  /\ NoChannel \notin Channels /\ Workers \cap Testers = {}
  /\ CacheModes \subseteq BOOLEAN
  /\ {AutoDisable, AutoEnable, EnableMetric, OneGroup} \subseteq BOOLEAN
  /\ MaxEdits \in Nat /\ MaxFaults \in Nat

VARIABLES
  row,        \* channels.status; "new" before the row exists, "gone" after
  ability,    \* the column enabled; "none" when the channel has no abilities
  cache,      \* group2model2channels
  refreshing, \* InitChannelCache is between its two queries
  seen,       \* what the first of them returned
  blind,      \* history: of the refresh in progress ("now") and of the one that built
              \*   the routing table ("table"), those whose first query failed
  up,         \* the process runs
  op,         \* the operation of each goroutine
  testing,    \* testAllChannelsRunning
  left,       \* the channels a test run has yet to test
  snapshot,   \* those that were enabled when it listed them
  twice,      \* the run calls DisableChannel a second time for the channel
  suspect,    \* history: channels whose tables may disagree, see TablesAgree
  changed,    \* history: channels whose row changed since the cache read it
  changedNow, \*   and since the refresh in progress read it
  edits, faults

tables == <<row, ability>>
refresh == <<cache, refreshing, seen, blind>>
tests == <<testing, left, snapshot, twice>>
history == <<suspect, changed, changedNow>>
vars == <<memoryCache, tables, refresh, up, op, tests, history, edits, faults>>

Agents == Workers \cup Testers
Status == {"enabled", "manual", "auto"}
Exists(c) == row[c] \in Status
EnabledRows == {c \in Channels : row[c] = "enabled"}
GroupOf(c) == IF OneGroup THEN Channels ELSE {c}

\* The steps between the first and the last statement of an operation.
OpenSteps == {"status_row", "edit_read", "edit_delete", "edit_add", "add_abilities", "delete_abilities"}
Steps == OpenSteps \cup {"idle", "read_row", "attempt", "status_abilities", "list", "test"}
Idle == [step |-> "idle", ch |-> NoChannel, st |-> "unset"]
Op(step, c, s) == [step |-> step, ch |-> c, st |-> s]

Busy(c) == \E a \in Agents : op[a].ch = c /\ op[a].step \in OpenSteps
SuspectIf(c, bad) == suspect' = IF bad THEN suspect \cup {c} ELSE suspect
RowChanges(C) == changed' = changed \cup C /\ changedNow' = changedNow \cup C

\* A tester that has changed a status goes on with its run.
AfterStatus(a) ==
  /\ op' = [op EXCEPT ![a] =
             IF a \notin Testers THEN Idle
             ELSE IF a \in twice THEN Op("status_abilities", op[a].ch, "auto")
             ELSE Op("test", NoChannel, "unset")]
  /\ twice' = twice \ {a}

Init ==
  /\ memoryCache \in CacheModes
  /\ row \in [Channels -> {"new", "enabled"}]
  /\ ability = [c \in Channels |-> IF row[c] = "enabled" THEN "on" ELSE "none"]
  /\ cache = IF memoryCache THEN EnabledRows ELSE {}
  /\ blind = {}
  /\ refreshing = FALSE /\ seen = {} /\ up = TRUE
  /\ op = [a \in Agents |-> Idle]
  /\ testing = FALSE /\ left = [t \in Testers |-> {}]
  /\ snapshot = [t \in Testers |-> {}] /\ twice = {}
  /\ suspect = {} /\ changed = {} /\ changedNow = {}
  /\ edits = 0 /\ faults = 0

-----------------------------------------------------------------------------
(* UpdateChannelStatusById, for DisableChannel, MetricDisableChannel and    *)
(* EnableChannel: two statements, neither looks at the present status.      *)

\* Faulty variant: disabling deletes the abilities.
StatusDeletes(a) ==
  LET c == op[a].ch
      on == op[a].st = "enabled" IN
  /\ op[a].step = "status_abilities"
  /\ ability' = [ability EXCEPT ![c] = IF @ # "none" /\ on THEN "on" ELSE "none"]
  /\ op' = [op EXCEPT ![a] = Op("status_row", c, op[a].st)]
  /\ SuspectIf(c, Busy(c) \/ (on /\ ~Exists(c)))
  /\ UNCHANGED <<row, twice, changed, changedNow>>

StatusAbilities(a) ==
  LET c == op[a].ch
      on == op[a].st = "enabled" IN
  /\ op[a].step = "status_abilities"
  /\ ability' = [ability EXCEPT ![c] = IF @ = "none" THEN "none" ELSE IF on THEN "on" ELSE "off"]
  /\ op' = [op EXCEPT ![a] = Op("status_row", c, op[a].st)]
  /\ SuspectIf(c, Busy(c) \/ (on /\ ~Exists(c)))
  /\ UNCHANGED <<row, twice, changed, changedNow>>

StatusRow(a) ==
  LET c == op[a].ch IN
  /\ op[a].step = "status_row"
  /\ row' = [row EXCEPT ![c] = IF Exists(c) THEN op[a].st ELSE @]
  /\ AfterStatus(a)
  /\ RowChanges({c})
  /\ UNCHANGED <<ability, suspect>>

-----------------------------------------------------------------------------
(* Administrators. *)

\* AddChannel: the row and then, in a second statement, the abilities.
Create(w, c, s) ==
  /\ op[w] = Idle /\ row[c] = "new"
  /\ row' = [row EXCEPT ![c] = s]
  /\ op' = [op EXCEPT ![w] = Op("add_abilities", c, s)]
  /\ RowChanges({c})
  /\ UNCHANGED <<ability, suspect, twice>>

\* AddAbilities, with the status its caller holds; the rows may already be there.
AddAbilities(w) ==
  LET c == op[w].ch IN
  /\ op[w].step \in {"add_abilities", "edit_add"}
  /\ ability' = [ability EXCEPT ![c] = IF @ # "none" THEN @ ELSE IF op[w].st = "enabled" THEN "on" ELSE "off"]
  /\ op' = [op EXCEPT ![w] = Idle]
  /\ UNCHANGED <<row, twice, history>>

\* UpdateChannel: Updates writes the fields that are not zero, if there is a row.
\* The abilities will be rebuilt, so an edit that nothing disturbs repairs them.
EditRow(w, c, s) ==
  /\ op[w] = Idle /\ row[c] # "new"
  /\ row' = [row EXCEPT ![c] = IF Exists(c) /\ s # "unset" THEN s ELSE @]
  /\ op' = [op EXCEPT ![w] = Op("edit_read", c, s)]
  /\ suspect' = IF Busy(c) \/ ~Exists(c) THEN suspect \cup {c} ELSE suspect \ {c}
  /\ RowChanges({c})
  /\ UNCHANGED <<ability, twice>>

\* Faulty variant: the row is not read again, the fields of the request are used.
EditKeep(w) ==
  /\ op[w].step = "edit_read"
  /\ op' = [op EXCEPT ![w] = Op("edit_delete", op[w].ch, op[w].st)]
  /\ UNCHANGED <<tables, twice, history>>

\* First; when there is no row the fields of the request stay.
EditRead(w) ==
  LET c == op[w].ch IN
  /\ op[w].step = "edit_read"
  /\ op' = [op EXCEPT ![w] = Op("edit_delete", c, IF Exists(c) THEN row[c] ELSE op[w].st)]
  /\ UNCHANGED <<tables, twice, history>>

\* DeleteAbilities, within an edit or as the end of DeleteChannel.
DeleteAbilities(w) ==
  LET c == op[w].ch IN
  /\ op[w].step \in {"edit_delete", "delete_abilities"}
  /\ ability' = [ability EXCEPT ![c] = "none"]
  /\ op' = [op EXCEPT ![w] = IF op[w].step = "edit_delete" THEN Op("edit_add", c, op[w].st) ELSE Idle]
  /\ UNCHANGED <<row, twice, history>>

DeleteRow(w, c) ==
  /\ op[w] = Idle /\ row[c] # "new"
  /\ row' = [row EXCEPT ![c] = "gone"]
  /\ op' = [op EXCEPT ![w] = Op("delete_abilities", c, "unset")]
  /\ SuspectIf(c, Busy(c))
  /\ RowChanges({c})
  /\ UNCHANGED <<ability, twice>>

\* DeleteDisabledChannel: one statement for all rows, none for the abilities.
DeleteDisabled(w) ==
  LET gone == {c \in Channels : row[c] \in {"manual", "auto"}} IN
  /\ op[w] = Idle /\ gone # {}
  /\ row' = [c \in Channels |-> IF c \in gone THEN "gone" ELSE row[c]]
  /\ suspect' = suspect \cup {c \in gone : Busy(c)}
  /\ RowChanges(gone)
  /\ UNCHANGED <<ability, op, twice>>

Administer(w) ==
  /\ edits < MaxEdits /\ edits' = edits + 1
  /\ \/ \E c \in Channels :
          \/ \E s \in Status : Create(w, c, s)
          \/ \E s \in Status \cup {"unset"} : EditRow(w, c, s)
          \/ DeleteRow(w, c)
     \/ DeleteDisabled(w)

-----------------------------------------------------------------------------
(* Requests. *)

\* Distribute.  Without the cache an ability is drawn first and its row read after;
\* a token that names its channel needs an enabled row.
Route(w, c) ==
  /\ op[w] = Idle
  /\ \/ memoryCache /\ c \in cache /\ op' = [op EXCEPT ![w] = Op("attempt", c, "unset")]
     \/ ~memoryCache /\ ability[c] = "on" /\ op' = [op EXCEPT ![w] = Op("read_row", c, "unset")]
     \/ row[c] = "enabled" /\ op' = [op EXCEPT ![w] = Op("attempt", c, "unset")]
  /\ UNCHANGED <<tables, twice, history>>

ReadRow(w) ==
  /\ op[w].step = "read_row"
  /\ op' = [op EXCEPT ![w] = IF Exists(op[w].ch) THEN Op("attempt", op[w].ch, "unset") ELSE Idle]
  /\ UNCHANGED <<tables, twice, history>>

\* The answer of the channel, and processChannelRelayError.
Answer(w) ==
  /\ op[w].step = "attempt"
  /\ \/ op' = [op EXCEPT ![w] = Idle]
     \/ (AutoDisable \/ EnableMetric) /\ op' = [op EXCEPT ![w] = Op("status_abilities", op[w].ch, "auto")]
  /\ UNCHANGED <<tables, twice, history>>

-----------------------------------------------------------------------------
(* testChannels. *)

StartTest(t) ==
  /\ op[t] = Idle /\ ~testing
  /\ testing' = TRUE
  /\ op' = [op EXCEPT ![t] = Op("list", NoChannel, "unset")]
  /\ UNCHANGED <<tables, left, snapshot, twice, history>>

\* GetAllChannels; when it fails the function returns and the flag stays.
ListChannels(t) ==
  /\ op[t].step = "list"
  /\ left' = [left EXCEPT ![t] = {c \in Channels : Exists(c)}]
  /\ snapshot' = [snapshot EXCEPT ![t] = EnabledRows]
  /\ op' = [op EXCEPT ![t] = Op("test", NoChannel, "unset")]
  /\ UNCHANGED <<tables, testing, twice, history>>

\* The decisions look at the status the channel had when it was listed.  A channel
\* that is both too slow and in error is disabled twice.
TestChannel(t, c) ==
  /\ op[t].step = "test" /\ c \in left[t]
  /\ left' = [left EXCEPT ![t] = @ \ {c}]
  /\ \/ UNCHANGED <<op, twice>>
     \/ /\ c \in snapshot[t] /\ AutoDisable
        /\ op' = [op EXCEPT ![t] = Op("status_abilities", c, "auto")]
        /\ twice' \in {twice, twice \cup {t}}
     \/ /\ c \notin snapshot[t] /\ AutoEnable
        /\ op' = [op EXCEPT ![t] = Op("status_abilities", c, "enabled")]
        /\ UNCHANGED twice
  /\ UNCHANGED <<tables, testing, snapshot, history>>

EndTest(t) ==
  /\ op[t].step = "test" /\ left[t] = {}
  /\ testing' = FALSE
  /\ op' = [op EXCEPT ![t] = Idle]
  /\ UNCHANGED <<tables, left, snapshot, twice, history>>

-----------------------------------------------------------------------------
(* InitChannelCache, run at the start and then by SyncChannelCache. *)

StartRefresh(found) ==
  /\ memoryCache /\ ~refreshing
  /\ refreshing' = TRUE /\ seen' = found /\ changedNow' = {}
  /\ UNCHANGED <<tables, cache, up, op, tests, suspect, changed, edits>>

ReadChannels == StartRefresh(EnabledRows) /\ UNCHANGED <<blind, faults>>

\* The error of the query is not looked at: it found no channels.
ChannelsUnread ==
  /\ StartRefresh({}) /\ blind' = blind \cup {"now"}
  /\ faults < MaxFaults /\ faults' = faults + 1

\* A channel none of whose groups has an ability is put into a map that is nil.
Groupless(C) == {c \in C : \A d \in GroupOf(c) : ability[d] = "none"}

Publish(table) ==
  /\ cache' = table /\ changed' = changedNow
  /\ blind' = IF "now" \in blind THEN {"table"} ELSE {}
  /\ refreshing' = FALSE /\ seen' = {} /\ changedNow' = {}
  /\ UNCHANGED <<tables, up, op, tests, suspect, edits>>

\* Faulty variant: the new table is added to the old one.
ReadAbilitiesMerging ==
  /\ refreshing /\ Groupless(seen) = {}
  /\ Publish(cache \cup seen) /\ UNCHANGED faults

ReadAbilities ==
  /\ refreshing /\ Groupless(seen) = {}
  /\ Publish(seen) /\ UNCHANGED faults

\* Every goroutine ends where it is.
Ends ==
  /\ op' = [a \in Agents |-> Idle]
  /\ testing' = FALSE /\ left' = [t \in Testers |-> {}]
  /\ snapshot' = [t \in Testers |-> {}] /\ twice' = {}
  /\ refreshing' = FALSE /\ seen' = {} /\ changedNow' = {} /\ changed' = {}
  /\ suspect' = suspect \cup {c \in Channels : Busy(c)}
  /\ UNCHANGED <<tables, edits>>
Crash == Ends /\ up' = FALSE /\ cache' = {} /\ blind' = {}

\* The write to a nil map is not recovered: the process ends.
Panic == refreshing /\ Groupless(seen) # {} /\ Crash /\ UNCHANGED faults

\* The error of the second query is not looked at either: it found no groups, so
\* there is no map to put any channel into.
AbilitiesUnread ==
  /\ refreshing
  /\ IF seen = {} THEN Publish({}) ELSE Crash
  /\ faults < MaxFaults /\ faults' = faults + 1

\* main loads the cache before any goroutine runs, with the same two queries; one of
\* them failing counts with the restart.
Load ==
  \/ /\ ~memoryCache \/ Groupless(EnabledRows) = {}
     /\ up' = TRUE /\ cache' = IF memoryCache THEN EnabledRows ELSE {}
     /\ blind' = {}
  \/ memoryCache /\ up' = TRUE /\ cache' = {} /\ blind' = {"table"}
  \/ memoryCache /\ EnabledRows # {} /\ up' = FALSE /\ cache' = {} /\ blind' = {}
Restart ==
  /\ faults < MaxFaults /\ faults' = faults + 1
  /\ Ends /\ Load

-----------------------------------------------------------------------------
(* A statement that fails. *)

Fails(a) ==
  LET c == op[a].ch
      step == op[a].step IN
  /\ faults < MaxFaults /\ faults' = faults + 1
  /\ step \in OpenSteps \cup {"status_abilities", "list"}
  /\ CASE step = "status_abilities" ->   \* only logged
            op' = [op EXCEPT ![a] = Op("status_row", c, op[a].st)] /\ UNCHANGED twice
       [] step = "edit_read" ->          \* not looked at
            op' = [op EXCEPT ![a] = Op("edit_delete", c, op[a].st)] /\ UNCHANGED twice
       [] step = "status_row" -> AfterStatus(a)
       [] OTHER -> op' = [op EXCEPT ![a] = Idle] /\ UNCHANGED twice
  /\ suspect' = suspect \cup ({c} \cap Channels)
  /\ UNCHANGED <<tables, testing, left, snapshot, changed, changedNow>>

Work(w) ==
  \/ (\E c \in Channels : Route(w, c)) \/ ReadRow(w) \/ Answer(w)
  \/ StatusAbilities(w) \/ StatusRow(w)
  \/ AddAbilities(w) \/ EditRead(w) \/ DeleteAbilities(w)

Test(t) ==
  \/ StartTest(t) \/ ListChannels(t) \/ EndTest(t)
  \/ \E c \in Channels : TestChannel(t, c)

Operations ==
  \/ \E w \in Workers : Work(w) /\ UNCHANGED <<testing, left, snapshot, edits, faults>>
  \/ \E w \in Workers : Administer(w) /\ UNCHANGED <<testing, left, snapshot, faults>>
  \/ \E t \in Testers : Test(t) /\ UNCHANGED <<edits, faults>>
  \/ \E t \in Testers : /\ StatusAbilities(t) \/ StatusRow(t)
                        /\ UNCHANGED <<testing, left, snapshot, edits, faults>>
  \/ \E a \in Agents : Fails(a) /\ UNCHANGED edits

Next ==
  /\ UNCHANGED memoryCache
  /\ \/ up /\ Operations /\ UNCHANGED <<refresh, up>>
     \/ up /\ (ReadChannels \/ ChannelsUnread \/ ReadAbilities \/ AbilitiesUnread \/ Panic)
     \/ Restart

\* SyncChannelCache never stops while the process runs.
Refreshes(A) == up /\ A /\ UNCHANGED memoryCache
Fairness == WF_vars(Refreshes(ReadChannels)) /\ WF_vars(Refreshes(ReadAbilities \/ Panic))
Spec == Init /\ [][Next]_vars
FairSpec == Spec /\ Fairness

-----------------------------------------------------------------------------
TypeOK ==
  /\ memoryCache \in CacheModes
  /\ row \in [Channels -> Status \cup {"new", "gone"}]
  /\ ability \in [Channels -> {"none", "off", "on"}]
  /\ op \in [Agents -> [step : Steps, ch : Channels \cup {NoChannel}, st : Status \cup {"unset"}]]
  /\ \A a \in Agents : op[a].ch = NoChannel <=> op[a].step \in {"idle", "list", "test"}
  /\ left \in [Testers -> SUBSET Channels] /\ snapshot \in [Testers -> SUBSET Channels]
  /\ {cache, seen, suspect, changed, changedNow} \subseteq SUBSET Channels
  /\ twice \subseteq Testers
  /\ blind \subseteq {"now", "table"}
  /\ {refreshing, up, testing} \subseteq BOOLEAN
  /\ edits \in 0..MaxEdits /\ faults \in 0..MaxFaults

\* A channel takes requests drawn from the abilities exactly when its status says
\* so.  The code keeps the two columns in step by writing both everywhere; that is
\* enough unless two operations on the channel overlapped, one was cut short, or
\* one found no row, since the last edit that was not disturbed.
Agree(c) ==
  IF Exists(c) THEN ability[c] = (IF row[c] = "enabled" THEN "on" ELSE "off")
  ELSE ability[c] # "on"
TablesAgree == \A c \in Channels \ suspect : Busy(c) \/ Agree(c)

\* The routing table is exactly the enabled channels, but for those whose row was
\* written after the first query of the refresh that built it.  If that query failed
\* the table is empty, whatever is enabled, until the next refresh.
CacheIsCurrent ==
  memoryCache /\ up =>
    IF "table" \in blind THEN cache = {}
    ELSE \A c \in Channels \ changed : c \in cache <=> row[c] = "enabled"

\* What takes the process down: a restart or a refresh whose second query failed, both
\* counted by faults, or an enabled channel met by the refresh that an operation is
\* halfway through, that an operation left without abilities, or that was changed
\* between the two queries.
PanicHasCause ==
  [][up /\ ~up' => \/ faults' > faults
                   \/ \E c \in seen : Busy(c) \/ c \in suspect \/ c \in changedNow]_vars

\* A channel that stays disabled leaves the routing table for good.
DisabledLeavesCache ==
  \A c \in Channels : <>[](row[c] # "enabled") => <>[](c \notin cache)

-----------------------------------------------------------------------------
(* Statements that do not hold; see the observations in the README. *)

\* "Test already running" is answered only while a test runs.
RunningMeansARun == testing => \E t \in Testers : op[t] # Idle

\* An enabled ability whose channel has no row, with nobody at work on it: what
\* Distribute calls a broken database.
NoOrphanAbility == \A c \in Channels : Busy(c) \/ Exists(c) \/ ability[c] # "on"

=============================================================================
