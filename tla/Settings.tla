------------------------------ MODULE Settings ------------------------------
(***************************************************************************)
(* Options: a row each in the database, the map and the variables that     *)
(* every node makes of them, UpdateOption, and the loop that polls the     *)
(* rows.  The price tables are options too; how a price is looked up in    *)
(* them is part of this module.  The loop runs on nodes with Redis or the  *)
(* memory cache; a row it cannot take ends the program of its node.        *)
(***************************************************************************)
EXTENDS Naturals

CONSTANTS
  Nodes,
  Editors,        \* goroutines that serve UpdateOption
  Entries,        \* keys of the price tables
  Names,          \* names of models, or of groups, that are entries
  Types,          \* types of channels
  Specific,       \* Specific[m][t]: the entry of a model for a type, "name(type)"
  PromptBase,     \* a name without its "-internet", in GetModelRatio
  CompletionBase, \* and in GetCompletionRatio
  DefaultModelRatio, DefaultCompletionRatio, DefaultGroupRatio,
  FamilyRatio,    \* what the prefixes of a name say of its completion ratio
  DefaultOf(_),   \* what a variable that is not a table starts with
  Hosts,          \* the nodes an editor may be on
  Scopes          \* bounds of a behaviour: the keys of its options, the rows there are, the requests
                  \* (key and text) administrators may make, how many of them, and how many faults

IsTable(t) == DOMAIN t \subseteq Entries /\ t \in [DOMAIN t -> Nat]

ASSUME SettingsAssumption ==
  /\ Names \subseteq Entries /\ Nodes \cap Editors = {} /\ "none" \notin Nodes \cup Editors
  /\ Specific \in [Names -> [Types -> Entries]]
  /\ PromptBase \in [Names -> Names] /\ CompletionBase \in [Names -> Names]
  /\ IsTable(DefaultModelRatio) /\ IsTable(DefaultCompletionRatio) /\ IsTable(DefaultGroupRatio)
  /\ FamilyRatio \in [Names -> Nat]
  /\ Hosts \in [Editors -> SUBSET Nodes]
  /\ \A s \in Scopes : /\ DOMAIN s.rows \subseteq s.keys /\ (\A r \in s.requests : r.key \in s.keys)
                        /\ s.edits \in Nat /\ s.faults \in Nat

VARIABLES
  scope,      \* the scope of this behaviour
  db,         \* rows of options
  up,         \* nodes whose program runs
  shown,      \* OptionMap of each node
  used,       \* the variables and tables of each node
  lock,       \* OptionMapRWMutex of each node: who holds it
  job,        \* UpdateOption of editors, and the loop of each node, under the node's name
  todo,       \* rows the loop has read and not applied yet
  bounds,     \* edits and faults so far
  given,      \* history: the text that each variable was last set by
  dirty,      \* history: rows written since the loop of the node last read them
  late        \* history: variables set by an editor whose text is not in the row

ghosts == <<given, dirty, late>>
vars == <<scope, db, up, shown, used, lock, job, todo, bounds, ghosts>>
Actors == Nodes \cup Editors

-----------------------------------------------------------------------------
(* Prices. *)

\* "-internet" is cut off, then the type's own entry goes before the general one.
GetModelRatio(table, name, type) ==
  LET base == PromptBase[name]
      model == Specific[base][type]
  IN  IF model \in DOMAIN table THEN table[model]
      ELSE IF model \in DOMAIN DefaultModelRatio THEN DefaultModelRatio[model]
      ELSE IF base \in DOMAIN table THEN table[base]
      ELSE IF base \in DOMAIN DefaultModelRatio THEN DefaultModelRatio[base]
      ELSE 30

GetCompletionRatio(table, name, type) ==
  LET base == CompletionBase[name]
      model == Specific[base][type]
  IN  IF model \in DOMAIN table THEN table[model]
      ELSE IF model \in DOMAIN DefaultCompletionRatio THEN DefaultCompletionRatio[model]
      ELSE IF base \in DOMAIN table THEN table[base]
      ELSE IF base \in DOMAIN DefaultCompletionRatio THEN DefaultCompletionRatio[base]
      ELSE FamilyRatio[base]

GetGroupRatio(table, name) == IF name \in DOMAIN table THEN table[name] ELSE 1

\* Faulty variant: the prices of the program go before those of the administrator.
MissingAddedOverrides(table) ==
  [e \in DOMAIN table \cup DOMAIN DefaultModelRatio |->
     IF e \in DOMAIN DefaultModelRatio THEN DefaultModelRatio[e] ELSE table[e]]

MissingAdded(table) ==
  [e \in DOMAIN table \cup DOMAIN DefaultModelRatio |->
     IF e \in DOMAIN table THEN table[e] ELSE DefaultModelRatio[e]]

-----------------------------------------------------------------------------
(* Texts of options. *)

Text(kind, value) == [kind |-> kind, value |-> value]

EmptyTable == [e \in {} |-> 0]
TableKeys == {"ModelRatio", "CompletionRatio", "GroupRatio"}
Zero(key) == IF key \in TableKeys THEN EmptyTable ELSE 0
Blank(key) == Text("blank", Zero(key))                  \* the empty string
NoRow(key) == Text("none", Zero(key))

\* Unmarshal, ParseInt, a comparison with "true", or the text itself.  A text that is
\* not well-formed gives the zero value, but for a table the entries that can be read;
\* no text at all is a list of one empty domain.  The text "null" is well-formed, and
\* for a table leaves no map, which is read as an empty one.
Parse(key, text) ==
  CASE text.kind = "good" \/ key \in TableKeys -> text.value
    [] key = "EmailDomainWhitelist" -> 1
    [] OTHER -> Zero(key)

\* Nothing can be added to the map that "null" leaves: the goroutine panics.
Panics(k, text) == k = "ModelRatio" /\ text.kind = "null" /\ DefaultModelRatio # EmptyTable

AddNewMissingRatio(text) ==
  IF text.kind = "good" THEN Text("good", MissingAdded(text.value)) ELSE text

Loaded(key, text) == IF key = "ModelRatio" THEN AddNewMissingRatio(text) ELSE text

Default(key) ==
  CASE key = "ModelRatio" -> DefaultModelRatio
    [] key = "CompletionRatio" -> DefaultCompletionRatio
    [] key = "GroupRatio" -> DefaultGroupRatio
    [] OTHER -> DefaultOf(key)

-----------------------------------------------------------------------------
(* UpdateOption. *)

Idle == [pc |-> "idle", node |-> "none", key |-> "none", raw |-> Text("none", 0), text |-> Text("none", 0)]
Job(pc, n, key, raw, text) == [pc |-> pc, node |-> n, key |-> key, raw |-> raw, text |-> text]
Goto(a, pc) == job' = [job EXCEPT ![a].pc = pc]

\* What the handler refuses; it looks at the variables of its node.
Refused(n, key, text) ==
  \/ key = "Theme" /\ text.kind # "good"
  \/ key = "GitHubOAuthEnabled" /\ Parse(key, text) = 1 /\ used[n]["GitHubClientId"] = 0
  \/ key = "EmailDomainRestrictionEnabled" /\ Parse(key, text) = 1 /\ used[n]["EmailDomainWhitelist"] = 0

UpdateOption(x) ==
  /\ job[x].pc = "idle" /\ bounds.edits < scope.edits
  /\ \E n \in Hosts[x] \cap up, r \in scope.requests :
       /\ ~Refused(n, r.key, r.text)
       /\ job' = [job EXCEPT ![x] = Job("create", n, r.key, r.text, r.text)]
  /\ bounds' = [bounds EXCEPT !.edits = @ + 1]
  /\ UNCHANGED <<scope, db, up, shown, used, lock, todo, ghosts>>

WriteRow(key, text) ==
  /\ db' = [db EXCEPT ![key] = text]
  /\ dirty' = [n \in Nodes |-> dirty[n] \cup {key}]

\* FirstOrCreate: a row that is new has no value yet.
Create(x) ==
  LET k == job[x].key
  IN  /\ job[x].pc = "create"
      /\ IF db[k] = NoRow(k) THEN WriteRow(k, Blank(k)) ELSE UNCHANGED <<db, dirty>>
      /\ Goto(x, "save")
      /\ UNCHANGED <<scope, up, shown, used, lock, todo, bounds, given, late>>

Save(x) ==
  /\ job[x].pc = "save"
  /\ WriteRow(job[x].key, job[x].text)
  /\ Goto(x, "map")
  /\ UNCHANGED <<scope, up, shown, used, lock, todo, bounds, given, late>>

Fault == bounds.faults < scope.faults /\ bounds' = [bounds EXCEPT !.faults = @ + 1]

\* The error of Save is not looked at.
SaveFails(x) ==
  /\ job[x].pc = "save" /\ Fault
  /\ Goto(x, "map")
  /\ UNCHANGED <<scope, db, up, shown, used, lock, todo, ghosts>>

-----------------------------------------------------------------------------
(* updateOptionMap, of an editor or of the loop of a node. *)

MapStep(a) ==
  LET j == job[a]
  IN  /\ j.pc = "map" /\ lock[j.node] = "none"
      /\ lock' = [lock EXCEPT ![j.node] = a]
      /\ shown' = [shown EXCEPT ![j.node][j.key] = j.text]
      /\ given' = [given EXCEPT ![j.node][j.key] = j.raw]
      /\ late' = [late EXCEPT ![j.node] = IF a \in Editors /\ j.raw # db[j.key] THEN @ \cup {j.key} ELSE @ \ {j.key}]
      /\ Goto(a, "config")
      /\ UNCHANGED <<scope, db, up, used, todo, bounds, dirty>>

\* Faulty variant: no unlocking when the text is malformed.
ReleaseOnSuccess(a) ==
  /\ IF job[a].text.kind = "good" THEN lock' = [lock EXCEPT ![job[a].node] = "none"] ELSE UNCHANGED lock
  /\ job' = [job EXCEPT ![a] = Idle]

Release(a) == lock' = [lock EXCEPT ![job[a].node] = "none"] /\ job' = [job EXCEPT ![a] = Idle]

\* The model and group ratios are emptied and filled under a lock of their own, the
\* completion ratio for all to see.
ConfigStep(a) ==
  LET j == job[a]
  IN  /\ j.pc = "config"
      /\ IF j.key = "CompletionRatio"
         THEN /\ used' = [used EXCEPT ![j.node][j.key] = EmptyTable]
              /\ Goto(a, "fill") /\ UNCHANGED lock
         ELSE /\ used' = [used EXCEPT ![j.node][j.key] = Parse(j.key, j.text)]
              /\ Release(a)
      /\ UNCHANGED <<scope, db, up, shown, todo, bounds, ghosts>>

FillStep(a) ==
  LET j == job[a]
  IN  /\ j.pc = "fill"
      /\ used' = [used EXCEPT ![j.node][j.key] = Parse(j.key, j.text)]
      /\ Release(a)
      /\ UNCHANGED <<scope, db, up, shown, todo, bounds, ghosts>>

-----------------------------------------------------------------------------
(* SyncOptions. *)

Rows == {k \in scope.keys : db[k] # NoRow(k)}

\* AllOption; a read that fails gives no rows.
Poll(n) ==
  /\ n \in up /\ job[n].pc = "idle" /\ todo[n] = EmptyTable /\ Rows # {}
  /\ todo' = [todo EXCEPT ![n] = [k \in Rows |-> db[k]]]
  /\ dirty' = [dirty EXCEPT ![n] = {}]
  /\ UNCHANGED <<scope, db, up, shown, used, lock, job, bounds, given, late>>

\* Faulty variant: rows that follow one that is malformed are left.
RestTillError(n, k) ==
  IF todo[n][k].kind = "good" THEN [m \in DOMAIN todo[n] \ {k} |-> todo[n][m]] ELSE EmptyTable

Rest(n, k) == [m \in DOMAIN todo[n] \ {k} |-> todo[n][m]]

NextRow(n) ==
  /\ job[n].pc = "idle"
  /\ \E k \in DOMAIN todo[n] :
       /\ ~Panics(k, todo[n][k])
       /\ job' = [job EXCEPT ![n] = Job("map", n, k, todo[n][k], Loaded(k, todo[n][k]))]
       /\ todo' = [todo EXCEPT ![n] = Rest(n, k)]
  /\ UNCHANGED <<scope, db, up, shown, used, lock, bounds, ghosts>>

\* InitOptionMap, with the rows that were read.
Given(k, read) == IF k \in read THEN db[k] ELSE Text("good", Default(k))
Shown(k, read) == IF k \in read THEN Loaded(k, db[k]) ELSE Text("good", Default(k))

\* The program of a node is gone with its jobs, and has read these rows since, none
\* while it is down.
Begin(n, read) ==
  /\ job' = [a \in Actors |-> IF job[a].node = n THEN Idle ELSE job[a]]
  /\ lock' = [lock EXCEPT ![n] = "none"]
  /\ todo' = [todo EXCEPT ![n] = EmptyTable]
  /\ given' = [given EXCEPT ![n] = [k \in scope.keys |-> Given(k, read)]]
  /\ shown' = [shown EXCEPT ![n] = [k \in scope.keys |-> Shown(k, read)]]
  /\ used' = [used EXCEPT ![n] = [k \in scope.keys |-> Parse(k, Shown(k, read))]]
  /\ dirty' = [dirty EXCEPT ![n] = Rows \ read]
  /\ late' = [late EXCEPT ![n] = {}]
  /\ UNCHANGED <<scope, db>>

\* A row that the loop cannot take ends the program.
RowPanics(n) ==
  /\ job[n].pc = "idle" /\ \E k \in DOMAIN todo[n] : Panics(k, todo[n][k])
  /\ Begin(n, {}) /\ up' = up \ {n} /\ UNCHANGED bounds

Stopping == \E k \in Rows : Panics(k, db[k])

\* A node goes down, of itself or because the completion ratio was read while it was
\* filled, and its program is started again; the error of AllOption is not looked at.
Restart(n) ==
  /\ Fault
  /\ \/ ~Stopping /\ Begin(n, Rows) /\ up' = up \cup {n}
     \/ Stopping /\ Begin(n, {}) /\ up' = up \ {n}
     \/ Begin(n, {}) /\ up' = up \cup {n}

\* One that is down is started until it stays up.
StartAgain(n) ==
  /\ n \notin up /\ ~Stopping
  /\ Begin(n, Rows) /\ up' = up \cup {n} /\ UNCHANGED bounds

-----------------------------------------------------------------------------
FirstRead == IF Stopping THEN {} ELSE Rows

Init ==
  /\ scope \in Scopes
  /\ db = [k \in scope.keys |-> IF k \in DOMAIN scope.rows THEN scope.rows[k] ELSE NoRow(k)]
  /\ up = IF Stopping THEN {} ELSE Nodes
  /\ given = [n \in Nodes |-> [k \in scope.keys |-> Given(k, FirstRead)]]
  /\ shown = [n \in Nodes |-> [k \in scope.keys |-> Shown(k, FirstRead)]]
  /\ used = [n \in Nodes |-> [k \in scope.keys |-> Parse(k, Shown(k, FirstRead))]]
  /\ lock = [n \in Nodes |-> "none"]
  /\ job = [a \in Actors |-> Idle]
  /\ todo = [n \in Nodes |-> EmptyTable]
  /\ bounds = [edits |-> 0, faults |-> 0]
  /\ dirty = [n \in Nodes |-> Rows \ FirstRead] /\ late = [n \in Nodes |-> {}]

Next ==
  \/ \E x \in Editors : UpdateOption(x) \/ Create(x) \/ Save(x) \/ SaveFails(x)
  \/ \E a \in Actors : MapStep(a) \/ ConfigStep(a) \/ FillStep(a)
  \/ \E n \in Nodes : Poll(n) \/ NextRow(n) \/ RowPanics(n) \/ Restart(n) \/ StartAgain(n)

\* Goroutines get on, and a mutex is not withheld for ever from one that waits for it;
\* nothing says that a node which is down is started again.
Fairness ==
  /\ \A x \in Editors : WF_vars(Create(x) \/ Save(x))
  /\ \A a \in Actors : SF_vars(MapStep(a)) /\ WF_vars(ConfigStep(a) \/ FillStep(a))
  /\ \A n \in Nodes : WF_vars(Poll(n) \/ NextRow(n) \/ RowPanics(n))

Spec == Init /\ [][Next]_vars /\ Fairness

-----------------------------------------------------------------------------
(* Properties. *)

\* Two tables give the same prices.
SamePrices(key, one, other) ==
  CASE key = "ModelRatio" ->
         \A m \in Names, t \in Types : GetModelRatio(one, m, t) = GetModelRatio(other, m, t)
    [] key = "CompletionRatio" ->
         \A m \in Names, t \in Types : GetCompletionRatio(one, m, t) = GetCompletionRatio(other, m, t)
    [] OTHER -> \A m \in Names : GetGroupRatio(one, m) = GetGroupRatio(other, m)

\* A node at rest uses what it shows, and charges what the text it was last given says,
\* whether an update or the loop, which adds missing entries, gave it: nodes that were
\* given the same text charge the same.
ChargesAsGiven ==
  \A n \in Nodes : lock[n] = "none" =>
    \A k \in scope.keys :
      /\ used[n][k] = Parse(k, shown[n][k])
      /\ IF k \in TableKeys THEN SamePrices(k, used[n][k], Parse(k, given[n][k]))
         ELSE used[n][k] = Parse(k, given[n][k])

Pending(n, k) == k \in DOMAIN todo[n] \/ \E a \in Actors : job[a].node = n /\ job[a].key = k /\ job[a].pc = "map"

\* A node is behind a row only if the row was written since the loop of the node read
\* it, the value is on its way, or an editor on this node was overtaken between its
\* Save and its update of the map (or its Save failed).
BehindHasCause ==
  \A n \in Nodes, k \in Rows : given[n][k] # db[k] => k \in dirty[n] \cup late[n] \/ Pending(n, k)

\* Once administrators have stopped, every node that runs comes to what the rows say and
\* stays there, although a poll may put an old value back for a while, a first update
\* shows others an empty row, and an update that fails to be saved is undone.  None runs
\* on if the row of the model ratios was left at "null", which the handler accepts and
\* the loop panics on.
Converges ==
  <>[](/\ \A n \in up, k \in Rows : given[n][k] = db[k]
       /\ Stopping => up = {})

=============================================================================
