------------------------ MODULE ChannelStatus_proofs ------------------------
(***************************************************************************)
(* Proofs about the channels, for every set of channels, goroutines and    *)
(* deployments.  Of ChannelStatus: typing, the contents of the routing     *)
(* table, and when the status of a channel and its abilities agree.  Of    *)
(* ChannelMetric, which shares the channels and the process: the cause of  *)
(* a disabling by its outcomes.  Of RelayRetry, which draws from them:     *)
(* what is drawn, and that each failed attempt is reported once.           *)
(***************************************************************************)
EXTENDS ChannelStatus, ChannelMetric, RelayRetry, FiniteSetTheorems, NaturalsInduction,
        WellFoundedInduction, TLAPS

Waiting == {"idle", "list", "test"}
OpType == [step : Steps, ch : Channels \cup {NoChannel}, st : Status \cup {"unset"}]

\* An operation that was begun by its caller: the status it carries is one the
\* callers of UpdateChannelStatusById and AddChannel pass.
GoodOp(r) ==
  /\ r \in OpType
  /\ r.ch = NoChannel <=> r.step \in Waiting
  /\ r.step \in {"status_abilities", "status_row"} => r.st \in {"auto", "enabled"}
  /\ r.step = "add_abilities" => r.st \in Status

OpsOk == op \in [Agents -> OpType] /\ \A a \in Agents : GoodOp(op[a])
TablesOk ==
  /\ row \in [Channels -> Status \cup {"new", "gone"}]
  /\ ability \in [Channels -> {"none", "off", "on"}]
RestOk ==
  /\ memoryCache \in CacheModes
  /\ left \in [Testers -> SUBSET Channels] /\ snapshot \in [Testers -> SUBSET Channels]
  /\ cache \subseteq Channels /\ seen \subseteq Channels /\ suspect \subseteq Channels
  /\ changed \subseteq Channels /\ changedNow \subseteq Channels
  /\ twice \subseteq Testers /\ blind \subseteq {"now", "table"}
  /\ refreshing \in BOOLEAN /\ up \in BOOLEAN /\ testing \in BOOLEAN
  /\ edits \in 0..MaxEdits /\ faults \in 0..MaxFaults
TypeInv == OpsOk /\ TablesOk /\ RestOk

LEMMA TypeInvTyped == TypeInv => TypeOK
<1> SUFFICES ASSUME TypeInv PROVE TypeOK
  OBVIOUS
<1>1. op \in [Agents -> [step : Steps, ch : Channels \cup {NoChannel}, st : Status \cup {"unset"}]]
  BY DEF TypeInv, OpsOk, OpType
<1>2. \A a \in Agents : op[a].ch = NoChannel <=> op[a].step \in {"idle", "list", "test"}
  BY DEF TypeInv, OpsOk, GoodOp, Waiting
<1>3. QED
  BY <1>1, <1>2 DEF TypeInv, TablesOk, RestOk, TypeOK

-----------------------------------------------------------------------------
(* What a step does to the operations: one goroutine goes on to r. *)

Moves(a, r) == GoodOp(r) /\ op' = [op EXCEPT ![a] = r]

LEMMA IdleGood == GoodOp(Idle)
  BY DEF GoodOp, OpType, Idle, Steps, OpenSteps, Waiting

LEMMA OpGood ==
  ASSUME NEW step \in Steps \ Waiting, NEW c \in Channels, NEW s \in Status \cup {"unset"},
         step \in {"status_abilities", "status_row"} => s \in {"auto", "enabled"},
         step = "add_abilities" => s \in Status
  PROVE  GoodOp(Op(step, c, s))
  BY ChannelAssumption DEF GoodOp, OpType, Op, Waiting

LEMMA WaitGood ==
  ASSUME NEW step \in {"list", "test"}
  PROVE  GoodOp(Op(step, NoChannel, "unset"))
  BY ChannelAssumption DEF GoodOp, OpType, Op, Steps, OpenSteps, Waiting

LEMMA Moved ==
  ASSUME OpsOk, NEW a \in Agents, NEW r, Moves(a, r)
  PROVE  /\ OpsOk'
         /\ op'[a] = r
         /\ \A b \in Agents \ {a} : op'[b] = op[b]
<1>1. op \in [Agents -> OpType] /\ r \in OpType
  BY DEF OpsOk, Moves, GoodOp
<1>2. /\ op' \in [Agents -> OpType] /\ op'[a] = r
      /\ \A b \in Agents \ {a} : op'[b] = op[b]
  BY <1>1 DEF Moves
<1>3. \A b \in Agents : GoodOp(op'[b])
  BY <1>2 DEF OpsOk, Moves
<1>4. QED
  BY <1>2, <1>3 DEF OpsOk, GoodOp

\* The channel of an operation that waits for nothing.
LEMMA ChannelOf ==
  ASSUME OpsOk, NEW a \in Agents, op[a].step \notin Waiting
  PROVE  /\ op[a].ch \in Channels /\ op[a].st \in Status \cup {"unset"} /\ op[a].step \in Steps
         /\ op[a].step \in {"status_abilities", "status_row"} => op[a].st \in {"auto", "enabled"}
         /\ op[a].step = "add_abilities" => op[a].st \in Status
<1>1. op[a] \in OpType /\ GoodOp(op[a])
  BY DEF OpsOk
<1>2. QED
  BY <1>1 DEF OpType, GoodOp

-----------------------------------------------------------------------------
(* The operations, each as one fact: who moves where, and what is written. *)

LEMMA Facts ==
  /\ OpenSteps \subseteq Steps \ Waiting
  /\ {"read_row", "attempt", "status_abilities"} \subseteq Steps \ Waiting
  /\ {"read_row", "attempt", "status_abilities"} \cap OpenSteps = {}
  /\ Idle.step = "idle" /\ Idle.ch = NoChannel
  /\ "unset" \notin Status /\ "new" \notin Status /\ "gone" \notin Status
  /\ {"auto", "enabled", "manual"} = Status
  BY DEF OpenSteps, Steps, Waiting, Idle, Status

\* A step that opens or closes no operation and writes nothing.
Quiet(a) ==
  \E r : /\ Moves(a, r)
         /\ op[a].step \notin OpenSteps /\ r.step \notin OpenSteps
         /\ r.ch \in Channels => op[a].ch = r.ch \/ row[r.ch] # "new"
         /\ UNCHANGED <<row, ability, suspect, changed, changedNow>>

LEMMA StayQuiet ==
  ASSUME OpsOk, NEW a \in Agents, op' = op, op[a].step \notin OpenSteps,
         UNCHANGED <<row, ability, suspect, changed, changedNow>>
  PROVE  Quiet(a)
<1>1. GoodOp(op[a]) /\ op' = [op EXCEPT ![a] = op[a]]
  BY DEF OpsOk
<1>2. QED
  BY <1>1 DEF Quiet, Moves

\* No operation has a channel that was not created, and nothing else has it.
NewOk ==
  \A c \in Channels : row[c] = "new" =>
    /\ ability[c] = "none" /\ c \notin cache /\ c \notin seen
    /\ \A a \in Agents : op[a].ch # c
    /\ \A t \in Testers : c \notin left[t]

LEMMA RouteEffect ==
  ASSUME TypeInv, NewOk, NEW w \in Agents, NEW c \in Channels, Route(w, c)
  PROVE  Quiet(w)
<1>1. row[c] # "new"
  BY DEF Route, NewOk
<1>2. PICK step \in {"attempt", "read_row"} : op' = [op EXCEPT ![w] = Op(step, c, "unset")]
  BY DEF Route
<1>3. GoodOp(Op(step, c, "unset"))
  BY OpGood, Facts
<1>4. op[w].step \notin OpenSteps
  BY DEF Route, OpenSteps, Idle
<1>5. step \notin OpenSteps /\ Op(step, c, "unset").step = step /\ Op(step, c, "unset").ch = c
  BY Facts DEF Op
<1>6. UNCHANGED <<row, ability, suspect, changed, changedNow>>
  BY DEF Route, tables, history
<1>7. QED
  BY <1>1, <1>2, <1>3, <1>4, <1>5, <1>6 DEF Quiet, Moves

LEMMA ReadRowEffect ==
  ASSUME TypeInv, NEW w \in Agents, ReadRow(w)
  PROVE  Quiet(w)
<1>1. op[w].step = "read_row" /\ op[w].step \notin Waiting /\ op[w].step \notin OpenSteps
  BY DEF ReadRow, Waiting, OpenSteps
<1>2. op[w].ch \in Channels
  BY <1>1, ChannelOf DEF TypeInv
<1>3. GoodOp(Op("attempt", op[w].ch, "unset"))
  BY <1>2, OpGood, Facts
<1>4. UNCHANGED <<row, ability, suspect, changed, changedNow>>
  BY DEF ReadRow, tables, history
<1>5. /\ Op("attempt", op[w].ch, "unset").step = "attempt" /\ Op("attempt", op[w].ch, "unset").ch = op[w].ch
      /\ "attempt" \notin OpenSteps /\ Idle.step \notin OpenSteps /\ Idle.ch \notin Channels
  BY ChannelAssumption DEF Op, OpenSteps, Idle
<1>6. CASE Exists(op[w].ch)
  <2>1. op' = [op EXCEPT ![w] = Op("attempt", op[w].ch, "unset")]
    BY <1>6 DEF ReadRow
  <2>2. QED
    BY <2>1, <1>1, <1>3, <1>4, <1>5 DEF Quiet, Moves
<1>7. CASE ~Exists(op[w].ch)
  <2>1. op' = [op EXCEPT ![w] = Idle]
    BY <1>7 DEF ReadRow
  <2>2. QED
    BY <2>1, <1>1, <1>4, <1>5, IdleGood DEF Quiet, Moves
<1>8. QED
  BY <1>6, <1>7

LEMMA AnswerEffect ==
  ASSUME TypeInv, NEW w \in Agents, Answer(w)
  PROVE  Quiet(w)
<1>1. op[w].step = "attempt" /\ op[w].step \notin Waiting /\ op[w].step \notin OpenSteps
  BY DEF Answer, Waiting, OpenSteps
<1>2. op[w].ch \in Channels
  BY <1>1, ChannelOf DEF TypeInv
<1>3. GoodOp(Op("status_abilities", op[w].ch, "auto"))
  BY <1>2, OpGood, Facts
<1>4. UNCHANGED <<row, ability, suspect, changed, changedNow>>
  BY DEF Answer, tables, history
<1>5. /\ Op("status_abilities", op[w].ch, "auto").step = "status_abilities"
      /\ Op("status_abilities", op[w].ch, "auto").ch = op[w].ch
      /\ "status_abilities" \notin OpenSteps /\ Idle.step \notin OpenSteps /\ Idle.ch \notin Channels
  BY ChannelAssumption DEF Op, OpenSteps, Idle
<1>6. CASE op' = [op EXCEPT ![w] = Op("status_abilities", op[w].ch, "auto")]
  BY <1>6, <1>1, <1>3, <1>4, <1>5 DEF Quiet, Moves
<1>7. CASE op' = [op EXCEPT ![w] = Idle]
  BY <1>7, <1>1, <1>4, <1>5, IdleGood DEF Quiet, Moves
<1>8. QED
  BY <1>6, <1>7 DEF Answer

LEMMA TestEffect ==
  ASSUME TypeInv, NewOk, NEW t \in Testers, Test(t)
  PROVE  /\ Quiet(t)
         /\ left' \in [Testers -> SUBSET Channels] /\ snapshot' \in [Testers -> SUBSET Channels]
         /\ twice' \subseteq Testers /\ testing' \in BOOLEAN
         /\ \A c \in Channels : row[c] = "new" => \A u \in Testers : c \notin left'[u]
<1> t \in Agents
  BY DEF Agents
<1>0. /\ left \in [Testers -> SUBSET Channels] /\ snapshot \in [Testers -> SUBSET Channels]
      /\ twice \subseteq Testers /\ testing \in BOOLEAN
      /\ \A c \in Channels : row[c] = "new" => \A u \in Testers : c \notin left[u]
  BY DEF TypeInv, RestOk, NewOk
<1>1. /\ \A step \in {"list", "test"} : /\ Op(step, NoChannel, "unset").step \notin OpenSteps
                                        /\ Op(step, NoChannel, "unset").ch \notin Channels
      /\ Idle.step \notin OpenSteps /\ Idle.ch \notin Channels
  BY ChannelAssumption DEF Op, OpenSteps, Idle
<1>2. CASE StartTest(t)
  <2>1. op' = [op EXCEPT ![t] = Op("list", NoChannel, "unset")] /\ op[t].step \notin OpenSteps
    BY <1>2 DEF StartTest, Idle, OpenSteps
  <2>2. Quiet(t)
    BY <1>2, <2>1, <1>1, WaitGood DEF StartTest, Quiet, Moves, tables, history
  <2>3. QED
    BY <1>2, <2>2, <1>0 DEF StartTest
<1>3. CASE ListChannels(t)
  <2>1. op' = [op EXCEPT ![t] = Op("test", NoChannel, "unset")] /\ op[t].step \notin OpenSteps
    BY <1>3 DEF ListChannels, OpenSteps
  <2>2. Quiet(t)
    BY <1>3, <2>1, <1>1, WaitGood DEF ListChannels, Quiet, Moves, tables, history
  <2>3. /\ left' = [left EXCEPT ![t] = {c \in Channels : Exists(c)}]
        /\ snapshot' = [snapshot EXCEPT ![t] = EnabledRows] /\ UNCHANGED <<twice, testing>>
    BY <1>3 DEF ListChannels
  <2>4. /\ left' \in [Testers -> SUBSET Channels] /\ snapshot' \in [Testers -> SUBSET Channels]
    BY <2>3, <1>0 DEF EnabledRows
  <2>5. \A c \in Channels : row[c] = "new" => \A u \in Testers : c \notin left'[u]
    BY <2>3, <1>0, Facts DEF Exists
  <2>6. QED
    BY <2>2, <2>3, <2>4, <2>5, <1>0
<1>4. CASE EndTest(t)
  <2>1. op' = [op EXCEPT ![t] = Idle] /\ op[t].step \notin OpenSteps
    BY <1>4 DEF EndTest, OpenSteps
  <2>2. Quiet(t)
    BY <1>4, <2>1, <1>1, IdleGood DEF EndTest, Quiet, Moves, tables, history
  <2>3. QED
    BY <1>4, <2>2, <1>0 DEF EndTest
<1>5. ASSUME NEW c \in Channels, TestChannel(t, c)
      PROVE  /\ Quiet(t) /\ left' \in [Testers -> SUBSET Channels]
             /\ UNCHANGED <<snapshot, testing>> /\ twice' \subseteq Testers
             /\ \A d \in Channels : row[d] = "new" => \A u \in Testers : d \notin left'[u]
  <2>1. op[t].step \notin OpenSteps /\ row[c] # "new"
    BY <1>5 DEF TestChannel, OpenSteps, NewOk
  <2>2. UNCHANGED <<row, ability, suspect, changed, changedNow>> /\ UNCHANGED <<snapshot, testing>>
    BY <1>5 DEF TestChannel, tables, history
  <2>3. left' = [left EXCEPT ![t] = left[t] \ {c}]
    BY <1>5 DEF TestChannel
  <2>4. left' \in [Testers -> SUBSET Channels]
    BY <2>3, <1>0
  <2>5. \A d \in Channels : row[d] = "new" => \A u \in Testers : d \notin left'[u]
    BY <2>3, <1>0
  <2>6. twice' \subseteq Testers
    BY <1>5, <1>0 DEF TestChannel
  <2>7. \A s \in {"auto", "enabled"} :
           /\ GoodOp(Op("status_abilities", c, s)) /\ Op("status_abilities", c, s).ch = c
           /\ Op("status_abilities", c, s).step \notin OpenSteps
    <3>1. \A s \in {"auto", "enabled"} : GoodOp(Op("status_abilities", c, s))
      BY OpGood, Facts
    <3>2. QED
      BY <3>1 DEF Op, OpenSteps
  <2>8. Quiet(t)
    <3>1. CASE op' = op
      BY <3>1, <2>1, <2>2, StayQuiet DEF TypeInv
    <3>2. CASE op' = [op EXCEPT ![t] = Op("status_abilities", c, "auto")]
      BY <3>2, <2>1, <2>2, <2>7 DEF Quiet, Moves
    <3>3. CASE op' = [op EXCEPT ![t] = Op("status_abilities", c, "enabled")]
      BY <3>3, <2>1, <2>2, <2>7 DEF Quiet, Moves
    <3>4. QED
      BY <1>5, <3>1, <3>2, <3>3 DEF TestChannel
  <2>9. QED
    BY <2>2, <2>4, <2>5, <2>6, <2>8
<1>6. CASE \E c \in Channels : TestChannel(t, c)
  BY <1>5, <1>6, <1>0
<1>7. QED
  BY <1>2, <1>3, <1>4, <1>6 DEF Test

-----------------------------------------------------------------------------
(* The two tables.  Sound(c) is what makes TablesAgree inductive: unless c is  *)
(* suspect at most one operation on it is open, the tables are as that         *)
(* operation left them, and they agree when none is.                           *)

Open(r, c) == r.ch = c /\ r.step \in OpenSteps
Fits(r, c) ==
  /\ r.step = "status_row" =>
       IF Exists(c) THEN ability[c] = (IF r.st = "enabled" THEN "on" ELSE "off")
       ELSE ability[c] # "on"
  /\ r.step = "edit_read" => Exists(c)
  /\ r.step = "edit_delete" => Exists(c) /\ r.st = row[c]
  /\ r.step \in {"edit_add", "add_abilities"} => Exists(c) /\ r.st = row[c] /\ ability[c] = "none"
  /\ r.step = "delete_abilities" => ~Exists(c)
Sound(c) ==
  c \notin suspect =>
    /\ \A a, b \in Agents : Open(op[a], c) /\ Open(op[b], c) => a = b
    /\ \A a \in Agents : Open(op[a], c) => Fits(op[a], c)
    /\ (\A a \in Agents : ~Open(op[a], c)) => Agree(c)
AllSound == \A c \in Channels : Sound(c)

LEMMA BusyOpen == \A c : Busy(c) <=> \E a \in Agents : Open(op[a], c)
  BY DEF Busy, Open

LEMMA SoundAgree == AllSound => TablesAgree
  BY BusyOpen DEF AllSound, Sound, TablesAgree

\* The channel a step is about.
LEMMA Focus ==
  ASSUME OpsOk, NEW a \in Agents, NEW r, Moves(a, r), NEW c \in Channels,
         \A b \in Agents \ {a} : ~Open(op[b], c),
         Open(r, c) => Fits(r, c)',
         ~Open(r, c) => Agree(c)'
  PROVE  Sound(c)'
<1>1. op'[a] = r /\ \A b \in Agents \ {a} : op'[b] = op[b]
  BY Moved
<1>2. \A b \in Agents \ {a} : ~Open(op'[b], c)
  BY <1>1
<1>3. \A b, d \in Agents : Open(op'[b], c) /\ Open(op'[d], c) => b = d
  BY <1>2
<1>4. \A b \in Agents : Open(op'[b], c) => b = a
  BY <1>2
<1>5. Open(op'[a], c) => Fits(r, c)'
  BY <1>1
<1>6. \A b \in Agents : Open(op'[b], c) => Fits(op[b], c)'
  BY <1>4, <1>5, <1>1 DEF Fits
<1>7. (\A b \in Agents : ~Open(op'[b], c)) => Agree(c)'
  BY <1>1
<1>8. QED
  BY <1>3, <1>6, <1>7 DEF Sound, Open

\* The channels it is not about.
LEMMA Elsewhere ==
  ASSUME OpsOk, NEW a \in Agents, NEW r, Moves(a, r), NEW d \in Channels, Sound(d),
         ~Open(op[a], d), ~Open(r, d),
         row'[d] = row[d], ability'[d] = ability[d], d \in suspect => d \in suspect'
  PROVE  Sound(d)'
<1>1. op'[a] = r /\ \A b \in Agents \ {a} : op'[b] = op[b]
  BY Moved
<1>2. \A b \in Agents : Open(op'[b], d) <=> Open(op[b], d)
  BY <1>1
<1>3. \A b \in Agents : Open(op'[b], d) => op'[b] = op[b]
  BY <1>1
<1>4. Agree(d) => Agree(d)'
  BY DEF Agree, Exists
<1>5. \A b \in Agents : Open(op'[b], d) /\ Fits(op[b], d) => Fits(op[b], d)'
  BY <1>3 DEF Fits, Exists
<1>6. QED
  BY <1>2, <1>4, <1>5 DEF Sound, Open

Kept(d) == row'[d] = row[d] /\ ability'[d] = ability[d] /\ (d \in suspect => d \in suspect')

\* A goroutine writes to the tables of one channel, or only moves on with it.
Writes(a, c) ==
  \E r : /\ Moves(a, r)
         /\ op[a].ch \in {c, NoChannel} /\ r.ch \in {c, NoChannel}
         /\ TablesOk' /\ suspect' \subseteq Channels
         /\ \A d \in Channels \ {c} : Kept(d)
         /\ row'[c] # "new"
         /\ \/ UNCHANGED <<row, changed, changedNow>>
            \/ RowChanges({c})

LEMMA WriteSound ==
  ASSUME OpsOk, AllSound, NEW a \in Agents, NEW c \in Channels, Writes(a, c), Sound(c)'
  PROVE  AllSound'
<1>1. PICK r : /\ Moves(a, r)
               /\ op[a].ch \in {c, NoChannel} /\ r.ch \in {c, NoChannel}
               /\ \A d \in Channels \ {c} : Kept(d)
  BY DEF Writes
<1>2. ASSUME NEW d \in Channels \ {c} PROVE Sound(d)'
  <2>1. ~Open(op[a], d) /\ ~Open(r, d)
    BY <1>1, ChannelAssumption DEF Open
  <2>2. d \in Channels /\ Sound(d)
    BY DEF AllSound
  <2>3. row'[d] = row[d] /\ ability'[d] = ability[d] /\ (d \in suspect => d \in suspect')
    BY <1>1 DEF Kept
  <2>4. Moves(a, r)
    BY <1>1
  <2>5. QED
    BY <2>1, <2>2, <2>3, <2>4, Elsewhere
<1>3. QED
  BY <1>2 DEF AllSound

LEMMA QuietSound ==
  ASSUME OpsOk, AllSound, NEW a \in Agents, Quiet(a)
  PROVE  AllSound'
<1>1. PICK r : /\ Moves(a, r) /\ op[a].step \notin OpenSteps /\ r.step \notin OpenSteps
               /\ UNCHANGED <<row, ability, suspect>>
  BY DEF Quiet
<1>2. \A d \in Channels : ~Open(op[a], d) /\ ~Open(r, d)
  BY <1>1 DEF Open
<1>3. ASSUME NEW d \in Channels PROVE Sound(d)'
  BY <1>1, <1>2, Elsewhere DEF AllSound
<1>4. QED
  BY <1>3 DEF AllSound

\* Only one operation is open on a channel that is not suspect.
LEMMA Sole ==
  ASSUME OpsOk, AllSound, NEW a \in Agents, NEW c \in Channels, c \notin suspect,
         Open(op[a], c) \/ ~Busy(c)
  PROVE  \A b \in Agents \ {a} : ~Open(op[b], c)
  BY BusyOpen DEF AllSound, Sound

-----------------------------------------------------------------------------
(* The operations that write: each writes to one channel and leaves it sound. *)

\* Sound(c) need only be shown of a channel that does not come out suspect.
LEMMA SuspectSound == ASSUME NEW c, c \in suspect' PROVE Sound(c)'
  BY DEF Sound

\* A channel that does not come out suspect was not busy with anything else.
LEMMA Unsuspected ==
  ASSUME NEW c, NEW bad, SuspectIf(c, bad), c \notin suspect'
  PROVE  ~bad /\ c \notin suspect
  BY DEF SuspectIf

LEMMA RowPut ==
  ASSUME TablesOk, NEW c \in Channels, NEW s \in Status \cup {"gone"}, row' = [row EXCEPT ![c] = s], ability' = ability
  PROVE  TablesOk' /\ row'[c] = s /\ \A d \in Channels \ {c} : row'[d] = row[d] /\ ability'[d] = ability[d]
  BY DEF TablesOk

LEMMA AbilityPut ==
  ASSUME TablesOk, NEW c \in Channels, NEW e \in {"none", "off", "on"}, ability' = [ability EXCEPT ![c] = e], row' = row
  PROVE  TablesOk' /\ ability'[c] = e /\ \A d \in Channels \ {c} : row'[d] = row[d] /\ ability'[d] = ability[d]
  BY DEF TablesOk

LEMMA Same ==
  ASSUME TablesOk, row' = row, ability' = ability
  PROVE  TablesOk' /\ \A d \in Channels : row'[d] = row[d] /\ ability'[d] = ability[d]
  BY DEF TablesOk

LEMMA StatusAbilitiesEffect ==
  ASSUME TypeInv, NewOk, AllSound, NEW a \in Agents, NEW c \in Channels, c = op[a].ch, StatusAbilities(a)
  PROVE  Writes(a, c) /\ Sound(c)'
<1>0. OpsOk /\ TablesOk /\ suspect \subseteq Channels /\ row[c] # "new"
  BY DEF TypeInv, RestOk, NewOk
<1>1. op[a].step = "status_abilities" /\ op[a].st \in {"auto", "enabled"} /\ op[a].st \in Status \cup {"unset"}
  BY <1>0, ChannelOf DEF StatusAbilities, Waiting
<1>2. PICK r : r = Op("status_row", c, op[a].st)
  OBVIOUS
<1>3. GoodOp(r) /\ r.step = "status_row" /\ r.ch = c /\ r.st = op[a].st /\ Open(r, c)
  <2>1. GoodOp(r)
    BY <1>1, <1>2, OpGood, Facts DEF OpenSteps
  <2>2. QED
    BY <2>1, <1>2 DEF Op, Open, OpenSteps
<1>4. Moves(a, r)
  BY <1>2, <1>3 DEF StatusAbilities, Moves
<1>5. PICK e \in {"none", "off", "on"} :
        e = IF ability[c] = "none" THEN "none" ELSE IF op[a].st = "enabled" THEN "on" ELSE "off"
  OBVIOUS
<1>6. row' = row /\ ability' = [ability EXCEPT ![c] = e]
  BY <1>5 DEF StatusAbilities
<1>7. TablesOk' /\ ability'[c] = e /\ \A d \in Channels \ {c} : row'[d] = row[d] /\ ability'[d] = ability[d]
  BY <1>0, <1>6, AbilityPut
<1>8. SuspectIf(c, Busy(c) \/ (op[a].st = "enabled" /\ ~Exists(c))) /\ UNCHANGED <<changed, changedNow>>
  BY DEF StatusAbilities
<1>9. Writes(a, c)
  BY <1>0, <1>3, <1>4, <1>6, <1>7, <1>8 DEF Writes, SuspectIf, Kept
<1>10. Sound(c)'
  <2>1. CASE c \in suspect'
    BY <2>1, SuspectSound
  <2>2. CASE c \notin suspect'
    <3>1. ~Busy(c) /\ ~(op[a].st = "enabled" /\ ~Exists(c)) /\ c \notin suspect
      BY <2>2, <1>8, Unsuspected
    <3>2. Agree(c)
      BY <3>1, BusyOpen DEF AllSound, Sound
    <3>3. Fits(r, c)'
      BY <3>1, <3>2, <1>0, <1>1, <1>3, <1>5, <1>6, <1>7 DEF Fits, Agree, Exists, TablesOk
    <3>4. \A b \in Agents \ {a} : ~Open(op[b], c)
      BY <3>1, BusyOpen
    <3>5. QED
      BY <3>3, <3>4, <1>0, <1>3, <1>4, Focus
  <2>3. QED
    BY <2>1, <2>2
<1>11. QED
  BY <1>9, <1>10

LEMMA AfterStatusEffect ==
  ASSUME TypeInv, NEW a \in Agents, NEW c \in Channels, c = op[a].ch, AfterStatus(a)
  PROVE  /\ \E r : Moves(a, r) /\ r.ch \in {c, NoChannel} /\ r.step \notin OpenSteps
         /\ twice' \subseteq Testers
<1>1. GoodOp(Op("status_abilities", c, "auto")) /\ GoodOp(Op("test", NoChannel, "unset")) /\ GoodOp(Idle)
  BY OpGood, WaitGood, IdleGood, Facts
<1>2. /\ Op("status_abilities", c, "auto").ch = c /\ Op("status_abilities", c, "auto").step \notin OpenSteps
      /\ Op("test", NoChannel, "unset").ch = NoChannel /\ Op("test", NoChannel, "unset").step \notin OpenSteps
      /\ Idle.ch = NoChannel /\ Idle.step \notin OpenSteps
  BY DEF Op, Idle, OpenSteps
<1>3. PICK r \in {Idle, Op("status_abilities", c, "auto"), Op("test", NoChannel, "unset")} : op' = [op EXCEPT ![a] = r]
  BY DEF AfterStatus
<1>4. twice' \subseteq Testers
  BY DEF AfterStatus, TypeInv, RestOk
<1>5. QED
  BY <1>1, <1>2, <1>3, <1>4 DEF Moves

LEMMA StatusRowEffect ==
  ASSUME TypeInv, NewOk, AllSound, NEW a \in Agents, NEW c \in Channels, c = op[a].ch, StatusRow(a)
  PROVE  Writes(a, c) /\ Sound(c)' /\ twice' \subseteq Testers
<1>0. OpsOk /\ TablesOk /\ suspect \subseteq Channels /\ row[c] \in Status \cup {"gone"}
  <2>1. row[c] \in Status \cup {"new", "gone"} /\ row[c] # "new"
    BY DEF TypeInv, TablesOk, NewOk
  <2>2. QED
    BY <2>1 DEF TypeInv, RestOk
<1>1. op[a].step = "status_row" /\ op[a].st \in Status /\ Open(op[a], c)
  <2>1. op[a].step = "status_row" /\ op[a].step \notin Waiting
    BY DEF StatusRow, Waiting
  <2>2. QED
    BY <2>1, <1>0, ChannelOf, Facts DEF Open, OpenSteps
<1>2. PICK r : Moves(a, r) /\ r.ch \in {c, NoChannel} /\ r.step \notin OpenSteps
  BY AfterStatusEffect DEF StatusRow
<1>3. PICK s \in Status \cup {"gone"} : s = IF Exists(c) THEN op[a].st ELSE row[c]
  BY <1>0, <1>1
<1>4. row' = [row EXCEPT ![c] = s] /\ ability' = ability /\ suspect' = suspect /\ RowChanges({c})
  BY <1>3 DEF StatusRow
<1>5. TablesOk' /\ row'[c] = s /\ \A d \in Channels \ {c} : row'[d] = row[d] /\ ability'[d] = ability[d]
  BY <1>0, <1>4, RowPut
<1>6. Writes(a, c)
  BY <1>0, <1>2, <1>4, <1>5, Facts DEF Writes, Kept
<1>7. Sound(c)'
  <2>1. CASE c \in suspect'
    BY <2>1, SuspectSound
  <2>2. CASE c \notin suspect'
    <3>1. Fits(op[a], c) /\ c \notin suspect
      BY <2>2, <1>1, <1>4 DEF AllSound, Sound
    <3>2. Agree(c)'
      BY <3>1, <1>0, <1>1, <1>3, <1>4, <1>5, Facts DEF Fits, Agree, Exists
    <3>3. \A b \in Agents \ {a} : ~Open(op[b], c)
      BY <3>1, <1>0, <1>1, Sole
    <3>4. ~Open(r, c)
      BY <1>2 DEF Open
    <3>5. QED
      BY <3>2, <3>3, <3>4, <1>0, <1>2, Focus
  <2>3. QED
    BY <2>1, <2>2
<1>8. twice' \subseteq Testers
  BY AfterStatusEffect DEF StatusRow
<1>9. QED
  BY <1>6, <1>7, <1>8

LEMMA CreateEffect ==
  ASSUME TypeInv, NewOk, AllSound, NEW w \in Agents, NEW c \in Channels, NEW s \in Status, Create(w, c, s)
  PROVE  Writes(w, c) /\ Sound(c)'
<1>0. OpsOk /\ TablesOk /\ suspect \subseteq Channels
  BY DEF TypeInv, RestOk
<1>1. op[w].ch = NoChannel /\ ability[c] = "none" /\ \A b \in Agents : ~Open(op[b], c)
  BY Facts DEF Create, NewOk, Open
<1>2. PICK r : r = Op("add_abilities", c, s)
  OBVIOUS
<1>3. GoodOp(r) /\ r.ch = c /\ r.step = "add_abilities" /\ r.st = s
  <2>1. GoodOp(r)
    BY <1>2, OpGood, Facts DEF OpenSteps
  <2>2. QED
    BY <2>1, <1>2 DEF Op
<1>4. Moves(w, r) /\ row' = [row EXCEPT ![c] = s] /\ ability' = ability /\ suspect' = suspect /\ RowChanges({c})
  BY <1>2, <1>3 DEF Create, Moves
<1>5. TablesOk' /\ row'[c] = s /\ \A d \in Channels \ {c} : row'[d] = row[d] /\ ability'[d] = ability[d]
  BY <1>0, <1>4, RowPut
<1>6. Writes(w, c)
  BY <1>0, <1>1, <1>3, <1>4, <1>5, Facts DEF Writes, Kept
<1>7. Fits(r, c)' /\ Open(r, c)
  BY <1>1, <1>3, <1>4, <1>5 DEF Fits, Exists, Open, OpenSteps
<1>8. Sound(c)'
  BY <1>0, <1>1, <1>4, <1>7, Focus
<1>9. QED
  BY <1>6, <1>8

LEMMA EditRowEffect ==
  ASSUME TypeInv, NewOk, AllSound, NEW w \in Agents, NEW c \in Channels, NEW s \in Status \cup {"unset"},
         EditRow(w, c, s)
  PROVE  Writes(w, c) /\ Sound(c)'
<1>0. OpsOk /\ TablesOk /\ suspect \subseteq Channels /\ row[c] \in Status \cup {"gone"}
  <2>1. row[c] \in Status \cup {"new", "gone"} /\ row[c] # "new"
    BY DEF TypeInv, TablesOk, EditRow
  <2>2. QED
    BY <2>1 DEF TypeInv, RestOk
<1>1. op[w].ch = NoChannel
  BY Facts DEF EditRow
<1>2. PICK r : r = Op("edit_read", c, s)
  OBVIOUS
<1>3. GoodOp(r) /\ r.ch = c /\ r.step = "edit_read"
  <2>1. GoodOp(r)
    BY <1>2, OpGood, Facts DEF OpenSteps
  <2>2. QED
    BY <2>1, <1>2 DEF Op
<1>4. PICK v \in Status \cup {"gone"} : v = IF Exists(c) /\ s # "unset" THEN s ELSE row[c]
  BY <1>0
<1>5. /\ Moves(w, r) /\ row' = [row EXCEPT ![c] = v] /\ ability' = ability /\ RowChanges({c})
      /\ suspect' = IF Busy(c) \/ ~Exists(c) THEN suspect \cup {c} ELSE suspect \ {c}
  BY <1>2, <1>3, <1>4 DEF EditRow, Moves
<1>6. TablesOk' /\ row'[c] = v /\ \A d \in Channels \ {c} : row'[d] = row[d] /\ ability'[d] = ability[d]
  BY <1>0, <1>5, RowPut
<1>7. Writes(w, c)
  <2>1. suspect' \subseteq Channels /\ \A d \in Channels \ {c} : d \in suspect => d \in suspect'
    BY <1>0, <1>5
  <2>2. QED
    BY <2>1, <1>1, <1>3, <1>5, <1>6, Facts DEF Writes, Kept
<1>8. CASE c \in suspect'
  BY <1>7, <1>8, SuspectSound
<1>9. CASE c \notin suspect'
  <2>1. ~Busy(c) /\ Exists(c)
    BY <1>9, <1>5
  <2>2. Fits(r, c)' /\ Open(r, c)
    BY <2>1, <1>3, <1>4, <1>6 DEF Fits, Exists, Open, OpenSteps
  <2>3. \A b \in Agents \ {w} : ~Open(op[b], c)
    BY <2>1, BusyOpen
  <2>4. Sound(c)'
    BY <2>2, <2>3, <1>0, <1>5, Focus
  <2>5. QED
    BY <2>4, <1>7
<1>10. QED
  BY <1>8, <1>9

LEMMA DeleteRowEffect ==
  ASSUME TypeInv, NewOk, AllSound, NEW w \in Agents, NEW c \in Channels, DeleteRow(w, c)
  PROVE  Writes(w, c) /\ Sound(c)'
<1>0. OpsOk /\ TablesOk /\ suspect \subseteq Channels
  BY DEF TypeInv, RestOk
<1>1. op[w].ch = NoChannel
  BY Facts DEF DeleteRow
<1>2. PICK r : r = Op("delete_abilities", c, "unset")
  OBVIOUS
<1>3. GoodOp(r) /\ r.ch = c /\ r.step = "delete_abilities"
  <2>1. GoodOp(r)
    BY <1>2, OpGood, Facts DEF OpenSteps
  <2>2. QED
    BY <2>1, <1>2 DEF Op
<1>4. /\ Moves(w, r) /\ row' = [row EXCEPT ![c] = "gone"] /\ ability' = ability /\ RowChanges({c})
      /\ SuspectIf(c, Busy(c))
  BY <1>2, <1>3 DEF DeleteRow, Moves
<1>5. TablesOk' /\ row'[c] = "gone" /\ \A d \in Channels \ {c} : row'[d] = row[d] /\ ability'[d] = ability[d]
  BY <1>0, <1>4, RowPut
<1>6. Writes(w, c)
  BY <1>0, <1>1, <1>3, <1>4, <1>5, Facts DEF Writes, Kept, SuspectIf
<1>7. CASE c \in suspect'
  BY <1>6, <1>7, SuspectSound
<1>8. CASE c \notin suspect'
  <2>1. ~Busy(c)
    BY <1>8, <1>4, Unsuspected
  <2>2. Fits(r, c)' /\ Open(r, c)
    BY <1>3, <1>5, Facts DEF Fits, Exists, Open, OpenSteps
  <2>3. \A b \in Agents \ {w} : ~Open(op[b], c)
    BY <2>1, BusyOpen
  <2>4. Sound(c)'
    BY <2>2, <2>3, <1>0, <1>4, Focus
  <2>5. QED
    BY <2>4, <1>6
<1>9. QED
  BY <1>7, <1>8

LEMMA AddAbilitiesEffect ==
  ASSUME TypeInv, NewOk, AllSound, NEW w \in Agents, NEW c \in Channels, c = op[w].ch, AddAbilities(w)
  PROVE  Writes(w, c) /\ Sound(c)'
<1>0. OpsOk /\ TablesOk /\ suspect \subseteq Channels /\ row[c] # "new"
  BY DEF TypeInv, RestOk, NewOk
<1>1. op[w].step \in {"add_abilities", "edit_add"} /\ Open(op[w], c)
  BY DEF AddAbilities, Open, OpenSteps
<1>2. Moves(w, Idle) /\ Idle.ch = NoChannel /\ ~Open(Idle, c)
  BY IdleGood DEF AddAbilities, Moves, Idle, Open, OpenSteps
<1>3. PICK e \in {"none", "off", "on"} :
        e = IF ability[c] # "none" THEN ability[c] ELSE IF op[w].st = "enabled" THEN "on" ELSE "off"
  BY <1>0 DEF TablesOk
<1>4. row' = row /\ ability' = [ability EXCEPT ![c] = e] /\ UNCHANGED <<suspect, changed, changedNow>>
  BY <1>3 DEF AddAbilities, history
<1>5. TablesOk' /\ ability'[c] = e /\ \A d \in Channels \ {c} : row'[d] = row[d] /\ ability'[d] = ability[d]
  BY <1>0, <1>4, AbilityPut
<1>6. Writes(w, c)
  BY <1>0, <1>2, <1>4, <1>5 DEF Writes, Kept
<1>7. CASE c \in suspect'
  BY <1>6, <1>7, SuspectSound
<1>8. CASE c \notin suspect'
  <2>1. Fits(op[w], c) /\ c \notin suspect
    BY <1>8, <1>1, <1>4 DEF AllSound, Sound
  <2>2. Agree(c)'
    BY <2>1, <1>1, <1>3, <1>4, <1>5 DEF Fits, Agree, Exists
  <2>3. \A b \in Agents \ {w} : ~Open(op[b], c)
    BY <2>1, <1>0, <1>1, Sole
  <2>4. Sound(c)'
    BY <2>2, <2>3, <1>0, <1>2, Focus
  <2>5. QED
    BY <2>4, <1>6
<1>9. QED
  BY <1>7, <1>8

LEMMA EditReadEffect ==
  ASSUME TypeInv, NewOk, AllSound, NEW w \in Agents, NEW c \in Channels, c = op[w].ch, EditRead(w)
  PROVE  Writes(w, c) /\ Sound(c)'
<1>0. OpsOk /\ TablesOk /\ suspect \subseteq Channels /\ row[c] # "new"
  BY DEF TypeInv, RestOk, NewOk
<1>1. op[w].step = "edit_read" /\ op[w].step \notin Waiting /\ Open(op[w], c)
  BY DEF EditRead, Open, OpenSteps, Waiting
<1>2. PICK v \in Status \cup {"unset"} : v = IF Exists(c) THEN row[c] ELSE op[w].st
  BY <1>0, <1>1, ChannelOf DEF Exists
<1>3. PICK r : r = Op("edit_delete", c, v)
  OBVIOUS
<1>4. GoodOp(r) /\ r.ch = c /\ r.step = "edit_delete" /\ r.st = v
  <2>1. GoodOp(r)
    BY <1>3, OpGood, Facts DEF OpenSteps
  <2>2. QED
    BY <2>1, <1>3 DEF Op
<1>5. Moves(w, r) /\ row' = row /\ ability' = ability /\ UNCHANGED <<suspect, changed, changedNow>>
  BY <1>2, <1>3, <1>4 DEF EditRead, Moves, tables, history
<1>6. TablesOk' /\ \A d \in Channels : row'[d] = row[d] /\ ability'[d] = ability[d]
  BY <1>0, <1>5, Same
<1>7. Writes(w, c)
  BY <1>0, <1>4, <1>5, <1>6 DEF Writes, Kept
<1>8. CASE c \in suspect'
  BY <1>7, <1>8, SuspectSound
<1>9. CASE c \notin suspect'
  <2>1. Fits(op[w], c) /\ c \notin suspect
    BY <1>9, <1>1, <1>5 DEF AllSound, Sound
  <2>2. Fits(r, c)' /\ Open(r, c)
    BY <2>1, <1>1, <1>2, <1>4, <1>6 DEF Fits, Exists, Open, OpenSteps
  <2>3. \A b \in Agents \ {w} : ~Open(op[b], c)
    BY <2>1, <1>0, <1>1, Sole
  <2>4. Sound(c)'
    BY <2>2, <2>3, <1>0, <1>5, Focus
  <2>5. QED
    BY <2>4, <1>7
<1>10. QED
  BY <1>8, <1>9

LEMMA DeleteAbilitiesEffect ==
  ASSUME TypeInv, NewOk, AllSound, NEW w \in Agents, NEW c \in Channels, c = op[w].ch, DeleteAbilities(w)
  PROVE  Writes(w, c) /\ Sound(c)'
<1>0. OpsOk /\ TablesOk /\ suspect \subseteq Channels /\ row[c] # "new"
  BY DEF TypeInv, RestOk, NewOk
<1>1. op[w].step \in {"edit_delete", "delete_abilities"} /\ op[w].step \notin Waiting /\ Open(op[w], c)
  BY DEF DeleteAbilities, Open, OpenSteps, Waiting
<1>2. row' = row /\ ability' = [ability EXCEPT ![c] = "none"] /\ UNCHANGED <<suspect, changed, changedNow>>
  BY DEF DeleteAbilities, history
<1>3. TablesOk' /\ ability'[c] = "none" /\ \A d \in Channels \ {c} : row'[d] = row[d] /\ ability'[d] = ability[d]
  BY <1>0, <1>2, AbilityPut
<1>4. ASSUME NEW r, Moves(w, r), r.ch \in {c, NoChannel},
             Fits(op[w], c) => (Open(r, c) => Fits(r, c)') /\ (~Open(r, c) => Agree(c)')
      PROVE  Writes(w, c) /\ Sound(c)'
  <2>1. Writes(w, c)
    BY <1>0, <1>2, <1>3, <1>4 DEF Writes, Kept
  <2>2. CASE c \in suspect'
    BY <2>1, <2>2, SuspectSound
  <2>3. CASE c \notin suspect'
    <3>1. Fits(op[w], c) /\ c \notin suspect
      BY <2>3, <1>1, <1>2 DEF AllSound, Sound
    <3>2. \A b \in Agents \ {w} : ~Open(op[b], c)
      BY <3>1, <1>0, <1>1, Sole
    <3>3. Sound(c)'
      BY <3>1, <3>2, <1>0, <1>4, Focus
    <3>4. QED
      BY <3>3, <2>1
  <2>4. QED
    BY <2>2, <2>3
<1>5. CASE op[w].step = "edit_delete"
  <2>1. PICK r : r = Op("edit_add", c, op[w].st)
    OBVIOUS
  <2>2. op[w].st \in Status \cup {"unset"}
    BY <1>0, <1>1, ChannelOf
  <2>3. GoodOp(r) /\ r.ch = c /\ r.step = "edit_add" /\ r.st = op[w].st
    <3>1. GoodOp(r)
      BY <2>1, <2>2, OpGood, Facts DEF OpenSteps
    <3>2. QED
      BY <3>1, <2>1 DEF Op
  <2>4. Moves(w, r)
    BY <2>1, <2>3, <1>5 DEF DeleteAbilities, Moves
  <2>5. Open(r, c) /\ (Fits(op[w], c) => Fits(r, c)')
    BY <2>3, <1>2, <1>3, <1>5 DEF Fits, Exists, Open, OpenSteps
  <2>6. QED
    BY <2>3, <2>4, <2>5, <1>4
<1>6. CASE op[w].step = "delete_abilities"
  <2>1. Moves(w, Idle) /\ Idle.ch = NoChannel /\ ~Open(Idle, c)
    BY <1>6, IdleGood DEF DeleteAbilities, Moves, Idle, Open, OpenSteps
  <2>2. Fits(op[w], c) => Agree(c)'
    BY <1>2, <1>3, <1>6 DEF Fits, Exists, Agree
  <2>3. QED
    BY <2>1, <2>2, <1>4
<1>7. QED
  BY <1>1, <1>5, <1>6

\* A failed statement moves its goroutine on and leaves the channel suspect.
LEMMA FailsEffect ==
  ASSUME TypeInv, NewOk, AllSound, NEW a \in Agents, Fails(a)
  PROVE  /\ Quiet(a) \/ \E c \in Channels : Writes(a, c) /\ Sound(c)'
         /\ twice' \subseteq Testers /\ UNCHANGED <<testing, left, snapshot>>
         /\ faults' \in 0..MaxFaults
<1>0. OpsOk /\ TablesOk /\ suspect \subseteq Channels /\ twice \subseteq Testers /\ faults \in 0..MaxFaults
  BY DEF TypeInv, RestOk
<1>1. faults' \in 0..MaxFaults /\ UNCHANGED <<row, ability, testing, left, snapshot, changed, changedNow>>
  BY <1>0, ChannelAssumption DEF Fails, tables
<1>2. CASE op[a].step = "list"
  <2>1. op' = [op EXCEPT ![a] = Idle] /\ UNCHANGED twice
    BY <1>2 DEF Fails
  <2>2. op[a].ch = NoChannel
    BY <1>0, <1>2 DEF OpsOk, GoodOp, Waiting
  <2>3. suspect' = suspect
    BY <2>2, ChannelAssumption DEF Fails
  <2>4. Moves(a, Idle) /\ Idle.step \notin OpenSteps /\ Idle.ch \notin Channels /\ op[a].step \notin OpenSteps
    BY <2>1, <1>2, IdleGood, ChannelAssumption DEF Moves, Idle, OpenSteps
  <2>5. Quiet(a)
    BY <2>3, <2>4, <1>1 DEF Quiet
  <2>6. QED
    BY <2>1, <2>5, <1>0, <1>1
<1>3. CASE op[a].step # "list"
  <2>1. op[a].step \in OpenSteps \cup {"status_abilities"} /\ op[a].step \notin Waiting
    BY <1>3 DEF Fails, Waiting, OpenSteps
  <2>2. PICK c \in Channels : c = op[a].ch
    BY <2>1, <1>0, ChannelOf
  <2>3. /\ op[a].st \in Status \cup {"unset"}
        /\ op[a].step = "status_abilities" => op[a].st \in {"auto", "enabled"}
    BY <2>1, <1>0, ChannelOf
  <2>4. suspect' = suspect \cup {c}
    BY <2>2 DEF Fails
  <2>5. (\E r : Moves(a, r) /\ r.ch \in {c, NoChannel}) /\ twice' \subseteq Testers
    <3>1. CASE op[a].step = "status_abilities"
      <4>1. op' = [op EXCEPT ![a] = Op("status_row", c, op[a].st)] /\ UNCHANGED twice
        BY <3>1, <2>2 DEF Fails
      <4>2. GoodOp(Op("status_row", c, op[a].st)) /\ Op("status_row", c, op[a].st).ch = c
        <5>1. GoodOp(Op("status_row", c, op[a].st))
          BY <3>1, <2>3, OpGood, Facts DEF OpenSteps
        <5>2. QED
          BY <5>1 DEF Op
      <4>3. QED
        BY <4>1, <4>2, <1>0 DEF Moves
    <3>2. CASE op[a].step = "edit_read"
      <4>1. op' = [op EXCEPT ![a] = Op("edit_delete", c, op[a].st)] /\ UNCHANGED twice
        BY <3>2, <2>2 DEF Fails
      <4>2. GoodOp(Op("edit_delete", c, op[a].st)) /\ Op("edit_delete", c, op[a].st).ch = c
        <5>1. GoodOp(Op("edit_delete", c, op[a].st))
          BY <3>2, <2>3, OpGood, Facts DEF OpenSteps
        <5>2. QED
          BY <5>1 DEF Op
      <4>3. QED
        BY <4>1, <4>2, <1>0 DEF Moves
    <3>3. CASE op[a].step = "status_row"
      <4>1. AfterStatus(a)
        BY <3>3 DEF Fails
      <4>2. QED
        BY <4>1, <2>2, AfterStatusEffect
    <3>4. CASE op[a].step \notin {"status_abilities", "edit_read", "status_row"}
      <4>1. op' = [op EXCEPT ![a] = Idle] /\ UNCHANGED twice
        BY <3>4 DEF Fails
      <4>2. QED
        BY <4>1, <1>0, IdleGood, Facts DEF Moves
    <3>5. QED
      BY <3>1, <3>2, <3>3, <3>4
  <2>6. TablesOk' /\ \A d \in Channels : row'[d] = row[d] /\ ability'[d] = ability[d]
    BY <1>0, <1>1, Same
  <2>7. row[c] # "new"
    BY <2>2 DEF NewOk
  <2>8. Writes(a, c)
    BY <2>2, <2>4, <2>5, <2>6, <2>7, <1>0, <1>1 DEF Writes, Kept
  <2>9. Sound(c)'
    BY <2>4, SuspectSound
  <2>10. QED
    BY <2>5, <2>8, <2>9, <1>1
<1>4. QED
  BY <1>2, <1>3

-----------------------------------------------------------------------------
(* The operations together. *)

\* No operation has a channel that is still new, whose tables are empty.
NewTables ==
  \A c \in Channels : row'[c] = "new" =>
    row[c] = "new" /\ ability'[c] = "none" /\ \A a \in Agents : op'[a].ch # c
\* Rows changed only for channels marked as changed.
RowsMarked ==
  \E C \in SUBSET Channels : RowChanges(C) /\ \A d \in Channels \ C : row'[d] = row[d]
Effect == OpsOk' /\ TablesOk' /\ suspect' \subseteq Channels /\ NewTables /\ RowsMarked /\ AllSound'

LEMMA NothingMarked ==
  ASSUME UNCHANGED <<row, changed, changedNow>>
  PROVE  RowsMarked
<1>1. {} \in SUBSET Channels /\ RowChanges({})
  BY DEF RowChanges
<1>2. QED
  BY <1>1 DEF RowsMarked

LEMMA QuietEffect ==
  ASSUME TypeInv, NewOk, AllSound, NEW a \in Agents, Quiet(a)
  PROVE  Effect
<1>0. OpsOk /\ TablesOk /\ suspect \subseteq Channels
  BY DEF TypeInv, RestOk
<1>1. PICK r : /\ Moves(a, r)
               /\ r.ch \in Channels => op[a].ch = r.ch \/ row[r.ch] # "new"
               /\ UNCHANGED <<row, ability, suspect, changed, changedNow>>
  BY DEF Quiet
<1>2. OpsOk' /\ op'[a] = r /\ \A b \in Agents \ {a} : op'[b] = op[b]
  BY <1>0, <1>1, Moved
<1>3. TablesOk'
  BY <1>0, <1>1, Same
<1>4. NewTables
  BY <1>1, <1>2 DEF NewTables, NewOk
<1>5. AllSound'
  BY <1>0, QuietSound
<1>6. QED
  BY <1>0, <1>1, <1>2, <1>3, <1>4, <1>5, NothingMarked DEF Effect

LEMMA WriteEffect ==
  ASSUME TypeInv, NewOk, AllSound, NEW a \in Agents, NEW c \in Channels, Writes(a, c), Sound(c)'
  PROVE  Effect
<1>0. OpsOk
  BY DEF TypeInv
<1>1. PICK r : /\ Moves(a, r) /\ r.ch \in {c, NoChannel}
               /\ TablesOk' /\ suspect' \subseteq Channels
               /\ \A d \in Channels \ {c} : Kept(d)
               /\ row'[c] # "new"
               /\ UNCHANGED <<row, changed, changedNow>> \/ RowChanges({c})
  BY DEF Writes
<1>2. OpsOk' /\ op'[a] = r /\ \A b \in Agents \ {a} : op'[b] = op[b]
  BY <1>0, <1>1, Moved
<1>3. ASSUME NEW d \in Channels, row'[d] = "new"
      PROVE  row[d] = "new" /\ ability'[d] = "none" /\ \A b \in Agents : op'[b].ch # d
  <2>1. d # c /\ Kept(d)
    BY <1>1, <1>3
  <2>2. row[d] = "new" /\ ability'[d] = ability[d]
    BY <2>1, <1>3 DEF Kept
  <2>3. ability[d] = "none" /\ \A b \in Agents : op[b].ch # d
    BY <2>2 DEF NewOk
  <2>4. r.ch # d
    BY <2>1, <1>1, ChannelAssumption
  <2>5. QED
    BY <2>2, <2>3, <2>4, <1>2
<1>4. RowsMarked
  <2>1. CASE RowChanges({c})
    <3>1. \A d \in Channels \ {c} : row'[d] = row[d]
      BY <1>1 DEF Kept
    <3>2. QED
      BY <2>1, <3>1 DEF RowsMarked
  <2>2. QED
    BY <2>1, <1>1, NothingMarked
<1>5. AllSound'
  BY <1>0, WriteSound
<1>6. QED
  BY <1>1, <1>2, <1>3, <1>4, <1>5 DEF Effect, NewTables

LEMMA DeleteDisabledEffect ==
  ASSUME TypeInv, NewOk, AllSound, NEW w \in Agents, DeleteDisabled(w)
  PROVE  Effect
<1>0. OpsOk /\ TablesOk /\ suspect \subseteq Channels
  BY DEF TypeInv, RestOk
<1>1. PICK C \in SUBSET Channels : C = {c \in Channels : row[c] \in {"manual", "auto"}}
  OBVIOUS
<1>2. /\ row' = [c \in Channels |-> IF c \in C THEN "gone" ELSE row[c]]
      /\ suspect' = suspect \cup {c \in C : Busy(c)}
      /\ RowChanges(C) /\ ability' = ability /\ op' = op
  BY <1>1 DEF DeleteDisabled
<1>3. TablesOk' /\ \A d \in Channels : row'[d] = IF d \in C THEN "gone" ELSE row[d]
  BY <1>0, <1>2 DEF TablesOk
<1>4. OpsOk' /\ suspect' \subseteq Channels
  BY <1>0, <1>2 DEF OpsOk, GoodOp
<1>5. NewTables
  BY <1>2, <1>3 DEF NewTables, NewOk
<1>6. RowsMarked
  BY <1>2, <1>3 DEF RowsMarked
<1>7. ASSUME NEW c \in Channels PROVE Sound(c)'
  <2>1. CASE c \in suspect'
    BY <2>1, SuspectSound
  <2>2. CASE c \notin suspect' /\ c \in C
    <3>1. c \notin suspect /\ ~Busy(c)
      BY <2>2, <1>2
    <3>2. Agree(c) /\ row[c] \in {"manual", "auto"} /\ \A a \in Agents : ~Open(op[a], c)
      BY <3>1, <2>2, <1>1, BusyOpen DEF AllSound, Sound
    <3>3. Agree(c)'
      BY <3>2, <2>2, <1>2, <1>3, Facts DEF Agree, Exists
    <3>4. \A a \in Agents : ~Open(op'[a], c)
      BY <3>2, <1>2
    <3>5. QED
      BY <3>3, <3>4 DEF Sound, Open
  <2>3. CASE c \notin suspect' /\ c \notin C
    <3>1. c \notin suspect /\ row'[c] = row[c] /\ ability'[c] = ability[c]
      BY <2>3, <1>2, <1>3
    <3>2. QED
      BY <3>1, <1>2 DEF AllSound, Sound, Agree, Exists, Fits, Open
  <2>4. QED
    BY <2>1, <2>2, <2>3
<1>8. QED
  BY <1>3, <1>4, <1>5, <1>6, <1>7 DEF Effect, AllSound

\* What an operation leaves of the state of tests and of the counters.
Frame ==
  /\ left' \in [Testers -> SUBSET Channels] /\ snapshot' \in [Testers -> SUBSET Channels]
  /\ twice' \subseteq Testers /\ testing' \in BOOLEAN
  /\ edits' \in 0..MaxEdits /\ faults' \in 0..MaxFaults
  /\ \A c \in Channels : row[c] = "new" => \A t \in Testers : c \notin left'[t]

LEMMA FrameKept ==
  ASSUME TypeInv, NewOk, UNCHANGED <<testing, left, snapshot>>, twice' \subseteq Testers,
         edits' \in 0..MaxEdits, faults' \in 0..MaxFaults
  PROVE  Frame
  BY DEF Frame, TypeInv, RestOk, NewOk

LEMMA OperationsEffect ==
  ASSUME TypeInv, NewOk, AllSound, Operations
  PROVE  Effect /\ Frame
<1>0. OpsOk /\ twice \subseteq Testers /\ edits \in 0..MaxEdits /\ faults \in 0..MaxFaults
  BY DEF TypeInv, RestOk
<1>1. Workers \subseteq Agents /\ Testers \subseteq Agents
  BY DEF Agents
<1>2. ASSUME NEW a \in Agents, StatusAbilities(a) \/ StatusRow(a)
      PROVE  Effect /\ twice' \subseteq Testers
  <2>1. op[a].step \notin Waiting
    BY <1>2 DEF StatusAbilities, StatusRow, Waiting
  <2>2. PICK c \in Channels : c = op[a].ch
    BY <2>1, <1>0, ChannelOf
  <2>3. CASE StatusAbilities(a)
    <3>1. twice' = twice
      BY <2>3 DEF StatusAbilities
    <3>2. QED
      BY <2>2, <2>3, <3>1, <1>0, StatusAbilitiesEffect, WriteEffect
  <2>4. CASE StatusRow(a)
    BY <2>2, <2>4, StatusRowEffect, WriteEffect
  <2>5. QED
    BY <1>2, <2>3, <2>4
<1>3. ASSUME NEW w \in Workers, Work(w), UNCHANGED <<testing, left, snapshot, edits, faults>>
      PROVE  Effect /\ Frame
  <2>0. w \in Agents
    BY <1>1
  <2>1. ASSUME NEW c \in Channels, Route(w, c) PROVE Effect /\ twice' = twice
    BY <2>0, <2>1, RouteEffect, QuietEffect DEF Route
  <2>2. ASSUME ReadRow(w) PROVE Effect /\ twice' = twice
    BY <2>0, <2>2, ReadRowEffect, QuietEffect DEF ReadRow
  <2>3. ASSUME Answer(w) PROVE Effect /\ twice' = twice
    BY <2>0, <2>3, AnswerEffect, QuietEffect DEF Answer
  <2>4. ASSUME AddAbilities(w) \/ EditRead(w) \/ DeleteAbilities(w) PROVE Effect /\ twice' = twice
    <3>1. op[w].step \notin Waiting /\ twice' = twice
      BY <2>4 DEF AddAbilities, EditRead, DeleteAbilities, Waiting
    <3>2. PICK c \in Channels : c = op[w].ch
      BY <3>1, <2>0, <1>0, ChannelOf
    <3>3. Writes(w, c) /\ Sound(c)'
      BY <3>2, <2>0, <2>4, AddAbilitiesEffect, EditReadEffect, DeleteAbilitiesEffect
    <3>4. QED
      BY <3>1, <3>2, <3>3, <2>0, WriteEffect
  <2>5. Effect /\ twice' \subseteq Testers
    BY <1>2, <1>3, <1>0, <2>0, <2>1, <2>2, <2>3, <2>4 DEF Work
  <2>6. QED
    BY <2>5, <1>0, <1>3, FrameKept
<1>4. ASSUME NEW w \in Workers, Administer(w), UNCHANGED <<testing, left, snapshot, faults>>
      PROVE  Effect /\ Frame
  <2>0. w \in Agents /\ edits' \in 0..MaxEdits
    BY <1>0, <1>1, <1>4, ChannelAssumption DEF Administer
  <2>1. ASSUME NEW c \in Channels, NEW s \in Status, Create(w, c, s) PROVE Effect /\ twice' = twice
    BY <2>0, <2>1, CreateEffect, WriteEffect DEF Create
  <2>2. ASSUME NEW c \in Channels, NEW s \in Status \cup {"unset"}, EditRow(w, c, s) PROVE Effect /\ twice' = twice
    BY <2>0, <2>2, EditRowEffect, WriteEffect DEF EditRow
  <2>3. ASSUME NEW c \in Channels, DeleteRow(w, c) PROVE Effect /\ twice' = twice
    BY <2>0, <2>3, DeleteRowEffect, WriteEffect DEF DeleteRow
  <2>4. ASSUME DeleteDisabled(w) PROVE Effect /\ twice' = twice
    BY <2>0, <2>4, DeleteDisabledEffect DEF DeleteDisabled
  <2>5. Effect /\ twice' = twice
    BY <1>4, <2>1, <2>2, <2>3, <2>4 DEF Administer
  <2>6. QED
    BY <2>0, <2>5, <1>0, <1>4, FrameKept
<1>5. ASSUME NEW t \in Testers, Test(t), UNCHANGED <<edits, faults>>
      PROVE  Effect /\ Frame
  <2>1. Effect
    BY <1>1, <1>5, TestEffect, QuietEffect
  <2>2. Frame
    BY <1>0, <1>5, TestEffect DEF Frame
  <2>3. QED
    BY <2>1, <2>2
<1>6. ASSUME NEW t \in Testers, StatusAbilities(t) \/ StatusRow(t),
             UNCHANGED <<testing, left, snapshot, edits, faults>>
      PROVE  Effect /\ Frame
  BY <1>0, <1>1, <1>2, <1>6, FrameKept
<1>7. ASSUME NEW a \in Agents, Fails(a), UNCHANGED edits
      PROVE  Effect /\ Frame
  <2>1. /\ Quiet(a) \/ \E c \in Channels : Writes(a, c) /\ Sound(c)'
        /\ twice' \subseteq Testers /\ UNCHANGED <<testing, left, snapshot>>
        /\ faults' \in 0..MaxFaults
    BY <1>7, FailsEffect
  <2>2. Effect
    BY <2>1, QuietEffect, WriteEffect
  <2>3. QED
    BY <2>1, <2>2, <1>0, <1>7, FrameKept
<1>8. QED
  BY <1>3, <1>4, <1>5, <1>6, <1>7 DEF Operations

-----------------------------------------------------------------------------
(* The refresh of the routing table, the end of the process and its start. *)

\* The first query is as good as the table the second one will publish.
SeenOk ==
  IF ~refreshing THEN "now" \notin blind
  ELSE IF "now" \in blind THEN seen = {}
  ELSE \A c \in Channels \ changedNow : c \in seen <=> row[c] = "enabled"
Inv == TypeInv /\ NewOk /\ AllSound /\ CacheIsCurrent /\ SeenOk

LEMMA InitInv == Init => Inv
<1> SUFFICES ASSUME Init PROVE Inv
  OBVIOUS
<1>1. OpsOk
  BY IdleGood DEF Init, OpsOk, GoodOp
<1>2. TablesOk
  BY DEF Init, TablesOk, Status
<1>3. RestOk
  <2>1. /\ cache \subseteq Channels /\ seen \subseteq Channels /\ suspect \subseteq Channels
        /\ changed \subseteq Channels /\ changedNow \subseteq Channels /\ twice \subseteq Testers
    BY DEF Init, EnabledRows
  <2>5. blind \subseteq {"now", "table"}
    BY DEF Init
  <2>2. left \in [Testers -> SUBSET Channels] /\ snapshot \in [Testers -> SUBSET Channels]
    BY DEF Init
  <2>3. edits \in 0..MaxEdits /\ faults \in 0..MaxFaults
    BY ChannelAssumption DEF Init
  <2>4. memoryCache \in CacheModes /\ refreshing \in BOOLEAN /\ up \in BOOLEAN /\ testing \in BOOLEAN
    BY DEF Init
  <2>6. QED
    BY <2>1, <2>2, <2>3, <2>4, <2>5 DEF RestOk
<1>4. NewOk
  <2>1. \A a \in Agents : op[a].ch = NoChannel
    BY Facts DEF Init
  <2>2. QED
    BY <2>1, <1>2, ChannelAssumption DEF Init, NewOk, TablesOk, EnabledRows
<1>5. AllSound
  <2>1. \A a \in Agents, c \in Channels : ~Open(op[a], c)
    BY Facts, ChannelAssumption DEF Init, Open
  <2>2. \A c \in Channels : Agree(c)
    BY Facts DEF Init, Agree, Exists
  <2>3. QED
    BY <2>1, <2>2 DEF AllSound, Sound
<1>6. CacheIsCurrent /\ SeenOk
  BY DEF Init, CacheIsCurrent, SeenOk, EnabledRows
<1>7. QED
  BY <1>1, <1>2, <1>3, <1>4, <1>5, <1>6 DEF Inv, TypeInv

LEMMA OperationsInv ==
  ASSUME Inv, Operations, UNCHANGED <<memoryCache, refresh, up>>
  PROVE  Inv'
<1>0. TypeInv /\ NewOk /\ AllSound /\ CacheIsCurrent /\ SeenOk
  BY DEF Inv
<1>1. Effect /\ Frame
  BY <1>0, OperationsEffect
<1>2. /\ cache' = cache /\ refreshing' = refreshing /\ seen' = seen /\ blind' = blind
      /\ up' = up /\ memoryCache' = memoryCache
  BY DEF refresh
<1>3. PICK C \in SUBSET Channels : RowChanges(C) /\ \A d \in Channels \ C : row'[d] = row[d]
  BY <1>1 DEF Effect, RowsMarked
<1>4. changed' = changed \cup C /\ changedNow' = changedNow \cup C
  BY <1>3 DEF RowChanges
<1>5. RestOk'
  BY <1>0, <1>1, <1>2, <1>4 DEF Effect, Frame, TypeInv, RestOk
<1>6. NewOk'
  BY <1>0, <1>1, <1>2 DEF Effect, Frame, NewTables, NewOk
<1>7. CacheIsCurrent' /\ SeenOk'
  BY <1>0, <1>2, <1>3, <1>4 DEF CacheIsCurrent, SeenOk
<1>8. QED
  BY <1>1, <1>5, <1>6, <1>7 DEF Effect, Inv, TypeInv

\* Every goroutine has ended.
LEMMA EndsEffect ==
  ASSUME TypeInv, NewOk, AllSound, Ends
  PROVE  OpsOk' /\ TablesOk' /\ AllSound' /\ suspect' \subseteq Channels
         /\ (\A c \in Channels : row'[c] = row[c] /\ ability'[c] = ability[c])
         /\ (\A a \in Agents : op'[a].ch = NoChannel)
<1>0. TablesOk /\ suspect \subseteq Channels
  BY DEF TypeInv, RestOk
<1>1. row' = row /\ ability' = ability /\ op' = [a \in Agents |-> Idle]
      /\ suspect' = suspect \cup {c \in Channels : Busy(c)}
  BY DEF Ends, tables
<1>2. OpsOk'
  BY <1>1, IdleGood DEF OpsOk, GoodOp
<1>3. TablesOk' /\ (\A c \in Channels : row'[c] = row[c] /\ ability'[c] = ability[c])
  BY <1>0, <1>1, Same
<1>4. \A a \in Agents : op'[a].ch = NoChannel
  BY <1>1, Facts
<1>5. ASSUME NEW c \in Channels PROVE Sound(c)'
  <2>1. CASE c \in suspect'
    BY <2>1, SuspectSound
  <2>2. CASE c \notin suspect'
    <3>1. c \notin suspect /\ ~Busy(c)
      BY <2>2, <1>1
    <3>2. Agree(c)
      BY <3>1, BusyOpen DEF AllSound, Sound
    <3>3. Agree(c)'
      BY <3>2, <1>3 DEF Agree, Exists
    <3>4. \A a \in Agents : ~Open(op'[a], c)
      BY <1>4, ChannelAssumption DEF Open
    <3>5. QED
      BY <3>3, <3>4 DEF Sound, Open
  <2>3. QED
    BY <2>1, <2>2
<1>6. QED
  BY <1>0, <1>1, <1>2, <1>3, <1>4, <1>5 DEF AllSound

LEMMA EndsInv ==
  ASSUME Inv, Ends, memoryCache' = memoryCache, edits' \in 0..MaxEdits, faults' \in 0..MaxFaults,
         up' \in BOOLEAN, blind' \subseteq {"table"}, cache' = {} \/ cache' = EnabledRows,
         memoryCache /\ up' => cache' = IF "table" \in blind' THEN {} ELSE EnabledRows
  PROVE  Inv'
<1>0. TypeInv /\ NewOk /\ AllSound
  BY DEF Inv
<1>1. /\ OpsOk' /\ TablesOk' /\ AllSound' /\ suspect' \subseteq Channels
      /\ (\A c \in Channels : row'[c] = row[c] /\ ability'[c] = ability[c])
      /\ (\A a \in Agents : op'[a].ch = NoChannel)
  BY <1>0, EndsEffect
<1>2. /\ testing' = FALSE /\ left' = [t \in Testers |-> {}] /\ snapshot' = [t \in Testers |-> {}] /\ twice' = {}
      /\ refreshing' = FALSE /\ seen' = {} /\ changedNow' = {} /\ changed' = {}
  BY DEF Ends
<1>3. RestOk'
  BY <1>0, <1>1, <1>2 DEF TypeInv, RestOk, EnabledRows
<1>4. NewOk'
  BY <1>0, <1>1, <1>2, ChannelAssumption DEF NewOk, EnabledRows
<1>5. CacheIsCurrent' /\ SeenOk'
  BY <1>1, <1>2 DEF CacheIsCurrent, SeenOk, EnabledRows
<1>6. QED
  BY <1>1, <1>3, <1>4, <1>5 DEF Inv, TypeInv

\* A refresh begins with what its first query found, or publishes its table.
LEMMA RefreshInv ==
  ASSUME Inv, ReadChannels \/ ChannelsUnread \/ ReadAbilities \/ (AbilitiesUnread /\ seen = {}),
         memoryCache' = memoryCache
  PROVE  Inv'
<1>0. TypeInv /\ NewOk /\ AllSound /\ CacheIsCurrent /\ SeenOk /\ OpsOk /\ TablesOk /\ RestOk
  BY DEF Inv, TypeInv
<1>1. UNCHANGED <<row, ability, op, testing, left, snapshot, twice, suspect, edits, up>>
  BY DEF ReadChannels, ChannelsUnread, StartRefresh, ReadAbilities, AbilitiesUnread, Publish,
     tables, tests
<1>2. OpsOk' /\ TablesOk' /\ AllSound'
  <2>1. OpsOk' /\ TablesOk'
    BY <1>0, <1>1 DEF OpsOk, TablesOk, GoodOp
  <2>2. AllSound'
    BY <1>0, <1>1 DEF AllSound, Sound, Open, Fits, Agree, Exists
  <2>3. QED
    BY <2>1, <2>2
<1>3. faults' \in 0..MaxFaults
  BY <1>0, ChannelAssumption
  DEF RestOk, ReadChannels, ChannelsUnread, ReadAbilities, AbilitiesUnread
<1>4. CASE ReadChannels \/ ChannelsUnread
  <2>1. PICK found \in {{}, EnabledRows} :
          /\ StartRefresh(found)
          /\ IF blind' = blind THEN found = EnabledRows \/ "now" \in blind
             ELSE found = {} /\ blind' = blind \cup {"now"}
    BY <1>4 DEF ReadChannels, ChannelsUnread
  <2>2. ~refreshing /\ cache' = cache /\ refreshing' = TRUE /\ seen' = found /\ changedNow' = {}
        /\ changed' = changed
    BY <2>1 DEF StartRefresh
  <2>3. "now" \notin blind /\ blind' \subseteq {"now", "table"}
    BY <1>0, <2>1, <2>2 DEF SeenOk, RestOk
  <2>4. RestOk' /\ NewOk'
    BY <1>0, <1>1, <1>3, <2>2, <2>3 DEF RestOk, NewOk, EnabledRows
  <2>5. "table" \in blind' <=> "table" \in blind
    BY <2>1
  <2>6. CacheIsCurrent'
    BY <1>0, <1>1, <2>2, <2>5 DEF CacheIsCurrent
  <2>7. SeenOk'
    BY <1>1, <2>1, <2>2, <2>3 DEF SeenOk, EnabledRows
  <2>8. QED
    BY <1>2, <2>4, <2>6, <2>7 DEF Inv, TypeInv
<1>5. CASE ReadAbilities \/ (AbilitiesUnread /\ seen = {})
  <2>1. refreshing /\ Publish(seen)
    BY <1>5 DEF ReadAbilities, AbilitiesUnread
  <2>2. /\ cache' = seen /\ refreshing' = FALSE /\ seen' = {} /\ changed' = changedNow /\ changedNow' = {}
        /\ blind' = IF "now" \in blind THEN {"table"} ELSE {}
    BY <2>1 DEF Publish
  <2>3. RestOk' /\ NewOk'
    BY <1>0, <1>1, <1>3, <2>2 DEF RestOk, NewOk
  <2>4. CacheIsCurrent' /\ SeenOk'
    BY <1>0, <1>1, <2>1, <2>2 DEF CacheIsCurrent, SeenOk
  <2>5. QED
    BY <1>2, <2>3, <2>4 DEF Inv, TypeInv
<1>6. QED
  BY <1>4, <1>5

LEMMA NextInv == Inv /\ [Next]_vars => Inv'
<1> SUFFICES ASSUME Inv, [Next]_vars PROVE Inv'
  OBVIOUS
<1>0. edits \in 0..MaxEdits /\ faults \in 0..MaxFaults
  BY DEF Inv, TypeInv, RestOk
<1>1. CASE Operations /\ UNCHANGED <<memoryCache, refresh, up>>
  BY <1>1, OperationsInv
<1>2. CASE /\ ReadChannels \/ ChannelsUnread \/ ReadAbilities \/ (AbilitiesUnread /\ seen = {})
           /\ memoryCache' = memoryCache
  BY <1>2, RefreshInv
<1>3. CASE (Panic \/ (AbilitiesUnread /\ seen # {})) /\ memoryCache' = memoryCache
  <2>1. Crash /\ Ends /\ edits' = edits /\ cache' = {} /\ blind' = {} /\ up' = FALSE
    BY <1>3 DEF Panic, AbilitiesUnread, Crash, Ends
  <2>2. faults' \in 0..MaxFaults
    BY <1>0, <1>3, ChannelAssumption DEF Panic, AbilitiesUnread
  <2>3. QED
    BY <2>1, <2>2, <1>0, <1>3, EndsInv
<1>4. CASE Restart /\ memoryCache' = memoryCache
  <2>1. up' \in BOOLEAN /\ blind' \subseteq {"table"}
    BY <1>4 DEF Restart, Load
  <2>2. faults' \in 0..MaxFaults /\ edits' = edits
    BY <1>0, <1>4, ChannelAssumption DEF Restart, Ends
  <2>3. /\ cache' = {} \/ cache' = EnabledRows
        /\ memoryCache /\ up' => cache' = IF "table" \in blind' THEN {} ELSE EnabledRows
    BY <1>4 DEF Restart, Load
  <2>4. QED
    BY <2>1, <2>2, <2>3, <1>0, <1>4, EndsInv DEF Restart
<1>5. CASE UNCHANGED vars
  <2>1. UNCHANGED <<memoryCache, row, ability, cache, refreshing, seen, blind, up, op, testing, left, snapshot, twice,
                    suspect, changed, changedNow, edits, faults>>
    BY <1>5 DEF vars, tables, refresh, tests, history
  <2>2. TypeInv'
    BY <2>1 DEF Inv, TypeInv, OpsOk, TablesOk, RestOk, GoodOp
  <2>3. AllSound'
    BY <2>1 DEF Inv, AllSound, Sound, Open, Fits, Agree, Exists
  <2>4. NewOk' /\ CacheIsCurrent' /\ SeenOk'
    BY <2>1 DEF Inv, NewOk, CacheIsCurrent, SeenOk
  <2>5. QED
    BY <2>2, <2>3, <2>4 DEF Inv
<1>6. QED
  BY <1>1, <1>2, <1>3, <1>4, <1>5 DEF Next

\* The inductive invariant.
THEOREM StatusInvariant == Spec => []Inv
  BY InitInv, NextInv, PTL DEF Spec

\* Every reachable state is well typed.
THEOREM StatusTypes == Spec => []TypeOK
<1>1. Inv => TypeOK
  BY TypeInvTyped DEF Inv
<1>2. QED
  BY <1>1, StatusInvariant, PTL

\* The routing table InitChannelCache publishes is exact but for the rows written
\* since its first query; when that query failed it is empty.
THEOREM CacheCurrent == Spec => []CacheIsCurrent
<1>1. Inv => CacheIsCurrent
  BY DEF Inv
<1>2. QED
  BY <1>1, StatusInvariant, PTL

\* channels.status and abilities.enabled agree for every channel that nothing is at
\* work on and nothing has made suspect.
THEOREM TablesInStep == Spec => []TablesAgree
<1>1. Inv => TablesAgree
  BY SoundAgree DEF Inv
<1>2. QED
  BY <1>1, StatusInvariant, PTL

\* Apart from a restart, InitChannelCache writes to a nil map, and so ends the process,
\* only when its second query failed or for a channel an operation is halfway through,
\* one left suspect, or one changed between its two queries.
THEOREM PanicCause == Spec => PanicHasCause
<1>1. Inv /\ [Next]_vars => [up /\ ~up' => \/ faults' > faults
                                          \/ \E c \in seen : Busy(c) \/ c \in suspect \/ c \in changedNow]_vars
  <2> SUFFICES ASSUME Inv, Next, up, ~up'
               PROVE  faults' > faults \/ \E c \in seen : Busy(c) \/ c \in suspect \/ c \in changedNow
    OBVIOUS
  <2>1. faults \in Nat
    BY ChannelAssumption DEF Inv, TypeInv, RestOk
  <2>2. CASE Restart
    BY <2>1, <2>2 DEF Restart
  <2>3. CASE Panic
    <3>1. PICK c \in seen : \A d \in GroupOf(c) : ability[d] = "none"
      BY <2>3 DEF Panic, Groupless
    <3>2. c \in Channels /\ refreshing /\ seen # {}
      BY <2>3 DEF Inv, TypeInv, RestOk, Panic
    <3>3. ability[c] = "none"
      BY <3>1, <3>2 DEF GroupOf
    <3>4. ASSUME ~Busy(c), c \notin suspect, c \notin changedNow PROVE FALSE
      <4>1. row[c] = "enabled"
        BY <3>2, <3>4 DEF Inv, SeenOk
      <4>2. Agree(c)
        BY <3>2, <3>4, BusyOpen DEF Inv, AllSound, Sound
      <4>3. QED
        BY <3>3, <4>1, <4>2 DEF Agree, Exists, Status
    <3>5. QED
      BY <3>4
  <2>4. CASE (Operations /\ UNCHANGED <<refresh, up>>) \/ ReadChannels \/ ReadAbilities
    BY <2>4 DEF ReadChannels, StartRefresh, ReadAbilities, Publish
  <2>5. CASE ChannelsUnread \/ AbilitiesUnread
    BY <2>1, <2>5 DEF ChannelsUnread, AbilitiesUnread
  <2>6. QED
    BY <2>2, <2>3, <2>4, <2>5 DEF Next
<1>2. QED
  BY <1>1, StatusInvariant, PTL DEF Spec, PanicHasCause

-----------------------------------------------------------------------------
(* Metrics: the consumers of the outcomes and their map (ChannelMetric). *)

Writing == {"trim_read", "slice_read", "trim", "append_read", "append"}
ConsumerSteps == Writing \cup {"idle", "count", "rate", "judge", "reset"}

\* Outcomes of x for c that the consumer of x has put into the map: all it has taken but
\* the one it is at work on.
AtWork(x, c) == item[x] = c /\ consumerPc[x] \in Writing
Stored(x, c) == taken[x][c] - (IF AtWork(x, c) THEN 1 ELSE 0)

\* Enough outcomes of c were taken to make up a window that disables it, or, when the
\* window was written while it was judged, as many outcomes and of both kinds.
Cause(c) ==
  \E good \in 0..taken[TRUE][c], bad \in 0..taken[FALSE][c] :
    /\ good + bad >= QueueSize
    /\ good * ThresholdDen < ThresholdNum * (good + bad)
TornCause(c) ==
  /\ taken[TRUE][c] + taken[FALSE][c] >= QueueSize
  /\ taken[TRUE][c] > 0 /\ taken[FALSE][c] > 0

\* A consumer has taken the outcome it is at work on, and what it cuts is not empty.
Consuming ==
  /\ consumerPc \in [BOOLEAN -> ConsumerSteps]
  /\ item \in [BOOLEAN -> Channels \cup {NoChannel}] /\ slice \in [BOOLEAN -> Seq(BOOLEAN)]
  /\ taken \in [BOOLEAN -> [Channels -> Nat]]
  /\ \A b \in BOOLEAN : consumerPc[b] # "idle" => item[b] \in Channels
  /\ \A b \in BOOLEAN : consumerPc[b] = "trim" => slice[b] # <<>>
  /\ \A b \in BOOLEAN, c \in Channels : consumerPc[b] # "idle" /\ item[b] = c => taken[b][c] > 0
MetricTyped ==
  /\ store \in [Channels -> Seq(BOOLEAN)]
  /\ buffer \in [BOOLEAN -> Seq(Channels)]
  /\ Consuming
  /\ successCount \in Nat /\ torn \in BOOLEAN
  /\ disabled \in [Channels -> SUBSET {"whole", "torn"}]

\* No window, and no slice a consumer is about to write back, holds more outcomes of a
\* kind than were put into the map.
Genuine(s, c) == \A x \in BOOLEAN : Count(s, x) <= Stored(x, c)
MetricInv ==
  /\ MetricTyped
  /\ \A c \in Channels : Genuine(store[c], c)
  /\ \A b \in BOOLEAN : consumerPc[b] \in {"trim", "append"} => Genuine(slice[b], item[b])

\* What consumeFail knows of the window of c between its reads, when nobody wrote it
\* meanwhile, and that a success was taken, when somebody did.
Judged(c) ==
  /\ consumerPc[FALSE] = "rate" /\ ~torn => successCount = Count(store[c], TRUE)
  /\ consumerPc[FALSE] = "judge" /\ ~torn /\ low =>
       Count(store[c], TRUE) * ThresholdDen < ThresholdNum * Len(store[c])
  /\ consumerPc[FALSE] \in {"rate", "judge"} /\ torn => taken[TRUE][c] > 0
  /\ consumerPc[FALSE] = "reset" => IF torn THEN TornCause(c) ELSE Cause(c)
Caused(c) ==
  /\ "whole" \in disabled[c] => Cause(c)
  /\ "torn" \in disabled[c] => TornCause(c)
JudgeInv == \A c \in Channels : Caused(c) /\ (item[FALSE] = c => Judged(c))

LEMMA CountIs == \A s, b : Count(s, b) = Cardinality({k \in DOMAIN s : s[k] = b})
  BY DEF Count

LEMMA CountType ==
  ASSUME NEW s \in Seq(BOOLEAN), NEW b \in BOOLEAN
  PROVE  /\ IsFiniteSet({k \in DOMAIN s : s[k] = b}) /\ Count(s, b) \in Nat
         /\ s = <<>> => Count(s, b) = 0
<1>1. DOMAIN s = 1..Len(s) /\ Len(s) \in Nat
  OBVIOUS
<1>2. IsFiniteSet(1..Len(s)) /\ {k \in DOMAIN s : s[k] = b} \in SUBSET (1..Len(s))
  BY <1>1, FS_Interval
<1>3. IsFiniteSet({k \in DOMAIN s : s[k] = b})
  BY <1>2, FS_Subset
<1>4. s = <<>> => {k \in DOMAIN s : s[k] = b} = {}
  BY <1>1
<1> QED
  BY <1>3, <1>4, CountIs, FS_CardinalityType, FS_EmptySet

LEMMA CountEmpty == \A x \in BOOLEAN : Count(<<>>, x) = 0
<1>1. <<>> \in Seq(BOOLEAN)
  OBVIOUS
<1> QED
  BY <1>1, CountType

\* Every outcome of a window is a success or a failure.
LEMMA CountBoth ==
  ASSUME NEW s \in Seq(BOOLEAN)
  PROVE  Count(s, TRUE) + Count(s, FALSE) = Len(s)
<1> DEFINE G == {k \in DOMAIN s : s[k] = TRUE}
           B == {k \in DOMAIN s : s[k] = FALSE}
<1>1. DOMAIN s = 1..Len(s) /\ Len(s) \in Nat /\ \A k \in 1..Len(s) : s[k] \in BOOLEAN
  OBVIOUS
<1>2. G \cup B = 1..Len(s) /\ G \cap B = {}
  BY <1>1
<1>3. IsFiniteSet(G) /\ IsFiniteSet(B)
  BY CountType
<1>4. Cardinality(1..Len(s)) = Len(s)
  <2>1. ASSUME NEW n \in Nat PROVE Cardinality(1..n) = n
    BY FS_Interval
  <2> QED
    BY <1>1, <2>1
<1> HIDE DEF G, B
<1>5. Cardinality(G \cup B) = Cardinality(G) + Cardinality(B) - Cardinality(G \cap B)
  BY <1>3, FS_Union
<1>6. Cardinality(G \cap B) = 0 /\ Cardinality(G) \in Nat /\ Cardinality(B) \in Nat
  BY <1>2, <1>3, FS_EmptySet, FS_CardinalityType
<1>7. Cardinality(G \cup B) = Len(s)
  BY <1>2, <1>4, Zenon
<1>8. Cardinality(G) + Cardinality(B) = Len(s)
  BY <1>5, <1>6, <1>7
<1> QED
  BY <1>8, CountIs DEF G, B

LEMMA CountAppend ==
  ASSUME NEW s \in Seq(BOOLEAN), NEW b \in BOOLEAN, NEW x \in BOOLEAN
  PROVE  Count(Append(s, b), x) = Count(s, x) + (IF x = b THEN 1 ELSE 0)
<1> DEFINE S == {k \in DOMAIN s : s[k] = x}
           t == Append(s, b)
           T == {k \in DOMAIN t : t[k] = x}
           n == Len(s) + 1
<1>1. /\ DOMAIN s = 1..Len(s) /\ DOMAIN t = 1..n /\ n \in Nat /\ Len(s) \in Nat
      /\ t[n] = b /\ \A k \in 1..Len(s) : t[k] = s[k]
  OBVIOUS
<1>2. IsFiniteSet(S) /\ Cardinality(S) \in Nat
  BY CountType, FS_CardinalityType
<1>3. n \notin S
  BY <1>1
<1>4. CASE x = b
  <2>1. T = S \cup {n}
    BY <1>1, <1>4
  <2> HIDE DEF S, T, n
  <2>2. Cardinality(T) = Cardinality(S) + 1
    BY <1>2, <1>3, <2>1, FS_AddElement
  <2> QED
    BY <1>4, <2>2, CountIs DEF S, T
<1>5. CASE x # b
  <2>1. T = S
    BY <1>1, <1>5
  <2> HIDE DEF S, T, n
  <2>2. Cardinality(T) = Cardinality(S) + 0
    BY <1>2, <2>1
  <2> QED
    BY <1>5, <2>2, CountIs DEF S, T
<1> QED
  BY <1>4, <1>5

LEMMA CountTail ==
  ASSUME NEW s \in Seq(BOOLEAN), s # <<>>, NEW x \in BOOLEAN
  PROVE  Tail(s) \in Seq(BOOLEAN) /\ Count(Tail(s), x) <= Count(s, x)
<1> DEFINE t == Tail(s)
           S == {k \in DOMAIN s : s[k] = x}
           T == {k \in DOMAIN t : t[k] = x}
           f == [k \in T |-> k + 1]
<1>1. /\ t \in Seq(BOOLEAN) /\ DOMAIN s = 1..Len(s) /\ DOMAIN t = 1..Len(s) - 1 /\ Len(s) \in Nat
      /\ \A k \in 1..Len(s) - 1 : t[k] = s[k + 1]
  OBVIOUS
<1>2. IsFiniteSet(S)
  BY CountType
<1>3. \A k \in T : k \in Nat /\ k + 1 \in S
  BY <1>1
<1>4. f \in Injection(T, S)
  BY <1>3 DEF Injection, IsInjective
<1>5. Cardinality(T) <= Cardinality(S)
  BY <1>2, <1>4, FS_Injection
<1> QED
  BY <1>1, <1>5, CountIs

LEMMA InitMetric == ASSUME MetricInit PROVE MetricInv /\ JudgeInv
<1>1. /\ store = [c \in Channels |-> <<>>] /\ buffer = [b \in BOOLEAN |-> <<>>]
      /\ consumerPc = [b \in BOOLEAN |-> "idle"] /\ item = [b \in BOOLEAN |-> NoChannel]
      /\ slice = [b \in BOOLEAN |-> <<>>]
      /\ taken = [b \in BOOLEAN |-> [c \in Channels |-> 0]] /\ disabled = [c \in Channels |-> {}]
      /\ successCount = 0 /\ torn = FALSE
  BY DEF MetricInit
<1>2. MetricTyped
  <2>1. <<>> \in Seq(BOOLEAN) /\ <<>> \in Seq(Channels) /\ "idle" \in ConsumerSteps
    BY DEF ConsumerSteps
  <2>2. Consuming
    BY <1>1, <2>1 DEF Consuming
  <2> QED
    BY <1>1, <2>1, <2>2 DEF MetricTyped
<1>3. ASSUME NEW c \in Channels, NEW x \in BOOLEAN PROVE Count(store[c], x) <= Stored(x, c)
  <2>1. store[c] = <<>> /\ Stored(x, c) = 0
    BY <1>1 DEF Stored, AtWork, Writing
  <2>2. Count(store[c], x) = 0
    BY <2>1, CountEmpty
  <2> QED
    BY <2>1, <2>2
<1> QED
  BY <1>1, <1>2, <1>3 DEF MetricInv, Genuine, JudgeInv, Judged, Caused

\* What was put into the map grows: so does what a window may hold, and a cause stays one.
LEMMA GenuineStays ==
  ASSUME MetricTyped, NEW c \in Channels, NEW s \in Seq(BOOLEAN), Genuine(s, c),
         \A x \in BOOLEAN : Stored(x, c)' \in Int /\ Stored(x, c) <= Stored(x, c)'
  PROVE  \A x \in BOOLEAN : Count(s, x) <= Stored(x, c)'
<1> SUFFICES ASSUME NEW x \in BOOLEAN PROVE Count(s, x) <= Stored(x, c)'
  OBVIOUS
<1>1. Stored(x, c) \in Int
  BY DEF MetricTyped, Consuming, Stored
<1>2. Count(s, x) <= Stored(x, c) /\ Count(s, x) \in Nat
  BY CountType DEF Genuine
<1> QED
  BY <1>1, <1>2

LEMMA CauseStays ==
  ASSUME MetricTyped, NEW c \in Channels,
         \A x \in BOOLEAN : taken'[x][c] \in Nat /\ taken[x][c] <= taken'[x][c]
  PROVE  (Cause(c) => Cause(c)') /\ (TornCause(c) => TornCause(c)')
<1>0. /\ taken[TRUE][c] \in Nat /\ taken'[TRUE][c] \in Nat /\ taken[TRUE][c] <= taken'[TRUE][c]
      /\ taken[FALSE][c] \in Nat /\ taken'[FALSE][c] \in Nat /\ taken[FALSE][c] <= taken'[FALSE][c]
  BY DEF MetricTyped, Consuming
<1>4. ASSUME TornCause(c) PROVE TornCause(c)'
  <2>1. PICK a \in Nat, b \in Nat, d \in Nat, e \in Nat :
          a = taken[TRUE][c] /\ b = taken[FALSE][c] /\ d = taken'[TRUE][c] /\ e = taken'[FALSE][c]
    BY <1>0, Zenon
  <2>2. a <= d /\ b <= e
    BY <1>0, <2>1, Zenon
  <2>3. a + b >= QueueSize /\ a > 0 /\ b > 0
    BY <1>4, <2>1, Zenon DEF TornCause
  <2>4. d + e >= QueueSize /\ d > 0 /\ e > 0
    BY <2>2, <2>3, MetricAssumption
  <2> QED
    BY <2>1, <2>4, Zenon DEF TornCause
<1> SUFFICES ASSUME Cause(c) PROVE Cause(c)'
  BY <1>4
<1>1. PICK good \in 0..taken[TRUE][c], bad \in 0..taken[FALSE][c] :
        /\ good + bad >= QueueSize
        /\ good * ThresholdDen < ThresholdNum * (good + bad)
  BY DEF Cause
<1>3. good \in 0..taken'[TRUE][c] /\ bad \in 0..taken'[FALSE][c]
  <2>1. good \in 0..taken[TRUE][c] /\ bad \in 0..taken[FALSE][c]
    OBVIOUS
  <2>2. ASSUME NEW a \in Nat, NEW d \in Nat, a <= d PROVE 0..a \subseteq 0..d
    BY <2>2
  <2>3. 0..taken[TRUE][c] \subseteq 0..taken'[TRUE][c] /\ 0..taken[FALSE][c] \subseteq 0..taken'[FALSE][c]
    BY <1>0, <2>2
  <2> QED
    BY <2>1, <2>3, Zenon
<1> QED
  BY <1>1, <1>3 DEF Cause

\* The invariant after a step, channel by channel.
LEMMA MetricFrom ==
  ASSUME MetricTyped',
         \A c \in Channels, x \in BOOLEAN : Count(store'[c], x) <= Stored(x, c)',
         \A b \in BOOLEAN, c \in Channels : item'[b] = c /\ consumerPc'[b] \in {"trim", "append"} =>
           \A x \in BOOLEAN : Count(slice'[b], x) <= Stored(x, c)'
  PROVE  MetricInv'
<1>1. \A b \in BOOLEAN : consumerPc'[b] # "idle" => item'[b] \in Channels
  BY DEF MetricTyped, Consuming
<1>2. ASSUME NEW c \in Channels PROVE Genuine(store[c], c)'
  BY DEF Genuine
<1>3. ASSUME NEW b \in BOOLEAN, consumerPc'[b] \in {"trim", "append"}
      PROVE  Genuine(slice[b], item[b])'
  <2>1. PICK c \in Channels : item'[b] = c
    BY <1>1, <1>3
  <2>2. \A x \in BOOLEAN : Count(slice'[b], x) <= Stored(x, c)'
    BY <1>3, <2>1
  <2> QED
    BY <2>1, <2>2 DEF Genuine, Stored, AtWork
<1> QED
  BY <1>2, <1>3 DEF MetricInv

\* A step that puts nothing into the map but what was there, and takes no outcome.
LEMMA MetricSame ==
  ASSUME MetricInv, MetricTyped', taken' = taken,
         \A x \in BOOLEAN, c \in Channels : AtWork(x, c)' <=> AtWork(x, c),
         \A c \in Channels : \/ store'[c] = store[c] \/ store'[c] = <<>>
                             \/ \E s \in Seq(BOOLEAN) : s # <<>> /\ Genuine(s, c) /\ store'[c] = Tail(s),
         \A b \in BOOLEAN : consumerPc'[b] \in {"trim", "append"} =>
            \/ consumerPc[b] \in {"trim", "append"} /\ slice'[b] = slice[b] /\ item'[b] = item[b]
            \/ slice'[b] = store[item'[b]]
  PROVE  MetricInv'
<1>1. ASSUME NEW x \in BOOLEAN, NEW c \in Channels
      PROVE  Stored(x, c)' = Stored(x, c) /\ Stored(x, c) \in Int
  <2>1. taken[x][c] \in Nat
    BY DEF MetricInv, MetricTyped, Consuming
  <2>2. Stored(x, c) \in Int
    BY <2>1 DEF Stored
  <2> QED
    BY <2>2 DEF Stored
<1>2. ASSUME NEW c \in Channels, NEW x \in BOOLEAN PROVE Count(store'[c], x) <= Stored(x, c)'
  <2>1. store[c] \in Seq(BOOLEAN) /\ Count(store[c], x) <= Stored(x, c)
        /\ Count(store[c], x) \in Nat
    BY CountType DEF MetricInv, MetricTyped, Consuming, Genuine
  <2>2. CASE store'[c] = store[c]
    BY <1>1, <2>1, <2>2
  <2>3. CASE store'[c] = <<>>
    <3>1. Count(<<>>, x) = 0
      BY CountEmpty
    <3> QED
      BY <1>1, <2>1, <2>3, <3>1
  <2>4. CASE \E s \in Seq(BOOLEAN) : s # <<>> /\ Genuine(s, c) /\ store'[c] = Tail(s)
    <3>1. PICK s \in Seq(BOOLEAN) : s # <<>> /\ Genuine(s, c) /\ store'[c] = Tail(s)
      BY <2>4
    <3>2. Count(s, x) <= Stored(x, c) /\ Count(s, x) \in Nat
      BY <3>1, CountType DEF Genuine
    <3>3. Tail(s) \in Seq(BOOLEAN) /\ Count(Tail(s), x) <= Count(s, x)
      BY <3>1, CountTail
    <3>4. Count(Tail(s), x) \in Nat
      BY <3>3, CountType
    <3> QED
      BY <1>1, <3>1, <3>2, <3>3, <3>4
  <2> QED
    BY <2>2, <2>3, <2>4
<1>3. ASSUME NEW b \in BOOLEAN, NEW c \in Channels, item'[b] = c, consumerPc'[b] \in {"trim", "append"}
      PROVE  \A x \in BOOLEAN : Count(slice'[b], x) <= Stored(x, c)'
  <2>1. Genuine(slice'[b], c)
    BY <1>3 DEF MetricInv
  <2> QED
    BY <1>1, <2>1 DEF Genuine
<1> QED
  BY <1>2, <1>3, MetricFrom DEF MetricInv

LEMMA RestTyped ==
  ASSUME MetricTyped, NEW b \in BOOLEAN, Rest(b), taken' = taken
  PROVE  /\ Consuming' /\ consumerPc'[b] = "idle"
         /\ \A x \in BOOLEAN : x # b => consumerPc'[x] = consumerPc[x] /\ item'[x] = item[x] /\ slice'[x] = slice[x]
<1>1. /\ consumerPc' = [consumerPc EXCEPT ![b] = "idle"] /\ item' = [item EXCEPT ![b] = NoChannel]
      /\ slice' = [slice EXCEPT ![b] = <<>>]
  BY DEF Rest
<1>2. <<>> \in Seq(BOOLEAN) /\ "idle" \in ConsumerSteps
  BY DEF ConsumerSteps
<1>3. \A x \in BOOLEAN : x # b => consumerPc'[x] = consumerPc[x] /\ item'[x] = item[x] /\ slice'[x] = slice[x]
  BY <1>1 DEF MetricTyped, Consuming
<1>4. consumerPc'[b] = "idle"
  BY <1>1 DEF MetricTyped, Consuming
<1>5. /\ consumerPc' \in [BOOLEAN -> ConsumerSteps]
      /\ item' \in [BOOLEAN -> Channels \cup {NoChannel}] /\ slice' \in [BOOLEAN -> Seq(BOOLEAN)]
  BY <1>1, <1>2 DEF MetricTyped, Consuming
<1> QED
  BY <1>3, <1>4, <1>5 DEF MetricTyped, Consuming

\* A consumer goes on with what it is at work on, perhaps with another slice.
LEMMA GoTyped ==
  ASSUME MetricTyped, NEW b \in BOOLEAN, consumerPc[b] # "idle", NEW step \in ConsumerSteps \ {"idle"},
         Goto(b, step), NEW s \in Seq(BOOLEAN), slice' = [slice EXCEPT ![b] = s], step = "trim" => s # <<>>,
         item' = item, taken' = taken
  PROVE  /\ Consuming' /\ consumerPc'[b] = step /\ slice'[b] = s
         /\ \A x \in BOOLEAN : x # b => consumerPc'[x] = consumerPc[x] /\ slice'[x] = slice[x]
<1>1. consumerPc' = [consumerPc EXCEPT ![b] = step]
  BY DEF Goto
<1>2. \A x \in BOOLEAN : x # b => consumerPc'[x] = consumerPc[x] /\ slice'[x] = slice[x]
  BY <1>1 DEF MetricTyped, Consuming
<1>3. consumerPc'[b] = step /\ slice'[b] = s
  BY <1>1 DEF MetricTyped, Consuming
<1>4. consumerPc' \in [BOOLEAN -> ConsumerSteps] /\ slice' \in [BOOLEAN -> Seq(BOOLEAN)]
  BY <1>1 DEF MetricTyped, Consuming
<1> QED
  BY <1>2, <1>3, <1>4 DEF MetricTyped, Consuming

LEMMA SliceStays ==
  ASSUME MetricTyped, NEW b \in BOOLEAN, slice' = slice
  PROVE  slice[b] \in Seq(BOOLEAN) /\ slice' = [slice EXCEPT ![b] = slice[b]]
  BY DEF MetricTyped, Consuming

LEMMA MetricTypes ==
  ASSUME MetricInv, [MetricNext]_metricVars PROVE MetricTyped'
<1>0. MetricTyped
  BY DEF MetricInv
<1> USE DEF Writing, ConsumerSteps
<1>1. ASSUME UNCHANGED <<store, consumers, buffer, taken, judging, disabled>> PROVE MetricTyped'
  BY <1>0, <1>1 DEF MetricTyped, Consuming, consumers, judging
<1>2. ASSUME UNCHANGED <<store, buffer, judging, disabled>>, Consuming' PROVE MetricTyped'
  BY <1>0, <1>2 DEF MetricTyped, judging
<1>3. ASSUME NEW c \in Channels, NEW b \in BOOLEAN, Send(c, b) PROVE MetricTyped'
  <2>1. /\ buffer' = [buffer EXCEPT ![b] = Append(@, c)]
        /\ UNCHANGED <<store, consumers, judging, taken, disabled>>
    BY <1>3 DEF Send
  <2>2. buffer' \in [BOOLEAN -> Seq(Channels)]
    BY <1>0, <2>1 DEF MetricTyped
  <2> QED
    BY <1>0, <2>1, <2>2 DEF MetricTyped, Consuming, consumers, judging
<1>4. ASSUME NEW b \in BOOLEAN, Take(b) PROVE MetricTyped'
  <2>1. PICK c : c = Head(buffer[b])
    OBVIOUS
  <2>2. c \in Channels /\ Tail(buffer[b]) \in Seq(Channels)
    BY <1>0, <1>4, <2>1 DEF MetricTyped, Take
  <2>3. /\ consumerPc[b] = "idle"
        /\ item' = [item EXCEPT ![b] = c] /\ buffer' = [buffer EXCEPT ![b] = Tail(@)]
        /\ taken' = [taken EXCEPT ![b][c] = @ + 1] /\ consumerPc' = [consumerPc EXCEPT ![b] = "trim_read"]
        /\ UNCHANGED <<store, slice, judging, disabled>>
    BY <1>4, <2>1 DEF Take, Goto
  <2>4. buffer' \in [BOOLEAN -> Seq(Channels)]
    BY <1>0, <2>2, <2>3 DEF MetricTyped
  <2>5. taken' \in [BOOLEAN -> [Channels -> Nat]] /\ taken'[b][c] > 0
        /\ \A x \in BOOLEAN, d \in Channels : x # b => taken'[x][d] = taken[x][d]
    <3>1. taken \in [BOOLEAN -> [Channels -> Nat]] /\ taken[b][c] \in Nat
      BY <1>0, <2>2 DEF MetricTyped, Consuming
    <3>2. taken'[b][c] = taken[b][c] + 1
      BY <2>2, <2>3, <3>1
    <3>3. taken' \in [BOOLEAN -> [Channels -> Nat]]
      BY <2>2, <2>3, <3>1
    <3>4. \A x \in BOOLEAN, d \in Channels : x # b => taken'[x][d] = taken[x][d]
      BY <2>3, <3>1
    <3> QED
      BY <3>1, <3>2, <3>3, <3>4
  <2>6. /\ consumerPc' \in [BOOLEAN -> ConsumerSteps] /\ item' \in [BOOLEAN -> Channels \cup {NoChannel}]
        /\ consumerPc'[b] = "trim_read" /\ item'[b] = c
        /\ \A x \in BOOLEAN : x # b => consumerPc'[x] = consumerPc[x] /\ item'[x] = item[x]
    BY <1>0, <2>2, <2>3 DEF MetricTyped, Consuming
  <2>7. Consuming'
    BY <1>0, <2>2, <2>3, <2>5, <2>6 DEF MetricTyped, Consuming
  <2> QED
    BY <1>0, <2>3, <2>4, <2>7 DEF MetricTyped, judging
<1>5. ASSUME NEW b \in BOOLEAN, TrimRead(b) PROVE MetricTyped'
  <2>1. PICK step \in {"slice_read", "append_read"} : Goto(b, step)
    BY <1>5 DEF TrimRead
  <2>2. consumerPc[b] # "idle" /\ UNCHANGED <<store, buffer, item, slice, judging, taken, disabled>>
    BY <1>5 DEF TrimRead
  <2>3. Consuming'
    BY <1>0, <2>1, <2>2, SliceStays, GoTyped
  <2> QED
    BY <1>2, <2>2, <2>3
<1>6. ASSUME NEW b \in BOOLEAN, SliceRead(b) PROVE MetricTyped'
  <2>1. store[item[b]] \in Seq(BOOLEAN) /\ consumerPc[b] # "idle"
        /\ UNCHANGED <<store, buffer, item, judging, taken, disabled>>
    BY <1>0, <1>6 DEF MetricTyped, Consuming, SliceRead
  <2>2. CASE store[item[b]] = <<>>
    BY <1>1, <1>6, <2>1, <2>2 DEF SliceRead, consumers
  <2>3. CASE store[item[b]] # <<>>
    <3>1. slice' = [slice EXCEPT ![b] = store[item[b]]] /\ Goto(b, "trim")
      BY <1>6, <2>3 DEF SliceRead
    <3>2. Consuming'
      BY <1>0, <2>1, <2>3, <3>1, GoTyped
    <3> QED
      BY <1>2, <2>1, <3>2
  <2> QED
    BY <2>2, <2>3
<1>7. ASSUME NEW b \in BOOLEAN, AppendRead(b) PROVE MetricTyped'
  <2>1. store[item[b]] \in Seq(BOOLEAN) /\ consumerPc[b] # "idle"
        /\ UNCHANGED <<store, buffer, item, judging, taken, disabled>>
    BY <1>0, <1>7 DEF MetricTyped, Consuming, AppendRead
  <2>2. slice' = [slice EXCEPT ![b] = store[item[b]]] /\ Goto(b, "append")
    BY <1>7 DEF AppendRead
  <2>3. "append" \in ConsumerSteps \ {"idle"} /\ "append" # "trim"
    OBVIOUS
  <2>4. Consuming'
    <3> HIDE DEF ConsumerSteps
    <3> QED
      BY <1>0, <2>1, <2>2, <2>3, GoTyped
  <2> QED
    BY <1>2, <2>1, <2>4
<1>8. ASSUME NEW b \in BOOLEAN, NEW s \in Seq(BOOLEAN), consumerPc[b] # "idle", Write(b, s), Consuming'
      PROVE  MetricTyped'
  <2>1. item[b] \in Channels
    BY <1>0, <1>8 DEF MetricTyped, Consuming
  <2>2. store' = [store EXCEPT ![item[b]] = s] /\ torn' = (torn \/ Disturbs(b))
        /\ UNCHANGED <<buffer, successCount, disabled>>
    BY <1>8 DEF Write
  <2>3. store' \in [Channels -> Seq(BOOLEAN)]
    BY <1>0, <2>1, <2>2 DEF MetricTyped
  <2>4. torn' \in BOOLEAN
    BY <2>2
  <2> QED
    BY <1>0, <1>8, <2>2, <2>3, <2>4 DEF MetricTyped
<1>9. ASSUME NEW b \in BOOLEAN, Trim(b) PROVE MetricTyped'
  <2>1. slice[b] \in Seq(BOOLEAN) /\ slice[b] # <<>> /\ consumerPc[b] # "idle"
    BY <1>0, <1>9 DEF MetricTyped, Consuming, Trim
  <2>2. PICK s : s = Tail(slice[b])
    OBVIOUS
  <2>3. s \in Seq(BOOLEAN)
    BY <2>1, <2>2, CountTail
  <2>4. Goto(b, "append_read") /\ item' = item /\ slice' = slice /\ taken' = taken /\ Write(b, s)
    BY <1>9, <2>2 DEF Trim, Write
  <2>5. Consuming'
    BY <1>0, <2>1, <2>4, SliceStays, GoTyped
  <2> QED
    BY <1>8, <2>1, <2>3, <2>4, <2>5
<1>10. ASSUME NEW b \in BOOLEAN, AppendOutcome(b) PROVE MetricTyped'
  <2>1. slice[b] \in Seq(BOOLEAN) /\ consumerPc[b] # "idle"
    BY <1>0, <1>10 DEF MetricTyped, Consuming, AppendOutcome
  <2>2. PICK s : s = Append(slice[b], b)
    OBVIOUS
  <2>3. s \in Seq(BOOLEAN)
    <3>1. \A t \in Seq(BOOLEAN) : Append(t, b) \in Seq(BOOLEAN)
      OBVIOUS
    <3> QED
      BY <2>1, <2>2, <3>1, Zenon
  <2>4. Write(b, s) /\ taken' = taken
    BY <1>10, <2>2 DEF AppendOutcome, Write
  <2>5. Rest(b) \/ (Goto(b, "count") /\ item' = item /\ slice' = slice)
    BY <1>10 DEF AppendOutcome
  <2>6. Consuming'
    BY <1>0, <2>1, <2>4, <2>5, RestTyped, SliceStays, GoTyped
  <2> QED
    BY <1>8, <2>1, <2>3, <2>4, <2>6
<1>11. ASSUME CountGood \/ RateRead PROVE MetricTyped'
  <2>1. PICK step \in {"rate", "judge"} : Goto(FALSE, step)
    BY <1>11 DEF CountGood, RateRead
  <2>2. consumerPc[FALSE] # "idle" /\ UNCHANGED <<store, buffer, item, slice, taken, disabled>>
    BY <1>11 DEF CountGood, RateRead
  <2>3. Consuming'
    BY <1>0, <2>1, <2>2, SliceStays, GoTyped
  <2>4. successCount' \in Nat /\ torn' \in BOOLEAN
    <3>1. store[item[FALSE]] \in Seq(BOOLEAN)
      BY <1>0, <2>2 DEF MetricTyped, Consuming
    <3>2. Count(store[item[FALSE]], TRUE) \in Nat
      BY <3>1, CountType
    <3>3. CASE CountGood
      BY <3>2, <3>3 DEF CountGood
    <3>4. CASE RateRead
      BY <1>0, <3>4 DEF RateRead, MetricTyped
    <3> QED
      BY <1>11, <3>3, <3>4
  <2> QED
    BY <1>0, <2>2, <2>3, <2>4 DEF MetricTyped
<1>12. ASSUME Judge PROVE MetricTyped'
  <2>1. consumerPc[FALSE] # "idle" /\ UNCHANGED <<store, buffer, judging, taken, disabled>>
    BY <1>12 DEF Judge
  <2>2. Rest(FALSE) \/ (Goto(FALSE, "reset") /\ item' = item /\ slice' = slice)
    BY <1>12 DEF Judge
  <2>3. CASE Rest(FALSE)
    BY <1>0, <1>2, <2>1, <2>3, RestTyped
  <2>4. CASE Goto(FALSE, "reset") /\ item' = item /\ slice' = slice
    <3>1. "reset" \in ConsumerSteps \ {"idle"} /\ "reset" # "trim"
      OBVIOUS
    <3>2. Consuming'
      <4> HIDE DEF ConsumerSteps
      <4>1. slice[FALSE] \in Seq(BOOLEAN) /\ slice' = [slice EXCEPT ![FALSE] = slice[FALSE]]
        BY <1>0, <2>4, SliceStays
      <4> QED
        BY <1>0, <2>1, <2>4, <3>1, <4>1, GoTyped
    <3> QED
      BY <1>2, <2>1, <3>2
  <2> QED
    BY <2>2, <2>3, <2>4
<1>13. ASSUME Reset PROVE MetricTyped'
  <2>1. item[FALSE] \in Channels
    BY <1>0, <1>13 DEF MetricTyped, Consuming, Reset
  <2>2. /\ store' = [store EXCEPT ![item[FALSE]] = <<>>] /\ Rest(FALSE) /\ UNCHANGED <<buffer, judging, taken>>
        /\ disabled' = [disabled EXCEPT ![item[FALSE]] = @ \cup {IF torn THEN "torn" ELSE "whole"}]
    BY <1>13 DEF Reset, Disable
  <2>3. store' \in [Channels -> Seq(BOOLEAN)]
    <3>1. <<>> \in Seq(BOOLEAN)
      OBVIOUS
    <3> QED
      BY <1>0, <2>1, <2>2, <3>1 DEF MetricTyped
  <2>4. disabled' \in [Channels -> SUBSET {"whole", "torn"}]
    BY <1>0, <2>1, <2>2 DEF MetricTyped
  <2>5. Consuming'
    BY <1>0, <2>2, RestTyped
  <2> QED
    BY <1>0, <2>2, <2>3, <2>4, <2>5 DEF MetricTyped, judging
<1>14. ASSUME NEW c \in Channels, NEW b \in BOOLEAN, Emit(c, b) PROVE MetricTyped'
  BY <1>1, <1>14 DEF Emit
<1>15. CASE Fatal \/ UNCHANGED metricVars
  BY <1>1, <1>15 DEF Fatal, metricVars
<1> QED
  BY <1>3, <1>4, <1>5, <1>6, <1>7, <1>9, <1>10, <1>11, <1>12, <1>13, <1>14, <1>15
     DEF MetricNext, Consume

\* The consumer of x takes an outcome of its kind for a channel: what was put into the
\* map is unchanged, since the consumer is now at work on it.
LEMMA TakeMetric ==
  ASSUME MetricInv, MetricTyped', NEW b \in BOOLEAN, Take(b) PROVE MetricInv'
<1>1. PICK d : d = Head(buffer[b])
  OBVIOUS
<1>2. d \in Channels
  BY <1>1 DEF Take, MetricInv, MetricTyped, Consuming
<1>3. /\ consumerPc[b] = "idle" /\ item' = [item EXCEPT ![b] = d]
      /\ taken' = [taken EXCEPT ![b][d] = @ + 1] /\ consumerPc' = [consumerPc EXCEPT ![b] = "trim_read"]
      /\ UNCHANGED <<store, slice, disabled>>
  BY <1>1 DEF Take, Goto
<1>4. MetricTyped
  BY DEF MetricInv
<1>5. /\ consumerPc'[b] = "trim_read" /\ item'[b] = d
      /\ \A x \in BOOLEAN : x # b => consumerPc'[x] = consumerPc[x] /\ item'[x] = item[x]
  BY <1>3, <1>4 DEF MetricTyped, Consuming
<1>6. /\ taken'[b][d] = taken[b][d] + 1
      /\ \A x \in BOOLEAN, c \in Channels : /\ taken[x][c] \in Nat /\ taken'[x][c] \in Nat
                                            /\ x # b \/ c # d => taken'[x][c] = taken[x][c]
  <2>1. \A x \in BOOLEAN : taken[x] \in [Channels -> Nat]
    BY <1>4 DEF MetricTyped, Consuming
  <2>2. taken'[b] = [taken[b] EXCEPT ![d] = @ + 1] /\ \A x \in BOOLEAN : x # b => taken'[x] = taken[x]
    BY <1>3, <1>4 DEF MetricTyped, Consuming
  <2>3. taken'[b][d] = taken[b][d] + 1 /\ \A c \in Channels : c # d => taken'[b][c] = taken[b][c]
    BY <1>2, <2>1, <2>2
  <2>4. taken[b][d] \in Nat /\ taken'[b][d] \in Nat
    BY <1>2, <2>1, <2>3
  <2> QED
    BY <1>2, <2>1, <2>2, <2>3, <2>4
<1>7. ASSUME NEW x \in BOOLEAN, NEW c \in Channels
      PROVE  Stored(x, c)' = Stored(x, c) /\ Stored(x, c) \in Int
  <2>1. Stored(x, c) \in Int
    BY <1>6 DEF Stored
  <2>2. CASE x = b
    <3>1. ~AtWork(x, c) /\ (AtWork(x, c)' <=> c = d)
      BY <1>3, <1>5, <2>2 DEF AtWork, Writing
    <3>2. CASE c = d
      <4>1. Stored(x, c)' = taken'[b][d] - 1 /\ Stored(x, c) = taken[b][d] - 0
        BY <2>2, <3>1, <3>2 DEF Stored
      <4> QED
        BY <1>2, <1>6, <2>1, <4>1
    <3>3. CASE c # d
      <4>1. Stored(x, c)' = taken'[x][c] - 0 /\ Stored(x, c) = taken[x][c] - 0
        BY <3>1, <3>3 DEF Stored
      <4> QED
        BY <1>6, <2>1, <3>3, <4>1
    <3> QED
      BY <3>2, <3>3
  <2>3. CASE x # b
    <3>1. (AtWork(x, c)' <=> AtWork(x, c)) /\ taken'[x][c] = taken[x][c]
      BY <1>5, <1>6, <2>3 DEF AtWork, Writing
    <3> QED
      BY <2>1, <3>1 DEF Stored
  <2> QED
    BY <2>2, <2>3
<1>9. ASSUME NEW c \in Channels, NEW x \in BOOLEAN PROVE Count(store'[c], x) <= Stored(x, c)'
  <2>1. Count(store[c], x) <= Stored(x, c)
    BY DEF MetricInv, Genuine
  <2> QED
    BY <1>3, <1>7, <2>1
<1>10. ASSUME NEW a \in BOOLEAN, NEW c \in Channels, item'[a] = c, consumerPc'[a] \in {"trim", "append"}
       PROVE  \A x \in BOOLEAN : Count(slice'[a], x) <= Stored(x, c)'
  <2>1. a # b /\ consumerPc[a] \in {"trim", "append"} /\ item[a] = c /\ slice'[a] = slice[a]
    BY <1>3, <1>5, <1>10
  <2>2. \A x \in BOOLEAN : Count(slice[a], x) <= Stored(x, c)
    BY <2>1 DEF MetricInv, Genuine
  <2> QED
    BY <1>7, <2>1, <2>2
<1> QED
  BY <1>9, <1>10, MetricFrom

\* The consumer of b puts its outcome into the map: the window it writes holds one more
\* of b, and so may every other.
LEMMA AppendMetric ==
  ASSUME MetricInv, MetricTyped', NEW b \in BOOLEAN, AppendOutcome(b) PROVE MetricInv'
<1>1. PICK d \in Channels : d = item[b]
  BY DEF MetricInv, MetricTyped, Consuming, AppendOutcome
<1>2. /\ consumerPc[b] = "append" /\ store' = [store EXCEPT ![d] = Append(slice[b], b)]
      /\ UNCHANGED <<taken, disabled>>
      /\ \/ Rest(b)
         \/ consumerPc' = [consumerPc EXCEPT ![b] = "count"] /\ UNCHANGED <<item, slice>>
  BY <1>1 DEF AppendOutcome, Goto, Write
<1>3. MetricTyped
  BY DEF MetricInv
<1>4. /\ consumerPc'[b] \in {"idle", "count"}
      /\ \A x \in BOOLEAN : x # b => consumerPc'[x] = consumerPc[x] /\ item'[x] = item[x] /\ slice'[x] = slice[x]
  BY <1>2, <1>3, RestTyped DEF MetricTyped, Consuming
<1>5. /\ slice[b] \in Seq(BOOLEAN) /\ \A x \in BOOLEAN : Count(slice[b], x) <= Stored(x, d)
      /\ \A c \in Channels : store[c] \in Seq(BOOLEAN) /\ \A x \in BOOLEAN : Count(store[c], x) <= Stored(x, c)
  BY <1>1, <1>2, <1>3 DEF MetricInv, Genuine, MetricTyped, Consuming
<1>6. \A x \in BOOLEAN, c \in Channels : Stored(x, c) \in Int /\ taken[x][c] \in Nat
  <2>1. ASSUME NEW x \in BOOLEAN, NEW c \in Channels PROVE taken[x][c] \in Nat
    BY <1>3 DEF MetricTyped, Consuming
  <2> QED
    BY <2>1 DEF Stored
<1>7. Stored(b, d)' = Stored(b, d) + 1
  <2>1. AtWork(b, d) /\ ~AtWork(b, d)'
    BY <1>1, <1>2, <1>4 DEF AtWork, Writing
  <2>2. Stored(b, d) = taken[b][d] - 1 /\ Stored(b, d)' = taken[b][d] - 0
    BY <1>2, <2>1 DEF Stored
  <2> QED
    BY <1>6, <2>2
<1>8. ASSUME NEW x \in BOOLEAN, NEW c \in Channels, x # b \/ c # d PROVE Stored(x, c)' = Stored(x, c)
  <2>1. AtWork(x, c)' <=> AtWork(x, c)
    BY <1>1, <1>4, <1>8 DEF AtWork, Writing
  <2> QED
    BY <1>2, <2>1 DEF Stored
<1>9. ASSUME NEW c \in Channels, NEW x \in BOOLEAN PROVE Stored(x, c)' \in Int /\ Stored(x, c) <= Stored(x, c)'
  <2>1. CASE x = b /\ c = d
    BY <1>6, <1>7, <2>1
  <2>2. CASE ~(x = b /\ c = d)
    BY <1>6, <1>8, <2>2
  <2> QED
    BY <2>1, <2>2
<1>10. ASSUME NEW c \in Channels, NEW x \in BOOLEAN PROVE Count(store'[c], x) <= Stored(x, c)'
  <2>1. CASE c = d
    <3>1. store'[c] = Append(slice[b], b)
      BY <1>2, <1>3, <2>1 DEF MetricTyped, Consuming
    <3>2. Count(store'[c], x) = Count(slice[b], x) + (IF x = b THEN 1 ELSE 0)
      BY <1>5, <3>1, CountAppend
    <3>3. Count(slice[b], x) \in Nat /\ Count(slice[b], x) <= Stored(x, d)
      BY <1>5, CountType
    <3>4. CASE x = b
      <4>1. Count(store'[c], x) = Count(slice[b], x) + 1
        BY <3>2, <3>4
      <4> QED
        BY <1>6, <1>7, <2>1, <3>3, <3>4, <4>1
    <3>5. CASE x # b
      <4>1. Count(store'[c], x) = Count(slice[b], x) + 0
        BY <3>2, <3>5
      <4> QED
        BY <1>6, <1>8, <2>1, <3>3, <3>5, <4>1
    <3> QED
      BY <3>4, <3>5
  <2>2. CASE c # d
    <3>1. store'[c] = store[c]
      BY <1>2, <1>3, <2>2 DEF MetricTyped, Consuming
    <3>2. Count(store[c], x) <= Stored(x, c) /\ Count(store[c], x) \in Nat
      BY <1>5, CountType
    <3> QED
      BY <1>6, <1>9, <3>1, <3>2
  <2> QED
    BY <2>1, <2>2
<1>11. ASSUME NEW a \in BOOLEAN, NEW c \in Channels, item'[a] = c, consumerPc'[a] \in {"trim", "append"}
       PROVE  \A x \in BOOLEAN : Count(slice'[a], x) <= Stored(x, c)'
  <2>1. a # b /\ consumerPc[a] \in {"trim", "append"} /\ item[a] = c /\ slice'[a] = slice[a]
    BY <1>4, <1>11
  <2>2. Genuine(slice[a], c) /\ slice[a] \in Seq(BOOLEAN)
    BY <1>3, <2>1 DEF MetricInv, MetricTyped, Consuming
  <2>3. \A x \in BOOLEAN : Stored(x, c)' \in Int /\ Stored(x, c) <= Stored(x, c)'
    BY <1>9
  <2> QED
    BY <1>3, <2>1, <2>2, <2>3, GenuineStays
<1> QED
  BY <1>10, <1>11, MetricFrom

\* The judged window, when it is full, was made up of outcomes that were taken, and
\* when it has too few successes it is the cause.
LEMMA JudgedCause ==
  ASSUME MetricInv, NEW c \in Channels, Len(store[c]) >= QueueSize
  PROVE  /\ taken[TRUE][c] + taken[FALSE][c] >= QueueSize
         /\ Count(store[c], TRUE) * ThresholdDen < ThresholdNum * Len(store[c]) => Cause(c)
<1> DEFINE good == Count(store[c], TRUE)
           bad == Count(store[c], FALSE)
<1>1. store[c] \in Seq(BOOLEAN)
  BY DEF MetricInv, MetricTyped, Consuming
<1>2. good \in Nat /\ bad \in Nat /\ good + bad = Len(store[c])
  BY <1>1, CountType, CountBoth
<1>3. ASSUME NEW x \in BOOLEAN PROVE taken[x][c] \in Nat /\ Count(store[c], x) \in 0..taken[x][c]
  <2>1. Count(store[c], x) \in Nat /\ Count(store[c], x) <= Stored(x, c)
    BY <1>1, CountType DEF MetricInv, Genuine
  <2>2. taken[x][c] \in Nat
    BY DEF MetricInv, MetricTyped, Consuming
  <2> QED
    BY <2>1, <2>2 DEF Stored
<1>4. good \in 0..taken[TRUE][c] /\ bad \in 0..taken[FALSE][c]
  BY <1>3
<1>5. taken[TRUE][c] \in Nat /\ taken[FALSE][c] \in Nat /\ QueueSize \in Nat
  BY <1>3, MetricAssumption
<1> HIDE DEF good, bad
<1>6. good + bad >= QueueSize
  BY <1>2
<1>7. taken[TRUE][c] + taken[FALSE][c] >= QueueSize
  <2>1. \A a, b \in Nat : \A g \in 0..a, h \in 0..b : g + h >= QueueSize => a + b >= QueueSize
    BY MetricAssumption
  <2> QED
    BY <1>4, <1>5, <1>6, <2>1
<1>8. good * ThresholdDen < ThresholdNum * Len(store[c]) => Cause(c)
  BY <1>2, <1>4, <1>6 DEF Cause
<1> QED
  BY <1>7, <1>8 DEF good

LEMMA MetricStep ==
  ASSUME MetricInv, [MetricNext]_metricVars PROVE MetricInv'
<1>0. MetricTyped /\ MetricTyped'
  BY MetricTypes DEF MetricInv
<1> USE DEF Writing
<1>1. ASSUME UNCHANGED <<store, consumerPc, item, slice, taken>> PROVE MetricInv'
  BY <1>0, <1>1, MetricSame DEF MetricInv, AtWork
<1>2. ASSUME NEW c \in Channels, NEW b \in BOOLEAN, Emit(c, b) \/ Send(c, b) PROVE MetricInv'
  BY <1>1, <1>2 DEF Emit, Send, consumers
<1>3. ASSUME NEW b \in BOOLEAN, TrimRead(b) \/ (SliceRead(b) /\ store[item[b]] # <<>>) \/ AppendRead(b)
      PROVE  MetricInv'
  <2>1. PICK next \in {"slice_read", "trim", "append_read", "append"} :
          /\ consumerPc[b] \in {"trim_read", "slice_read", "append_read"}
          /\ consumerPc' = [consumerPc EXCEPT ![b] = next]
          /\ \/ slice' = [slice EXCEPT ![b] = store[item[b]]]
             \/ slice' = slice /\ next \notin {"trim", "append"}
          /\ UNCHANGED <<store, item, taken>>
    BY <1>3 DEF TrimRead, SliceRead, AppendRead, Goto
  <2>2. /\ consumerPc'[b] = next /\ (slice'[b] = store[item[b]] \/ next \notin {"trim", "append"})
        /\ \A x \in BOOLEAN : x # b => consumerPc'[x] = consumerPc[x] /\ slice'[x] = slice[x]
    BY <1>0, <2>1 DEF MetricTyped, Consuming
  <2>3. \A x \in BOOLEAN, c \in Channels : AtWork(x, c)' <=> AtWork(x, c)
    BY <2>1, <2>2 DEF AtWork
  <2>4. \A x \in BOOLEAN : consumerPc'[x] \in {"trim", "append"} =>
            \/ consumerPc[x] \in {"trim", "append"} /\ slice'[x] = slice[x] /\ item'[x] = item[x]
            \/ slice'[x] = store[item'[x]]
    BY <2>1, <2>2
  <2> QED
    BY <1>0, <2>1, <2>3, <2>4, MetricSame DEF MetricInv
<1>4. ASSUME NEW b \in BOOLEAN, Trim(b) PROVE MetricInv'
  <2>1. PICK d \in Channels : d = item[b]
    BY <1>4 DEF MetricInv, MetricTyped, Consuming, Trim
  <2>2. /\ consumerPc[b] = "trim" /\ consumerPc' = [consumerPc EXCEPT ![b] = "append_read"]
        /\ store' = [store EXCEPT ![d] = Tail(slice[b])]
        /\ UNCHANGED <<item, slice, taken>>
    BY <1>4, <2>1 DEF Trim, Goto, Write
  <2>3. slice[b] \in Seq(BOOLEAN) /\ slice[b] # <<>> /\ Genuine(slice[b], d)
    BY <2>1, <2>2 DEF MetricInv, MetricTyped, Consuming
  <2>4. /\ consumerPc'[b] = "append_read"
        /\ \A x \in BOOLEAN : x # b => consumerPc'[x] = consumerPc[x]
    BY <1>0, <2>2 DEF MetricTyped, Consuming
  <2>5. \A c \in Channels : store'[c] = IF c = d THEN Tail(slice[b]) ELSE store[c]
    BY <1>0, <2>2 DEF MetricTyped, Consuming
  <2>6. \A x \in BOOLEAN, c \in Channels : AtWork(x, c)' <=> AtWork(x, c)
    BY <2>2, <2>4 DEF AtWork
  <2>7. \A c \in Channels : \/ store'[c] = store[c] \/ store'[c] = <<>>
                            \/ \E s \in Seq(BOOLEAN) : s # <<>> /\ Genuine(s, c) /\ store'[c] = Tail(s)
    BY <2>3, <2>5
  <2>8. \A x \in BOOLEAN : consumerPc'[x] \in {"trim", "append"} =>
            \/ consumerPc[x] \in {"trim", "append"} /\ slice'[x] = slice[x] /\ item'[x] = item[x]
            \/ slice'[x] = store[item'[x]]
    BY <2>2, <2>4
  <2> QED
    BY <1>0, <2>2, <2>6, <2>7, <2>8, MetricSame DEF MetricInv
<1>5. ASSUME consumerPc[FALSE] \notin Writing, consumerPc'[FALSE] \notin Writing, taken' = taken,
             Rest(FALSE) \/ (UNCHANGED <<item, slice>> /\ \E next \in ConsumerSteps : Goto(FALSE, next)),
             \A c \in Channels : store'[c] = store[c] \/ store'[c] = <<>>
      PROVE  MetricInv'
  <2>1. \A x \in BOOLEAN : x # FALSE => consumerPc'[x] = consumerPc[x] /\ slice'[x] = slice[x] /\ item'[x] = item[x]
    BY <1>0, <1>5, RestTyped DEF MetricTyped, Consuming, Goto
  <2>2. \A x \in BOOLEAN, c \in Channels : AtWork(x, c)' <=> AtWork(x, c)
    BY <1>5, <2>1 DEF AtWork
  <2>3. \A x \in BOOLEAN : consumerPc'[x] \in {"trim", "append"} =>
            \/ consumerPc[x] \in {"trim", "append"} /\ slice'[x] = slice[x] /\ item'[x] = item[x]
            \/ slice'[x] = store[item'[x]]
    BY <1>5, <2>1
  <2> QED
    BY <1>0, <1>5, <2>2, <2>3, MetricSame
<1>6. CASE CountGood \/ RateRead \/ Judge \/ Reset
  <2>1. consumerPc[FALSE] \notin Writing /\ taken' = taken
    BY <1>6 DEF CountGood, RateRead, Judge, Reset
  <2>2. Rest(FALSE) \/ \E next \in {"rate", "judge", "reset"} : UNCHANGED <<item, slice>> /\ Goto(FALSE, next)
    BY <1>6 DEF CountGood, RateRead, Judge, Reset
  <2>3. consumerPc'[FALSE] \notin Writing
    BY <1>0, <2>1, <2>2, RestTyped DEF MetricTyped, Consuming, Goto
  <2>4. \A c \in Channels : store'[c] = store[c] \/ store'[c] = <<>>
    BY <1>0, <1>6 DEF CountGood, RateRead, Judge, Reset, MetricTyped
  <2> QED
    BY <1>5, <2>1, <2>2, <2>3, <2>4 DEF ConsumerSteps
<1>7. ASSUME NEW b \in BOOLEAN, SliceRead(b), store[item[b]] = <<>> PROVE MetricInv'
  BY <1>1, <1>7 DEF SliceRead
<1>8. CASE Fatal \/ UNCHANGED metricVars
  BY <1>1, <1>8 DEF Fatal, metricVars, consumers
<1> QED
  BY <1>0, <1>2, <1>3, <1>4, <1>6, <1>7, <1>8, TakeMetric, AppendMetric
     DEF MetricNext, Consume

-----------------------------------------------------------------------------
(* The judgement of consumeFail. *)

Grows == \A x \in BOOLEAN, c \in Channels : taken'[x][c] \in Nat /\ taken[x][c] <= taken'[x][c]

LEMMA TakenGrows == ASSUME MetricTyped, [MetricNext]_metricVars PROVE Grows
<1>1. \A x \in BOOLEAN, c \in Channels : taken[x][c] \in Nat
  BY DEF MetricTyped, Consuming
<1>2. CASE taken' = taken
  BY <1>1, <1>2 DEF Grows
<1>3. ASSUME NEW b \in BOOLEAN, Take(b) PROVE Grows
  <2>1. PICK d : d = Head(buffer[b])
    OBVIOUS
  <2>2. d \in Channels /\ taken' = [taken EXCEPT ![b][d] = @ + 1]
    BY <1>3, <2>1 DEF Take, MetricTyped
  <2>3. /\ taken'[b][d] = taken[b][d] + 1
        /\ \A x \in BOOLEAN, c \in Channels : x # b \/ c # d => taken'[x][c] = taken[x][c]
    BY <2>2 DEF MetricTyped, Consuming
  <2>4. ASSUME NEW x \in BOOLEAN, NEW c \in Channels
        PROVE  taken'[x][c] \in Nat /\ taken[x][c] <= taken'[x][c]
    <3>1. CASE x = b /\ c = d
      BY <1>1, <2>3, <3>1
    <3>2. CASE ~(x = b /\ c = d)
      BY <1>1, <2>3, <3>2
    <3> QED
      BY <3>1, <3>2
  <2> QED
    BY <2>4 DEF Grows
<1> QED
  BY <1>2, <1>3 DEF MetricNext, Consume, Emit, Send, TrimRead, SliceRead, Trim, AppendRead, AppendOutcome,
     Write, CountGood, RateRead, Judge, Reset, Fatal, metricVars

LEMMA CausesStay ==
  ASSUME MetricTyped, Grows, NEW c \in Channels
  PROVE  (Cause(c) => Cause(c)') /\ (TornCause(c) => TornCause(c)')
  BY CauseStays DEF Grows

\* Another step than those of the judgement.
LEMMA JudgeKept ==
  ASSUME MetricTyped, JudgeInv, Grows, disabled' = disabled, consumerPc'[FALSE] = consumerPc[FALSE],
         item'[FALSE] = item[FALSE], UNCHANGED <<successCount, low>>,
         \/ /\ torn' = torn
            /\ \A c \in Channels : item[FALSE] = c /\ ~torn /\ consumerPc[FALSE] \in {"rate", "judge"} =>
                 store'[c] = store[c]
         \/ /\ torn' = TRUE /\ consumerPc[FALSE] \in {"rate", "judge"}
            /\ \A c \in Channels : item[FALSE] = c => taken[TRUE][c] > 0
  PROVE  JudgeInv'
<1> SUFFICES ASSUME NEW c \in Channels PROVE Caused(c)' /\ (item'[FALSE] = c => Judged(c)')
  BY DEF JudgeInv
<1>1. Caused(c) /\ (item[FALSE] = c => Judged(c))
  BY DEF JudgeInv
<1>2. (Cause(c) => Cause(c)') /\ (TornCause(c) => TornCause(c)')
  BY CausesStay
<1>3. Caused(c)'
  BY <1>1, <1>2 DEF Caused
<1>4. ASSUME NEW x \in BOOLEAN, taken[x][c] > 0 PROVE taken'[x][c] > 0
  <2>1. taken[x][c] \in Nat /\ taken'[x][c] \in Nat /\ taken[x][c] <= taken'[x][c]
    BY DEF Grows, MetricTyped, Consuming
  <2> QED
    BY <1>4, <2>1
<1>5. ASSUME item'[FALSE] = c PROVE Judged(c)'
  <2>1. Judged(c)
    BY <1>1, <1>5
  <2>2. consumerPc'[FALSE] \in {"rate", "judge"} /\ torn' => taken'[TRUE][c] > 0
    BY <1>4, <1>5, <2>1 DEF Judged
  <2>3. ASSUME consumerPc'[FALSE] \in {"rate", "judge"}, ~torn' PROVE ~torn /\ store'[c] = store[c]
    <3>1. torn' = torn
      BY <2>3, Zenon
    <3>2. ~torn
      BY <2>3, <3>1, Zenon
    <3>3. item[FALSE] = c /\ consumerPc[FALSE] \in {"rate", "judge"}
      BY <1>5, <2>3
    <3>4. store'[c] = store[c]
      BY <2>3, <3>2, <3>3, Zenon
    <3> QED
      BY <3>2, <3>4
  <2>4. consumerPc'[FALSE] = "rate" /\ ~torn' => successCount' = Count(store'[c], TRUE)
    BY <2>1, <2>3 DEF Judged
  <2>5. consumerPc'[FALSE] = "judge" /\ ~torn' /\ low' =>
          Count(store'[c], TRUE) * ThresholdDen < ThresholdNum * Len(store'[c])
    BY <2>1, <2>3 DEF Judged
  <2>6. consumerPc'[FALSE] = "reset" => IF torn' THEN TornCause(c)' ELSE Cause(c)'
    BY <1>2, <1>5, <2>1 DEF Judged
  <2> QED
    BY <2>2, <2>4, <2>5, <2>6 DEF Judged
<1> QED
  BY <1>3, <1>5

\* consumeFail is not at a judgement.
LEMMA JudgeLeft ==
  ASSUME MetricTyped, JudgeInv, Grows, disabled' = disabled, consumerPc'[FALSE] \notin {"rate", "judge", "reset"}
  PROVE  JudgeInv'
<1> SUFFICES ASSUME NEW c \in Channels PROVE Caused(c)' /\ (item'[FALSE] = c => Judged(c)')
  BY DEF JudgeInv
<1>1. Caused(c)'
  BY CausesStay DEF JudgeInv, Caused
<1> QED
  BY <1>1 DEF Judged

LEMMA JudgeStep ==
  ASSUME MetricInv, JudgeInv, [MetricNext]_metricVars PROVE JudgeInv'
<1>0. MetricTyped /\ Grows /\ MetricTyped'
  BY MetricTypes, TakenGrows DEF MetricInv
<1>1. ASSUME UNCHANGED <<store, consumerPc, item, judging, disabled>> PROVE JudgeInv'
  BY <1>0, <1>1, JudgeKept DEF judging
<1>2. ASSUME NEW c \in Channels, NEW b \in BOOLEAN, Emit(c, b) \/ Send(c, b) PROVE JudgeInv'
  BY <1>1, <1>2 DEF Emit, Send, consumers
<1>3. ASSUME Take(TRUE) \/ TrimRead(TRUE) \/ SliceRead(TRUE) \/ AppendRead(TRUE) PROVE JudgeInv'
  <2>1. UNCHANGED <<store, judging, disabled>>
    BY <1>3 DEF Take, TrimRead, SliceRead, AppendRead
  <2>2. consumerPc'[FALSE] = consumerPc[FALSE] /\ item'[FALSE] = item[FALSE]
    BY <1>0, <1>3 DEF Take, TrimRead, SliceRead, AppendRead, Goto, MetricTyped, Consuming
  <2> QED
    BY <1>0, <2>1, <2>2, JudgeKept DEF judging
<1>4. ASSUME Trim(TRUE) \/ AppendOutcome(TRUE) PROVE JudgeInv'
  <2>1. PICK s : Write(TRUE, s)
    BY <1>4 DEF Trim, AppendOutcome
  <2>2. PICK d \in Channels : d = item[TRUE] /\ taken[TRUE][d] > 0
    BY <1>0, <1>4 DEF Trim, AppendOutcome, MetricTyped, Consuming
  <2>3. consumerPc'[FALSE] = consumerPc[FALSE] /\ item'[FALSE] = item[FALSE]
    BY <1>0, <1>4, RestTyped DEF Trim, AppendOutcome, Write, Goto, MetricTyped, Consuming
  <2>4. /\ store' = [store EXCEPT ![d] = s] /\ UNCHANGED <<successCount, low, disabled>>
        /\ torn' = (torn \/ (consumerPc[FALSE] \in {"rate", "judge"} /\ item[FALSE] = d))
    BY <2>1, <2>2 DEF Write, Disturbs
  <2>5. CASE consumerPc[FALSE] \in {"rate", "judge"} /\ item[FALSE] = d
    BY <1>0, <2>2, <2>3, <2>4, <2>5, JudgeKept
  <2>6. CASE ~(consumerPc[FALSE] \in {"rate", "judge"} /\ item[FALSE] = d)
    <3>1. torn' = torn
      BY <1>0, <2>4, <2>6 DEF MetricTyped
    <3>2. \A c \in Channels : item[FALSE] = c /\ consumerPc[FALSE] \in {"rate", "judge"} => store'[c] = store[c]
      BY <1>0, <2>2, <2>4, <2>6 DEF MetricTyped
    <3> QED
      BY <1>0, <2>3, <2>4, <3>1, <3>2, JudgeKept
  <2> QED
    BY <2>5, <2>6
<1>5. ASSUME \/ Take(FALSE) \/ TrimRead(FALSE) \/ SliceRead(FALSE) \/ Trim(FALSE) \/ AppendRead(FALSE)
             \/ AppendOutcome(FALSE)
      PROVE  JudgeInv'
  <2>1. disabled' = disabled
    BY <1>5 DEF Take, TrimRead, SliceRead, Trim, AppendRead, AppendOutcome, Write
  <2>2. \/ \E step \in {"trim_read", "slice_read", "append_read", "trim", "append", "count"} : Goto(FALSE, step)
        \/ consumerPc'[FALSE] = "slice_read"
    BY <1>5 DEF Take, TrimRead, SliceRead, Trim, AppendRead, AppendOutcome
  <2>3. consumerPc'[FALSE] \notin {"rate", "judge", "reset"}
    BY <1>0, <2>2 DEF MetricTyped, Consuming, Goto
  <2> QED
    BY <1>0, <2>1, <2>3, JudgeLeft
<1>6. ASSUME NEW step \in {"rate", "judge", "reset"}, Goto(FALSE, step), UNCHANGED <<store, item, taken, disabled>>,
             \A c \in Channels : item[FALSE] = c => Judged(c)'
      PROVE  JudgeInv'
  <2>1. \A c \in Channels : Caused(c)'
    BY <1>6 DEF JudgeInv, Caused, Cause, TornCause
  <2> QED
    BY <1>6, <2>1 DEF JudgeInv
<1>7. ASSUME CountGood PROVE JudgeInv'
  <2>1. consumerPc'[FALSE] = "rate" /\ torn' = FALSE /\ store' = store
    BY <1>0, <1>7 DEF CountGood, Goto, MetricTyped, Consuming
  <2>2. \A c \in Channels : item[FALSE] = c => successCount' = Count(store'[c], TRUE)
    BY <1>7, <2>1 DEF CountGood
  <2>3. \A c \in Channels : item[FALSE] = c => Judged(c)'
    BY <2>1, <2>2 DEF Judged
  <2> QED
    BY <1>6, <1>7, <2>3 DEF CountGood
<1>8. ASSUME RateRead PROVE JudgeInv'
  <2>1. /\ consumerPc[FALSE] = "rate" /\ consumerPc'[FALSE] = "judge" /\ UNCHANGED <<store, torn, taken>>
        /\ low' = (successCount * ThresholdDen < ThresholdNum * Len(store[item[FALSE]]))
    BY <1>0, <1>8 DEF RateRead, Goto, MetricTyped, Consuming
  <2>2. ASSUME NEW c \in Channels, item[FALSE] = c PROVE Judged(c)'
    <3>1. Judged(c)
      BY <2>2 DEF JudgeInv
    <3>2. ~torn => successCount = Count(store[c], TRUE)
      BY <2>1, <3>1 DEF Judged
    <3>3. ~torn /\ low' => Count(store'[c], TRUE) * ThresholdDen < ThresholdNum * Len(store'[c])
      BY <2>1, <2>2, <3>2
    <3>4. torn => taken'[TRUE][c] > 0
      BY <2>1, <3>1 DEF Judged
    <3> QED
      BY <2>1, <3>3, <3>4 DEF Judged
  <2> QED
    BY <1>6, <1>8, <2>2 DEF RateRead
<1>9. ASSUME Judge PROVE JudgeInv'
  <2>1. PICK d \in Channels : d = item[FALSE]
    BY <1>0, <1>9 DEF Judge, MetricTyped, Consuming
  <2>2. CASE Len(store[d]) >= QueueSize /\ low
    <3>1. /\ consumerPc[FALSE] = "judge" /\ Goto(FALSE, "reset")
          /\ UNCHANGED <<store, item, taken, torn, disabled>>
      BY <1>9, <2>1, <2>2 DEF Judge, judging
    <3>2. consumerPc'[FALSE] = "reset"
      BY <1>0, <3>1 DEF Goto, MetricTyped, Consuming
    <3>3. Judged(d)
      BY <2>1 DEF JudgeInv
    <3>4. /\ taken[TRUE][d] + taken[FALSE][d] >= QueueSize
          /\ Count(store[d], TRUE) * ThresholdDen < ThresholdNum * Len(store[d]) => Cause(d)
      BY <2>2, JudgedCause
    <3>5. taken[FALSE][d] > 0
      BY <1>0, <2>1, <3>1 DEF MetricTyped, Consuming
    <3>6. IF torn THEN TornCause(d) ELSE Cause(d)
      BY <2>2, <3>1, <3>3, <3>4, <3>5 DEF Judged, TornCause
    <3>7. Judged(d)'
      BY <3>1, <3>2, <3>6 DEF Judged, Cause, TornCause
    <3> QED
      BY <1>6, <2>1, <3>1, <3>7
  <2>3. CASE ~(Len(store[d]) >= QueueSize /\ low)
    <3>1. Rest(FALSE) /\ disabled' = disabled /\ taken' = taken
      BY <1>9, <2>1, <2>3 DEF Judge
    <3>2. consumerPc'[FALSE] = "idle"
      BY <1>0, <3>1, RestTyped
    <3> QED
      BY <1>0, <3>1, <3>2, JudgeLeft
  <2> QED
    BY <2>2, <2>3
<1>10. ASSUME Reset PROVE JudgeInv'
  <2>1. PICK d \in Channels : d = item[FALSE]
    BY <1>0, <1>10 DEF Reset, MetricTyped, Consuming
  <2>2. /\ consumerPc[FALSE] = "reset" /\ Rest(FALSE) /\ taken' = taken
        /\ disabled' = [disabled EXCEPT ![d] = @ \cup {IF torn THEN "torn" ELSE "whole"}]
    BY <1>10, <2>1 DEF Reset, Disable
  <2>3. consumerPc'[FALSE] = "idle"
    BY <1>0, <2>2, RestTyped
  <2>4. IF torn THEN TornCause(d) ELSE Cause(d)
    BY <2>1, <2>2 DEF JudgeInv, Judged
  <2>5. ASSUME NEW c \in Channels PROVE Caused(c)'
    <3>1. disabled'[c] = IF c = d THEN disabled[c] \cup {IF torn THEN "torn" ELSE "whole"} ELSE disabled[c]
      BY <1>0, <2>2 DEF MetricTyped
    <3>2. Caused(c)
      BY DEF JudgeInv
    <3>3. ("whole" \in disabled'[c] => Cause(c)) /\ ("torn" \in disabled'[c] => TornCause(c))
      BY <2>4, <3>1, <3>2 DEF Caused
    <3> QED
      BY <2>2, <3>3 DEF Caused, Cause, TornCause
  <2> QED
    BY <2>3, <2>5 DEF JudgeInv, Judged
<1>11. CASE Fatal \/ UNCHANGED metricVars
  BY <1>1, <1>11 DEF Fatal, metricVars, consumers
<1> QED
  BY <1>2, <1>3, <1>4, <1>5, <1>7, <1>8, <1>9, <1>10, <1>11 DEF MetricNext, Consume

\* consumeFail disables a channel only after QueueSize outcomes of its own, too few of
\* them successes, were taken, for any channels, sizes and threshold, although the two
\* consumers overwrite each other's windows; when the success consumer wrote the window
\* between the reads of the judgement, only the number of the outcomes and that they
\* were of both kinds is sure.
THEOREM MetricCause == MetricSpec => []DisabledForCause
<1>1. MetricInit => MetricInv /\ JudgeInv
  BY InitMetric
<1>2. MetricInv /\ JudgeInv /\ [MetricNext]_metricVars => MetricInv' /\ JudgeInv'
  BY MetricStep, JudgeStep
<1>3. JudgeInv => DisabledForCause
  BY DEF JudgeInv, Caused, Cause, TornCause, DisabledForCause
<1> QED
  BY <1>1, <1>2, <1>3, PTL DEF MetricSpec

-----------------------------------------------------------------------------
(* The way of one request: draws, attempts and reports (RelayRetry).        *)

\* What the goroutine that reports attempt n was given.
Told(n) == <<n, tries[n].ch, tries[n].st>>
Said(n) == {r \in reports : r[1] = n}

\* Each failed attempt either waits to be reported, or was, once.
Once(n) ==
  \/ Told(n) \in failing /\ Said(n) = {}
  \/ Told(n) \notin failing /\ \E v \in {"disable", "failure"} : Said(n) = {<<n, tries[n].ch, v>>}

Attempt == [ch : Channels \cup {NoChannel}, prompt : Channels \cup {NoChannel}, st : Nat,
            served : BOOLEAN, wrote : BOOLEAN, charged : BOOLEAN]
RetryTyped ==
  /\ memoryCache \in CacheModes /\ priority \in Priorities /\ mode \in Modes
  /\ serving \in SUBSET Channels /\ named \in Channels \cup {NoChannel}
  /\ channel \in Channels \cup {NoChannel} /\ prompt \in Channels \cup {NoChannel}
  /\ tries \in Seq(Attempt)
RetryInv ==
  /\ RetryTyped
  /\ \A f \in failing : \E n \in DOMAIN tries : tries[n].st # 0 /\ f = Told(n)
  /\ \A r \in reports : \E n \in DOMAIN tries, v \in {"disable", "failure", "success"} :
       r = <<n, tries[n].ch, v>> /\ (v = "success" <=> tries[n].st = 0)
  /\ \A n \in DOMAIN tries : tries[n].st # 0 => Once(n)

-----------------------------------------------------------------------------
(* The sorted list of channels. *)

\* A set of naturals has a least element.
LEMMA Least ==
  ASSUME NEW T \in SUBSET Nat, T # {}
  PROVE  \E x \in T : \A y \in T : x <= y
<1>1. IsWellFoundedOn(OpToRel(<, Nat), Nat)
  BY NatLessThanWellFounded
<1> DEFINE R == OpToRel(<, Nat)
<1>2. \A x, y \in Nat : y < x => <<y, x>> \in R
  BY DEF OpToRel
<1> HIDE DEF R
<1>3. PICK x \in T : \A y \in T : ~ (<<y, x>> \in R)
  BY <1>1, WFMin DEF R
<1>4. \A y \in T : ~ (y < x)
  BY <1>2, <1>3
<1> QED
  BY <1>3, <1>4

\* A set of naturals with 0 and the successor of each of its elements is all of them.
LEMMA Naturals ==
  ASSUME NEW P \in SUBSET Nat, 0 \in P, \A n \in P : n + 1 \in P
  PROVE  P = Nat
<1> SUFFICES ASSUME Nat \ P # {} PROVE FALSE
  OBVIOUS
<1>1. PICK x \in Nat \ P : \A y \in Nat \ P : x <= y
  BY Least
<1>2. x # 0 /\ x - 1 \in Nat /\ ~ (x <= x - 1) /\ (x - 1) + 1 = x
  BY <1>1
<1>3. x - 1 \in P
  BY <1>1, <1>2
<1> QED
  BY <1>1, <1>2, <1>3

\* A finite set of channels has one of the lowest priority, and can be listed by priority.
Listed(s, C) == s \in [1..Cardinality(C) -> C] /\ Sorted(s, C)
LEMMA ListExists ==
  ASSUME NEW C, IsFiniteSet(C), priority \in [Channels -> Int], C \subseteq Channels
  PROVE  \E s : Listed(s, C)
<1> DEFINE
      Lowest(S, c) == \A d \in S : priority[c] <= priority[d]
      P == {n \in Nat : \A S \in SUBSET C : Cardinality(S) = n =>
              /\ S # {} => \E c \in S : Lowest(S, c)
              /\ \E s : Listed(s, S)}
<1>1. \A S \in SUBSET C : IsFiniteSet(S) /\ Cardinality(S) \in Nat /\ (Cardinality(S) = 0 <=> S = {})
  BY FS_Subset, FS_CardinalityType, FS_EmptySet
<1>2. 0 \in P
  <2>1. ASSUME NEW S \in SUBSET C, Cardinality(S) = 0 PROVE S = {} /\ \E s : Listed(s, S)
    <3>1. S = {}
      BY <1>1, <2>1
    <3> DEFINE e == [k \in 1..0 |-> 0]
    <3>2. e \in [1..Cardinality(S) -> S] /\ DOMAIN e = {}
      BY <2>1
    <3>3. Sorted(e, S)
      BY <3>1, <3>2, Zenon DEF Sorted
    <3> QED
      BY <3>1, <3>2, <3>3 DEF Listed
  <2> QED
    BY <2>1
<1>3. ASSUME NEW n \in P PROVE n + 1 \in P
  <2>1. n \in Nat /\ n + 1 \in Nat /\ n + 1 # 0
    OBVIOUS
  <2>2. ASSUME NEW S \in SUBSET C, Cardinality(S) = n + 1, S # {} PROVE \E c \in S : Lowest(S, c)
    <3>1. PICK x \in S : TRUE
      BY <2>2
    <3> DEFINE T == S \ {x}
    <3>2. T \in SUBSET C /\ Cardinality(T) = n
      BY <1>1, <2>1, <2>2, <3>1, FS_RemoveElement
    <3>3. \A c, d \in S : priority[c] \in Int /\ (priority[c] <= priority[d] \/ priority[d] <= priority[c])
      BY <2>2
    <3>4. CASE T = {}
      BY <3>1, <3>3, <3>4
    <3>5. CASE T # {}
      <4>1. PICK c \in T : Lowest(T, c)
        BY <3>2, <3>5
      <4>2. CASE priority[c] <= priority[x]
        BY <4>1, <4>2
      <4>3. CASE priority[x] <= priority[c]
        BY <3>1, <3>3, <4>1, <4>3
      <4> QED
        BY <3>1, <3>3, <4>1, <4>2, <4>3
    <3> QED
      BY <3>4, <3>5
  <2>3. ASSUME NEW S \in SUBSET C, Cardinality(S) = n + 1 PROVE \E s : Listed(s, S)
    <3>1. S # {}
      BY <1>1, <2>1, <2>3
    <3>2. PICK c \in S : Lowest(S, c)
      BY <2>2, <2>3, <3>1
    <3> DEFINE T == S \ {c}
    <3>3. T \in SUBSET C /\ Cardinality(T) = n
      <4>1. IsFiniteSet(S) /\ c \in S
        BY <1>1
      <4>2. Cardinality(T) = Cardinality(S) - 1
        BY <4>1, FS_RemoveElement
      <4> QED
        BY <2>1, <2>3, <4>2
    <3>4. PICK t : Listed(t, T)
      BY <3>3
    <3> DEFINE s == [k \in 1..n + 1 |-> IF k = n + 1 THEN c ELSE t[k]]
    <3>5. t \in [1..n -> T] /\ DOMAIN t = 1..n /\ {t[k] : k \in 1..n} = T
          /\ \A j, k \in 1..n : j < k => priority[t[j]] >= priority[t[k]]
      BY <3>3, <3>4 DEF Listed, Sorted
    <3>6. s \in [1..n + 1 -> S] /\ DOMAIN s = 1..n + 1
      BY <2>1, <3>2, <3>5
    <3>7. s[n + 1] = c /\ \A k \in 1..n : s[k] = t[k]
      BY <2>1
    <3> HIDE DEF s
    <3>8. {s[k] : k \in 1..n + 1} = S
      <4>1. \A d \in S : \E k \in 1..n + 1 : s[k] = d
        <5> SUFFICES ASSUME NEW d \in S PROVE \E k \in 1..n + 1 : s[k] = d
          OBVIOUS
        <5>1. CASE d = c
          BY <2>1, <3>7, <5>1
        <5>2. CASE d # c
          <6>1. PICK k \in 1..n : t[k] = d
            BY <3>5, <5>2
          <6> QED
            BY <2>1, <3>7, <6>1
        <5> QED
          BY <5>1, <5>2
      <4>2. \A k \in 1..n + 1 : s[k] \in S
        BY <3>6
      <4> QED
        BY <4>1, <4>2
    <3>9. ASSUME NEW j \in 1..n + 1, NEW k \in 1..n + 1, j < k PROVE priority[s[j]] >= priority[s[k]]
      <4>1. j \in 1..n
        BY <2>1, <3>9
      <4>2. CASE k = n + 1
        <5>1. s[j] \in S /\ s[k] = c /\ priority[c] <= priority[s[j]]
          BY <3>2, <3>6, <3>7, <4>2
        <5>2. priority[c] \in Int /\ priority[s[j]] \in Int
          BY <5>1
        <5> QED
          BY <5>1, <5>2
      <4>3. CASE k # n + 1
        BY <2>1, <3>5, <3>7, <3>9, <4>1, <4>3
      <4> QED
        BY <4>2, <4>3
    <3>10. Sorted(s, S)
      BY <3>6, <3>8, <3>9 DEF Sorted
    <3> QED
      BY <2>3, <3>6, <3>10 DEF Listed
  <2> QED
    BY <2>1, <2>2, <2>3
<1>4. P = Nat
  <2> HIDE DEF P
  <2>1. P \in SUBSET Nat
    BY DEF P
  <2> QED
    BY <1>2, <1>3, <2>1, Naturals
<1> QED
  BY <1>1, <1>4

-----------------------------------------------------------------------------
(* What the cache and the query draw from. *)

\* n splits the list s of C: what the first n share is the highest priority, if positive.
Split(s, n, C) ==
  /\ Len(s) = Cardinality(C) /\ n \in 1..Len(s) /\ s \in [1..Len(s) -> C]
  /\ {s[k] : k \in 1..Len(s)} = C
  /\ (\E c \in C : priority[c] > 0) =>
       /\ {s[k] : k \in 1..n} = First(C)
       /\ {s[k] : k \in n + 1..Len(s)} \cap First(C) = {}

\* The scan of the list ends after the channels of the highest priority.
LEMMA EndOfFirst ==
  ASSUME NEW C \in SUBSET Channels, C # {}, IsFiniteSet(C), priority \in [Channels -> Int],
         NEW s, Listed(s, C), NEW n, n = endIdx(s)
  PROVE  Split(s, n, C)
<1> DEFINE
      m == Cardinality(C)
      first == priority[s[1]]
      others == {k \in 1..m : priority[s[k]] # first}
<1>1. m \in Nat /\ m # 0
  BY FS_CardinalityType, FS_EmptySet
<1>2. s \in [1..m -> C] /\ DOMAIN s = 1..m
  BY DEF Listed
<1>3. Len(s) = m
  <2>1. s \in Seq(C)
    BY <1>1, <1>2
  <2>2. Len(s) \in Nat /\ DOMAIN s = 1..Len(s)
    BY <2>1
  <2> QED
    BY <1>1, <1>2, <2>2
<1>4. {s[k] : k \in 1..m} = C /\ \A j, k \in 1..m : j < k => priority[s[j]] >= priority[s[k]]
  BY <1>2 DEF Listed, Sorted
<1> HIDE DEF m
<1>5. \A k \in 1..m : s[k] \in C /\ priority[s[k]] \in Int
  BY <1>2
<1>6. 1 \in 1..m /\ first \in Int /\ \A k \in 1..m : priority[s[k]] <= first
  <2>1. 1 \in 1..m
    BY <1>1
  <2>2. ASSUME NEW k \in 1..m PROVE priority[s[k]] <= first
    <3>1. CASE k = 1
      BY <1>5, <3>1
    <3>2. CASE k # 1
      BY <1>4, <1>5, <2>1, <3>2
    <3> QED
      BY <3>1, <3>2
  <2> QED
    BY <1>5, <2>1, <2>2
<1>7. First(C) = {c \in C : priority[c] = first}
  <2>1. \A c \in C : \E k \in 1..m : c = s[k]
    BY <1>4
  <2>2. \A c \in C : priority[c] <= first /\ priority[c] \in Int
    BY <1>6, <2>1
  <2>3. s[1] \in C
    BY <1>5, <1>6
  <2>4. ASSUME NEW c \in C PROVE (\A d \in C : priority[d] <= priority[c]) <=> priority[c] = first
    BY <1>6, <2>2, <2>3
  <2> QED
    BY <2>4 DEF First
<1>8. ASSUME NEW c \in C, priority[c] > 0 PROVE first > 0
  <2>1. PICK k \in 1..m : c = s[k]
    BY <1>4
  <2>2. priority[s[k]] <= first
    BY <1>6
  <2>3. priority[s[k]] > 0 /\ priority[s[k]] \in Int
    BY <1>5, <1>8, <2>1
  <2> QED
    BY <1>6, <2>2, <2>3
<1>9. n = IF first > 0 /\ others # {} THEN (CHOOSE k \in others : \A j \in others : k <= j) - 1 ELSE m
  BY <1>3 DEF endIdx
<1>10. CASE ~ (first > 0 /\ others # {})
  <2>1. n = m
    BY <1>9, <1>10
  <2>2. first > 0 => {s[k] : k \in 1..m} = First(C)
    <3> SUFFICES ASSUME first > 0 PROVE {s[k] : k \in 1..m} = First(C)
      OBVIOUS
    <3>1. \A k \in 1..m : priority[s[k]] = first
      BY <1>10
    <3>2. \A c \in C : priority[c] = first
      BY <1>4, <3>1
    <3> QED
      BY <1>4, <1>7, <3>2
  <2>3. m + 1..m = {}
    BY <1>1
  <2>4. n \in 1..m
    BY <1>1, <2>1
  <2> QED
    BY <1>2, <1>3, <1>4, <1>8, <2>1, <2>2, <2>3, <2>4 DEF m, Split
<1>11. CASE first > 0 /\ others # {}
  <2>1. PICK l \in others : \A j \in others : l <= j
    <3>1. others \in SUBSET Nat
      BY <1>1
    <3> QED
      BY <1>11, <3>1, Least
  <2>2. l = CHOOSE k \in others : \A j \in others : k <= j
    <3> DEFINE x == CHOOSE k \in others : \A j \in others : k <= j
    <3>1. x \in others /\ \A j \in others : x <= j
      BY <2>1
    <3> HIDE DEF x
    <3>2. x <= l /\ l <= x /\ x \in Int /\ l \in Int
      BY <1>1, <2>1, <3>1
    <3> QED
      BY <3>2 DEF x
  <2>3. n = l - 1
    BY <1>9, <1>11, <2>2
  <2>4. l \in 1..m /\ l # 1 /\ n \in 1..m /\ l = n + 1
    BY <1>1, <2>1, <2>3
  <2>5. \A k \in 1..n : k \in 1..m /\ priority[s[k]] = first
    <3>1. ASSUME NEW k \in 1..n PROVE k \in 1..m /\ ~ (l <= k)
      BY <1>1, <2>4
    <3> QED
      BY <2>1, <3>1
  <2>6. \A k \in n + 1..m : k \in 1..m /\ priority[s[k]] # first
    <3> SUFFICES ASSUME NEW k \in n + 1..m PROVE k \in 1..m /\ priority[s[k]] # first
      OBVIOUS
    <3>1. k \in 1..m /\ (l = k \/ l < k)
      BY <1>1, <2>4
    <3>2. priority[s[l]] < first /\ priority[s[l]] \in Int
      BY <1>5, <1>6, <2>1, <2>4
    <3>3. priority[s[k]] <= priority[s[l]] /\ priority[s[k]] \in Int
      BY <1>4, <1>5, <2>4, <3>1
    <3> QED
      BY <1>6, <3>1, <3>2, <3>3
  <2>7. \A k \in 1..m : k \in 1..n \/ k \in n + 1..m
    BY <1>1, <2>4
  <2>8. {s[k] : k \in 1..n} = First(C)
    <3>1. \A c \in C : priority[c] = first => \E k \in 1..n : c = s[k]
      BY <1>4, <2>6, <2>7
    <3>2. \A k \in 1..n : s[k] \in C /\ priority[s[k]] = first
      BY <1>5, <2>5
    <3> QED
      BY <1>7, <3>1, <3>2
  <2>9. {s[k] : k \in n + 1..m} \cap First(C) = {}
    BY <1>7, <2>6
  <2> QED
    BY <1>2, <1>3, <1>4, <2>4, <2>8, <2>9 DEF m, Split
<1> QED
  BY <1>10, <1>11

\* What the cache draws from, by the list.
LEMMA CacheDraws ==
  ASSUME NEW C \in SUBSET Channels, C # {}, IsFiniteSet(C), priority \in [Channels -> Int]
  PROVE  /\ \A x \in BOOLEAN : FromCache(C, x) \in SUBSET C
         /\ FromCache(C, TRUE) # {}
         /\ (\E c \in C : priority[c] > 0) =>
              /\ FromCache(C, FALSE) = First(C)
              /\ First(C) # C => FromCache(C, TRUE) = C \ First(C)
<1>a. PICK s : s = ByPriority(C)
  OBVIOUS
<1>b. PICK n : n = endIdx(s)
  OBVIOUS
<1>1. Listed(s, C)
  <2>1. \E t \in [1..Cardinality(C) -> C] : Sorted(t, C)
    BY ListExists DEF Listed
  <2>2. s = CHOOSE t \in [1..Cardinality(C) -> C] : Sorted(t, C)
    BY <1>a DEF ByPriority
  <2> QED
    BY <2>1, <2>2, Zenon DEF Listed
<1>2a. Split(s, n, C)
  BY <1>b, <1>1, EndOfFirst
<1>2. /\ n \in 1..Len(s) /\ Len(s) \in Nat /\ s \in [1..Len(s) -> C]
      /\ {s[k] : k \in 1..Len(s)} = C
      /\ (\E c \in C : priority[c] > 0) =>
           /\ {s[k] : k \in 1..n} = First(C)
           /\ {s[k] : k \in n + 1..Len(s)} \cap First(C) = {}
  <2>1. Cardinality(C) \in Nat
    BY FS_CardinalityType
  <2> QED
    BY <1>2a, <2>1 DEF Split
<1>3. /\ FromCache(C, FALSE) = {s[k] : k \in 1..n}
      /\ n < Len(s) => FromCache(C, TRUE) = {s[k] : k \in n + 1..Len(s)}
      /\ ~ (n < Len(s)) => FromCache(C, TRUE) = {s[k] : k \in 1..n}
  BY <1>a, <1>b DEF FromCache
<1>4. (\A k \in 1..n : k \in 1..Len(s)) /\ (\A k \in n + 1..Len(s) : k \in 1..Len(s))
      /\ (\A k \in 1..Len(s) : k \in 1..n \/ k \in n + 1..Len(s))
      /\ 1 \in 1..n /\ (n < Len(s) => n + 1 \in n + 1..Len(s))
      /\ (~ (n < Len(s)) => n = Len(s))
  BY <1>2
<1>5. \A k \in 1..Len(s) : s[k] \in C
  BY <1>2
<1>6. {s[k] : k \in 1..n} \in SUBSET C /\ {s[k] : k \in n + 1..Len(s)} \in SUBSET C
  BY <1>4, <1>5
<1>7. FromCache(C, FALSE) \in SUBSET C /\ FromCache(C, TRUE) \in SUBSET C
      /\ FromCache(C, TRUE) # {}
  <2>1. {s[k] : k \in 1..n} # {} /\ (n < Len(s) => {s[k] : k \in n + 1..Len(s)} # {})
    BY <1>4
  <2> QED
    BY <1>3, <1>6, <2>1
<1>8. ASSUME NEW c \in C, priority[c] > 0, First(C) # C
      PROVE  FromCache(C, TRUE) = C \ First(C)
  <2>1. {s[k] : k \in 1..n} = First(C) /\ {s[k] : k \in n + 1..Len(s)} \cap First(C) = {}
    BY <1>2, <1>8
  <2>2. n < Len(s)
    BY <1>2, <1>4, <1>8, <2>1
  <2>3. {s[k] : k \in n + 1..Len(s)} = C \ First(C)
    <3>1. ASSUME NEW d \in C \ First(C) PROVE d \in {s[k] : k \in n + 1..Len(s)}
      <4>1. PICK k \in 1..Len(s) : d = s[k]
        BY <1>2
      <4>2. k \notin 1..n
        BY <2>1, <4>1
      <4> QED
        BY <1>4, <4>1, <4>2
    <3>2. {s[k] : k \in n + 1..Len(s)} \subseteq C
      BY <1>6
    <3> QED
      BY <2>1, <3>1, <3>2
  <2> QED
    BY <1>3, <2>2, <2>3
<1> QED
  BY <1>2, <1>3, <1>7, <1>8

LEMMA DrawsOf ==
  ASSUME RetryTyped, NEW x \in BOOLEAN
  PROVE  Draws(x) \in SUBSET Channels
<1>1. serving \in SUBSET Channels /\ priority \in [Channels -> Int] /\ IsFiniteSet(serving)
  BY RetryAssumption, FS_Subset DEF RetryAssumption, RetryTyped
<1>2. FromCache(serving, x) \in SUBSET Channels
  <2>1. CASE serving = {}
    BY <2>1 DEF FromCache
  <2>2. CASE serving # {}
    BY <1>1, <2>2, CacheDraws
  <2> QED
    BY <2>1, <2>2
<1>3. FromTable(serving, x) \in SUBSET Channels
  BY <1>1 DEF FromTable, First
<1> QED
  BY <1>2, <1>3, Zenon DEF Draws

LEMMA DrawsFollow ==
  ASSUME RetryTyped PROVE DrawsAgree
<1>1. serving \in SUBSET Channels /\ priority \in [Channels -> Int] /\ IsFiniteSet(serving)
  BY RetryAssumption, FS_Subset DEF RetryAssumption, RetryTyped
<1>2. FromTable(serving, FALSE) = First(serving) /\ FromTable(serving, TRUE) = serving
  BY DEF FromTable
<1>3. CASE serving = {}
  BY <1>2, <1>3 DEF DrawsAgree, FromCache
<1>4. CASE serving # {}
  <2>1. /\ FromCache(serving, TRUE) \in SUBSET serving
        /\ FromCache(serving, TRUE) # {}
        /\ (\E c \in serving : priority[c] > 0) =>
             /\ FromCache(serving, FALSE) = First(serving)
             /\ First(serving) # serving =>
                  FromCache(serving, TRUE) = serving \ First(serving)
    BY <1>1, <1>4, CacheDraws
  <2> QED
    BY <1>2, <2>1 DEF DrawsAgree
<1> QED
  BY <1>3, <1>4

-----------------------------------------------------------------------------
(* The attempts and what the monitor is told. *)

LEMMA InitRetry == ASSUME RetryInit PROVE RetryInv
<1>1. tries = <<>> /\ failing = {} /\ reports = {}
  BY DEF RetryInit
<1>2. tries \in Seq(Attempt) /\ DOMAIN tries = {}
  BY <1>1
<1>3. RetryTyped
  BY <1>2 DEF RetryInit, RetryTyped
<1> QED
  BY <1>1, <1>2, <1>3 DEF RetryInv

\* The outcomes of an attempt.
LEMMA OutcomeType ==
  ASSUME RetryTyped, NEW o \in Outcomes
  PROVE  /\ o.st \in Nat /\ o.served \in BOOLEAN /\ o.wrote \in BOOLEAN
         /\ o.st = 0 <=> o = Success
         /\ Charged(o) \in BOOLEAN
<1>1. /\ o.st \in Nat /\ o.served \in BOOLEAN /\ o.wrote \in BOOLEAN
      /\ o.st = 0 => o = Success
  <2>1. CASE o = Success
    BY <2>1 DEF Success, Outcome
  <2>2. CASE o \in Refused
    <3>1. PICK st \in {400, 403} : o = Outcome(st, FALSE, FALSE)
      BY <2>2, Zenon DEF Refused
    <3>2. o = [st |-> st, served |-> FALSE, wrote |-> FALSE]
      BY <3>1, Zenon DEF Outcome
    <3>3. o.served \in BOOLEAN /\ o.wrote \in BOOLEAN
      BY <3>2, Zenon
    <3>4. o.st = st
      BY <3>2, Zenon
    <3>5. o.st \in Nat /\ o.st # 0
      BY <3>4
    <3> QED
      BY <3>3, <3>5, Zenon
  <2>3. CASE o \in Rejected
    <3>1. PICK st \in {401, 429} : o = Outcome(st, FALSE, FALSE)
      BY <2>3, Zenon DEF Rejected
    <3>2. o = [st |-> st, served |-> FALSE, wrote |-> FALSE]
      BY <3>1, Zenon DEF Outcome
    <3>3. o.served \in BOOLEAN /\ o.wrote \in BOOLEAN
      BY <3>2, Zenon
    <3>4. o.st = st
      BY <3>2, Zenon
    <3>5. o.st \in Nat /\ o.st # 0
      BY <3>4
    <3> QED
      BY <3>3, <3>5, Zenon
  <2>4. CASE o \in Unreadable
    <3>1. PICK st \in {200, 500} : o = Outcome(st, TRUE, FALSE)
      BY <2>4, Zenon DEF Unreadable
    <3>2. o = [st |-> st, served |-> TRUE, wrote |-> FALSE]
      BY <3>1, Zenon DEF Outcome
    <3>3. o.served \in BOOLEAN /\ o.wrote \in BOOLEAN
      BY <3>2, Zenon
    <3>4. o.st = st
      BY <3>2, Zenon
    <3>5. o.st \in Nat /\ o.st # 0
      BY <3>4
    <3> QED
      BY <3>3, <3>5, Zenon
  <2>5. CASE o \in CutShort
    <3>1. o = [st |-> 500, served |-> TRUE, wrote |-> TRUE]
      BY <2>5, Zenon DEF CutShort, Outcome
    <3>2. o.served \in BOOLEAN /\ o.wrote \in BOOLEAN
      BY <3>1, Zenon
    <3>3. o.st = 500
      BY <3>1, Zenon
    <3>4. o.st \in Nat /\ o.st # 0
      BY <3>3
    <3> QED
      BY <3>2, <3>4, Zenon
  <2> QED
    BY <2>1, <2>2, <2>3, <2>4, <2>5 DEF Outcomes
<1>2. Success.st = 0
  BY DEF Success, Outcome
<1>3. mode \in {"text", "image", "audio", "proxy"}
  BY RetryAssumption DEF RetryAssumption, RetryTyped
<1>4. Charged(o) \in BOOLEAN
  BY <1>1, <1>3 DEF Charged
<1> QED
  BY <1>1, <1>2, <1>4

\* An attempt is added to those before it, which stay.
LEMMA TryIs ==
  ASSUME RetryTyped, NEW o \in Outcomes, Try(o)
  PROVE  /\ tries' \in Seq(Attempt) /\ Len(tries) \in Nat
         /\ Len(tries) + 1 \notin DOMAIN tries
         /\ DOMAIN tries' = DOMAIN tries \cup {Len(tries) + 1}
         /\ \A n \in DOMAIN tries : tries'[n] = tries[n]
         /\ tries'[Len(tries) + 1].ch = channel /\ tries'[Len(tries) + 1].st = o.st
<1> DEFINE a == [ch |-> channel, prompt |-> prompt, st |-> o.st, served |-> o.served,
                 wrote |-> o.wrote, charged |-> Charged(o)]
<1>1. a \in Attempt
  BY OutcomeType DEF RetryTyped, Attempt
<1>2. a.ch = channel /\ a.st = o.st
  OBVIOUS
<1>3. tries' = Append(tries, a)
  BY DEF Try
<1>4. tries \in Seq(Attempt)
  BY DEF RetryTyped
<1> HIDE DEF a
<1>5. /\ tries' \in Seq(Attempt) /\ Len(tries) \in Nat /\ Len(tries') = Len(tries) + 1
      /\ DOMAIN tries = 1..Len(tries) /\ DOMAIN tries' = 1..Len(tries')
      /\ \A n \in 1..Len(tries) : tries'[n] = tries[n]
      /\ tries'[Len(tries) + 1] = a
  BY <1>1, <1>3, <1>4
<1> QED
  BY <1>2, <1>5

\* What an attempt must keep.
Reported(n) == tries[n].st # 0 => Once(n)
Witnessed(f) == \E n \in DOMAIN tries : tries[n].st # 0 /\ f = Told(n)
Justified(r) ==
  \E n \in DOMAIN tries, v \in {"disable", "failure", "success"} :
    r = <<n, tries[n].ch, v>> /\ (v = "success" <=> tries[n].st = 0)

\* Adding an attempt leaves what is known of the others.
LEMMA TryKeeps ==
  ASSUME RetryInv, NEW o \in Outcomes, Try(o)
  PROVE  /\ \A f \in failing : Witnessed(f)' /\ f # <<Len(tries) + 1, channel, o.st>>
         /\ \A r \in reports : Justified(r)' /\ r[1] # Len(tries) + 1
<1>1. /\ Len(tries) + 1 \notin DOMAIN tries
      /\ DOMAIN tries' = DOMAIN tries \cup {Len(tries) + 1}
      /\ \A n \in DOMAIN tries : tries'[n] = tries[n]
  BY TryIs DEF RetryInv
<1>2. ASSUME NEW f \in failing PROVE Witnessed(f)' /\ f # <<Len(tries) + 1, channel, o.st>>
  <2>1. PICK n \in DOMAIN tries : tries[n].st # 0 /\ f = Told(n)
    BY DEF RetryInv
  <2>2. tries'[n].st # 0 /\ f = <<n, tries'[n].ch, tries'[n].st>> /\ n \in DOMAIN tries'
    BY <1>1, <2>1 DEF Told
  <2>3. n # Len(tries) + 1
    BY <1>1
  <2> QED
    BY <2>2, <2>3 DEF Witnessed, Told
<1>3. ASSUME NEW r \in reports PROVE Justified(r)' /\ r[1] # Len(tries) + 1
  <2>1. PICK n \in DOMAIN tries, v \in {"disable", "failure", "success"} :
               r = <<n, tries[n].ch, v>> /\ (v = "success" <=> tries[n].st = 0)
    BY DEF RetryInv
  <2>2. r = <<n, tries'[n].ch, v>> /\ (v = "success" <=> tries'[n].st = 0) /\ n \in DOMAIN tries'
    BY <1>1, <2>1
  <2>3. n # Len(tries) + 1
    BY <1>1
  <2> QED
    BY <2>2, <2>3 DEF Justified
<1> QED
  BY <1>2, <1>3

LEMMA SucceedKeeps ==
  ASSUME RetryInv, Succeed, RetryTyped' PROVE RetryInv'
<1> DEFINE n == Len(tries) + 1
<1>0. RetryTyped
  BY DEF RetryInv
<1>1. Success \in Outcomes /\ Success.st = 0 /\ Try(Success) /\ failing' = failing
  BY DEF Succeed, Outcomes, Success, Outcome
<1>2. /\ DOMAIN tries' = DOMAIN tries \cup {n}
      /\ \A k \in DOMAIN tries : tries'[k] = tries[k]
      /\ tries'[n].ch = channel /\ tries'[n].st = 0
  BY <1>0, <1>1, TryIs
<1>3. /\ \A f \in failing : Witnessed(f)'
      /\ \A r \in reports : Justified(r)' /\ r[1] # n
  BY <1>1, TryKeeps
<1>4. tries = <<>> => n = 1 /\ DOMAIN tries = {}
  OBVIOUS
<1>5. \A r \in reports' : r \in reports \/ (tries = <<>> /\ r = <<n, channel, "success">>)
  BY <1>4 DEF Succeed
<1>6. reports \subseteq reports'
  BY DEF Succeed
<1> HIDE DEF n
<1>7. ASSUME NEW r \in reports' PROVE Justified(r)'
  BY <1>2, <1>3, <1>5 DEF Justified
<1>8. ASSUME NEW k \in DOMAIN tries' PROVE Reported(k)'
  <2>1. CASE k = n
    BY <1>2, <2>1 DEF Reported
  <2>2. CASE k # n
    <3>1. k \in DOMAIN tries /\ tries'[k] = tries[k] /\ Reported(k)
      BY <1>2, <1>8, <2>2 DEF RetryInv, Reported
    <3>2. Said(k)' = Said(k)
      BY <1>4, <1>5, <1>6, <3>1 DEF Said
    <3> QED
      BY <1>1, <3>1, <3>2 DEF Reported, Once, Told
  <2> QED
    BY <2>1, <2>2
<1>9. \A f \in failing' : Witnessed(f)'
  BY <1>1, <1>3
<1> QED
  BY <1>7, <1>8, <1>9 DEF RetryInv, Reported, Witnessed, Justified

LEMMA FailKeeps ==
  ASSUME RetryInv, NEW o \in Outcomes, o # Success, Fail(o),
         RetryTyped'
  PROVE  RetryInv'
<1>a. PICK n : n = Len(tries) + 1
  OBVIOUS
<1>0. RetryTyped
  BY DEF RetryInv
<1>1. o.st # 0 /\ Try(o) /\ reports' = reports /\ failing' = failing \cup {<<n, channel, o.st>>}
  BY <1>a, <1>0, OutcomeType DEF Fail
<1>2. /\ DOMAIN tries' = DOMAIN tries \cup {n}
      /\ \A k \in DOMAIN tries : tries'[k] = tries[k]
      /\ tries'[n].ch = channel /\ tries'[n].st = o.st
  BY <1>a, <1>0, <1>1, TryIs
<1>3. /\ \A f \in failing : Witnessed(f)'
      /\ \A r \in reports : Justified(r)' /\ r[1] # n
      /\ n \notin DOMAIN tries
  BY <1>a, <1>0, <1>1, TryKeeps, TryIs
<1>4. PICK g : g = <<n, channel, o.st>>
  OBVIOUS
<1>8. Told(n)' = g /\ Witnessed(g)'
  BY <1>1, <1>2, <1>4 DEF Told, Witnessed
<1>5. ASSUME NEW k \in DOMAIN tries' PROVE Reported(k)'
  <2>1. CASE k = n
    <3>1. Told(n)' \in failing' /\ Said(n)' = {}
      BY <1>1, <1>3, <1>4, <1>8 DEF Said
    <3> QED
      BY <2>1, <3>1 DEF Reported, Once
  <2>2. CASE k # n
    <3>1. k \in DOMAIN tries /\ tries'[k] = tries[k] /\ Reported(k)
      BY <1>2, <1>5, <2>2 DEF RetryInv, Reported
    <3>2. Said(k)' = Said(k) /\ Told(k)' = Told(k)
      BY <1>1, <3>1 DEF Said, Told
    <3>3. Told(k) \in failing' <=> Told(k) \in failing
      BY <1>1, <2>2 DEF Told
    <3> QED
      BY <3>1, <3>2, <3>3 DEF Reported, Once
  <2> QED
    BY <2>1, <2>2
<1>6. \A f \in failing' : Witnessed(f)'
  BY <1>1, <1>3, <1>4, <1>8
<1>7. \A r \in reports' : Justified(r)'
  BY <1>1, <1>3
<1> QED
  BY <1>5, <1>6, <1>7 DEF RetryInv, Reported, Witnessed, Justified

LEMMA ReportKeeps ==
  ASSUME RetryInv, NEW f \in failing, Report(f), RetryTyped'
  PROVE  RetryInv'
<1>1. PICK v \in {"disable", "failure"} : reports' = reports \cup {<<f[1], f[2], v>>}
  BY DEF Report
<1>2. failing' = failing \ {f} /\ tries' = tries
  BY DEF Report
<1>3. PICK n \in DOMAIN tries : tries[n].st # 0 /\ f = Told(n)
  BY DEF RetryInv
<1> DEFINE r == <<n, tries[n].ch, v>>
<1>4. reports' = reports \cup {r} /\ f[1] = n
  BY <1>1, <1>3 DEF Told
<1>5. Once(n)
  BY <1>3 DEF RetryInv
<1>6. Said(n) = {}
  BY <1>3, <1>5 DEF Once
<1>7. ASSUME NEW k \in DOMAIN tries' PROVE Reported(k)'
  <2>1. CASE k = n
    <3>1. Said(n)' = {r}
      BY <1>4, <1>6 DEF Said
    <3>2. Told(n)' \notin failing'
      BY <1>2, <1>3 DEF Told
    <3> QED
      BY <1>2, <2>1, <3>1, <3>2 DEF Reported, Once
  <2>2. CASE k # n
    <3>1. Reported(k) /\ k \in DOMAIN tries
      BY <1>2, <1>7 DEF RetryInv, Reported
    <3>2. Said(k)' = Said(k) /\ Told(k)' = Told(k)
      BY <1>2, <1>4, <2>2 DEF Said, Told
    <3>3. Told(k) # f
      BY <1>3, <2>2 DEF Told
    <3> QED
      BY <1>2, <3>1, <3>2, <3>3 DEF Reported, Once
  <2> QED
    BY <2>1, <2>2
<1>8. \A g \in failing' : Witnessed(g)'
  BY <1>2 DEF RetryInv, Witnessed, Told
<1>9. ASSUME NEW q \in reports' PROVE Justified(q)'
  <2>1. CASE q = r
    BY <1>2, <1>3, <2>1 DEF Justified
  <2>2. CASE q \in reports
    BY <1>2, <2>2 DEF RetryInv, Justified
  <2> QED
    BY <1>4, <1>9, <2>1, <2>2
<1> QED
  BY <1>7, <1>8, <1>9 DEF RetryInv, Reported, Witnessed, Justified

LEMMA RetryTypes ==
  ASSUME RetryTyped, RetryNext PROVE RetryTyped'
<1>0. memoryCache' \in CacheModes /\ priority' \in Priorities /\ mode' \in Modes
  BY DEF RetryNext, setting, RetryTyped
<1> DEFINE Others == /\ serving' \in SUBSET Channels /\ named' \in Channels \cup {NoChannel}
                   /\ tries' \in Seq(Attempt)
           Context == /\ channel' \in Channels \cup {NoChannel}
                      /\ prompt' \in Channels \cup {NoChannel}
<1>1. \A c \in Channels : SetupContext(c) => Context
  BY DEF SetupContext, RetryTyped
<1>2. UNCHANGED context => Context
  BY DEF context, RetryTyped
<1>3. CASE ChannelsChange
  BY <1>0, <1>2, <1>3 DEF ChannelsChange, RetryTyped
<1>4. CASE Distribute
  <2>1. PICK drawn \in IF named # NoChannel THEN {{}, {named}} ELSE {Draws(FALSE)} :
           UNCHANGED context \/ \E c \in drawn : SetupContext(c)
    BY <1>4 DEF Distribute
  <2>2. drawn \in SUBSET Channels
    BY DrawsOf DEF RetryTyped
  <2>3. Context
    BY <1>1, <1>2, <2>1, <2>2
  <2>4. Others
    BY <1>4 DEF Distribute, RetryTyped
  <2> QED
    BY <1>0, <2>3, <2>4 DEF RetryTyped
<1>5. ASSUME NEW o \in Outcomes, Try(o), UNCHANGED <<serving, named, context>>
      PROVE  RetryTyped'
  <2>1. tries' \in Seq(Attempt)
    BY <1>5, TryIs
  <2> QED
    BY <1>0, <1>2, <1>5, <2>1 DEF RetryTyped
<1>6. CASE Succeed
  <2>1. Success \in Outcomes
    BY DEF Outcomes
  <2> QED
    BY <1>5, <1>6, <2>1 DEF Succeed
<1>7. ASSUME NEW o \in Outcomes, Fail(o) PROVE RetryTyped'
  BY <1>5, <1>7 DEF Fail
<1>8. CASE Retry
  <2>1. Draws(turnsLeft # retryTimes) \in SUBSET Channels
    BY DrawsOf
  <2>2. Context
    BY <1>1, <1>2, <1>8, <2>1 DEF Retry
  <2>3. Others
    BY <1>8 DEF Retry, RetryTyped
  <2> QED
    BY <1>0, <2>2, <2>3 DEF RetryTyped
<1>9. CASE GiveUp
  BY <1>0, <1>2, <1>9 DEF GiveUp, RetryTyped
<1>10. ASSUME NEW f \in failing, Report(f) PROVE RetryTyped'
  BY <1>0, <1>2, <1>10 DEF Report, RetryTyped
<1> QED
  BY <1>3, <1>4, <1>6, <1>7, <1>8, <1>9, <1>10 DEF RetryNext, Relay

LEMMA RetryStep ==
  ASSUME RetryInv, [RetryNext]_retryVars PROVE RetryInv'
<1>1. ASSUME UNCHANGED <<tries, failing, reports>>, RetryTyped' PROVE RetryInv'
  <2>1. tries' = tries /\ failing' = failing /\ reports' = reports
    BY <1>1
  <2>2. \A n : Told(n)' = Told(n) /\ Said(n)' = Said(n)
    BY <2>1 DEF Told, Said
  <2>3. \A n : Once(n)' <=> Once(n)
    BY <2>1, <2>2 DEF Once
  <2> QED
    BY <1>1, <2>1, <2>2, <2>3 DEF RetryInv
<1>2. CASE UNCHANGED retryVars
  <2>1. RetryTyped'
    BY <1>2 DEF retryVars, setting, context, RetryInv, RetryTyped
  <2> QED
    BY <1>1, <1>2, <2>1 DEF retryVars
<1>3. CASE RetryNext
  <2>0. RetryTyped'
    BY <1>3, RetryTypes DEF RetryInv
  <2>1. CASE ChannelsChange \/ Distribute \/ Retry \/ GiveUp
    <3>1. UNCHANGED <<tries, failing, reports>>
      BY <2>1 DEF ChannelsChange, Distribute, Retry, GiveUp
    <3> QED
      BY <1>1, <2>0, <3>1
  <2>2. CASE Succeed
    BY <2>0, <2>2, SucceedKeeps
  <2>3. ASSUME NEW o \in Outcomes \ {Success}, Fail(o) PROVE RetryInv'
    BY <2>0, <2>3, FailKeeps
  <2>4. ASSUME NEW f \in failing, Report(f) PROVE RetryInv'
    BY <2>0, <2>4, ReportKeeps
  <2> QED
    BY <1>3, <2>1, <2>2, <2>3, <2>4 DEF RetryNext, Relay
<1> QED
  BY <1>2, <1>3

LEMMA RetryShown ==
  ASSUME RetryInv PROVE FailuresReported
<1>1. ASSUME NEW n \in DOMAIN tries, tries[n].st # 0
      PROVE  LET told == {f \in failing : f[1] = n}
                 said == {r \in reports : r[1] = n}
             IN  Cardinality(told) + Cardinality(said) = 1
                 /\ \A x \in told \cup said : x[2] = tries[n].ch
  <2> DEFINE told == {f \in failing : f[1] = n}
             said == {r \in reports : r[1] = n}
  <2>1. \A f \in told : f = Told(n)
    BY DEF RetryInv, Told
  <2>2. Once(n) /\ Told(n)[1] = n /\ Told(n)[2] = tries[n].ch
    BY <1>1 DEF RetryInv, Told
  <2>3. CASE Told(n) \in failing /\ Said(n) = {}
    <3>1. told = {Told(n)} /\ said = {}
      BY <2>1, <2>2, <2>3 DEF Said
    <3>2. Cardinality(told) = 1 /\ Cardinality(said) = 0
      BY <3>1, FS_EmptySet, FS_Singleton
    <3> QED
      BY <2>2, <3>1, <3>2
  <2>4. ASSUME Told(n) \notin failing, NEW v, Said(n) = {<<n, tries[n].ch, v>>}
        PROVE  /\ Cardinality(told) + Cardinality(said) = 1
               /\ \A x \in told \cup said : x[2] = tries[n].ch
    <3>1. told = {} /\ said = {<<n, tries[n].ch, v>>}
      BY <2>1, <2>4 DEF Said
    <3>2. Cardinality(told) = 0 /\ Cardinality(said) = 1
      BY <3>1, FS_EmptySet, FS_Singleton
    <3> QED
      BY <3>1, <3>2
  <2> QED
    BY <2>2, <2>3, <2>4 DEF Once
<1>2. ASSUME NEW r \in reports PROVE r[3] = "success" <=> tries[r[1]].st = 0
  BY DEF RetryInv
<1> QED
  BY <1>1, <1>2 DEF FailuresReported, Attempts

\* Every failed attempt is told to the monitor once, against the channel that failed,
\* whatever the context holds when the goroutine runs; for any channels, draws and number
\* of retries.
THEOREM RetryReported == RetrySpec => []FailuresReported
<1>1. RetryInit => RetryInv
  BY InitRetry
<1>2. RetryInv /\ [RetryNext]_retryVars => RetryInv'
  BY RetryStep
<1>3. RetryInv => FailuresReported
  BY RetryShown
<1> QED
  BY <1>1, <1>2, <1>3, PTL DEF RetrySpec

\* The prefix of the sorted list is the highest priority the query would find, and the
\* later draws take the others, for any number of channels and any priorities.
THEOREM RetryDraws == RetrySpec => []DrawsAgree
<1>1. RetryInit => RetryInv
  BY InitRetry
<1>2. RetryInv /\ [RetryNext]_retryVars => RetryInv'
  BY RetryStep
<1>3. RetryInv => DrawsAgree
  BY DrawsFollow DEF RetryInv
<1> QED
  BY <1>1, <1>2, <1>3, PTL DEF RetrySpec

=============================================================================
