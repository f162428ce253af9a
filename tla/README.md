# One API in TLA+

One API is a gateway, written in Go, between the OpenAI protocol and some forty
providers of language models. Users buy quota, create tokens (API keys) and send
requests; the gateway picks an upstream *channel* that serves the model, relays
the request, and charges the user and the token for it. Several nodes may share
one SQL database and one Redis.

The modules here model the parts of it that keep state and race: money, limits,
channels, accounts, log-ins, settings; and what the adaptors do to a conversation and
to its answer. They are written from the source; every definition that models
code names its lines in `PROJECT.json` under `map`.

## Inventory

| component | state | operations | what is hard |
|---|---|---|---|
| relay billing (`relay/controller`, `relay/billing`) | `users.quota`, `users.used_quota`, `tokens.remain_quota`; the local variables of a request | hold, upstream call, settle or refund, in a goroutine after the answer | statements of many requests interleave without a transaction; any may fail |
| quota cache (`model/cache.go`) | Redis `user_quota:<id>` | read-through, `DECRBY`, reset, expiry | three writers of one key; a key without expiry |
| batch updater (`model/utils.go`) | a map per kind of counter, a lock per map | add, swap, apply | records added while a batch is applied; a crash |
| channel retry (`controller/relay.go`, `middleware/distributor.go`) | the gin context of a request | choose, attempt, classify the error, choose again | the second attempt runs in the context of the first |
| channel health (`model/channel.go`, `model/ability.go`, `monitor`, `controller/channel-test.go`) | `channels.status`, `abilities.enabled`, the cached routing table, the metric queues | automatic disabling, the periodic test, edits by the administrator, the periodic refresh | decisions made on a snapshot; two tables and a cache kept in step |
| tokens (`model/token.go`, `middleware/auth.go`, `controller/token.go`) | `tokens.*`, Redis `token:<key>` | create, edit, delete, validate | whole rows written back while quota moves |
| redemption codes (`model/redemption.go`) | `redemptions.status`, `users.quota` | redeem, edit, delete | two users with one code |
| users (`model/user.go`, `controller/user.go`) | `users.*`, the blacklist | register, edit, ban, delete, top up | check-then-act on unique values; the blacklist and the row |
| VSCode log-in (`model/vscode_auth_session.go`, `controller/vscode_auth.go`, `controller/coder_auth.go`) | a map of sessions, shared by pointer | start, complete, poll, expire, clean up | polled while it is completed; deletion by goroutines |
| rate limiter (`common/rate-limit.go`, `middleware/rate-limit.go`) | a queue of times per key, in memory or Redis | request, periodic clean-up | the window's boundary; not atomic in Redis |
| verification codes (`common/verification.go`) | a map of codes with times | register, verify, delete, evict | the map at its limit; expiry |
| options (`model/option.go`) | `options`, the maps and globals they set | update, periodic reload | nodes see a change at different times |
| identities (`controller/auth`) | a column of `users` for each service | log in, register, bind | check-then-act; the cookie is all that is looked at |
| prices (`relay/billing/ratio`) | three tables, replaced as a whole | look up, replace, add what is missing | nodes hold different tables; one is filled without a lock |
| adaptors (`relay/adaptor`) | the local variables of a handler; a goroutine that reads a websocket; tasks that are polled | convert the conversation, handle the answer, a body or a stream, return the usage | twenty protocols that end, fail and report usage in their own ways; clients that leave |
| channel balances (`controller/channel-billing.go`) | `channels.balance` | ask, write | not modelled |
| web, router, logs, dashboards, mail, utilities | none of interest | | not modelled |

The parts meet in a relayed request: `middleware.TokenAuth` validates the token and
the user, `middleware.Distribute` chooses a channel, `controller.Relay` runs the
attempts, each attempt bills (`RelayTextHelper` and its siblings), the outcome feeds
`monitor`, which may disable the channel that the next request would have chosen.

## Modules

| module | models | checked by | proved in |
|---|---|---|---|
| `RelayBilling` | hold, upstream, settlement and refund of text, audio and image requests; the quota cache | `billing_redis`, `billing_faults`, `billing_unmetered` | `RelayBilling_proofs` |
| `BatchUpdater` | the five write-behind maps and their goroutine | `batch` | `BatchUpdater_proofs` |
| `WriteBehind` | *abstract:* what a write-behind counter promises | refined by `BatchUpdater` | `BatchUpdater_proofs` |
| `Gateway`, `Deployment` | the channels, and the settings of the process, that the next three share | with them | – |
| `ChannelStatus` | status, abilities, routing table, tests, administration | `status` | `ChannelStatus_proofs` |
| `RelayRetry` | choice of a channel, retries, reports | `retry` | `ChannelStatus_proofs` |
| `ChannelMetric` | the two consumers of outcomes | `metric` | `ChannelStatus_proofs` |
| `VSCodeAuth` | the device log-in of the editor extension | `vscode` | `VSCodeAuth_proofs` |
| `RateLimiter` | one key of the request limiter, in memory and in Redis | `limiter` | `RateLimiter_proofs` |
| `AdaptorConversions` | pure: the request each adaptor makes of a conversation | through `Adaptors` | `Adaptors_proofs` |
| `AdaptorHandlers` | pure: what each stream handler does with an item and at the end | through `Adaptors` | `Adaptors_proofs` |
| `AdaptorBodies` | pure: what each handler of a whole body can come to | through `Adaptors` | `Adaptors_proofs` |
| `Adaptors` | one request through an adaptor, from conversion to settlement; extends the three | `adaptors` | `Adaptors_proofs` |
| `Accounts` | rows of users, a redemption code and a token, and the API handlers that change them; banned users, verification codes, sessions, identities | `accounts` | `Accounts_proofs` |
| `Settings` | options on several nodes, `UpdateOption`, the polling loop, the price tables | `settings` | `Settings_proofs` |

`MC*` modules only give constants their values and state the symmetry of model
values. Definitions marked *Faulty variant* are not part of any specification; each
is the mutation of the definition after it that the property named in
`PROJECT.json`, `mutants`, must detect.

### RelayBilling

`quota`, `usedQuota`, `remain` and `tokens` are columns and rows; `cached` and
`sticky` the Redis key and whether it lacks a lifetime. `relay[r]` holds a request's
local variables (its kind, token, `preConsumedQuota`, the final charge) and `pc[r]`
its next statement: one action per SQL statement or Redis command, because that is
the grain at which goroutines and nodes interleave. `Arrive*` computes the
estimate; `GetQuota`, `FillQuota`, `Admit`, `CheckToken`, `CheckUser`, `HoldToken`,
`HoldUser` are `preConsumeQuota` and `PreConsumeTokenQuota`; `TextError`,
`TextServed`, `TextUnmetered`, `Audio*`, `Image*` are what an upstream can come to;
`Settle*`, `RereadQuota`, `ResetQuota`, `RecordUsage` are `PostConsumeQuota` and the
goroutine around it; `RecordFails` is the last statement, of `used_quota`, failing, whose
error is only logged. A price is drawn from `Charges`: ratios are floats and nothing
here depends on them, only on whether a charge is below or above the hold. `did` and
`fate` are history: which statements took effect and what became of the request.
The deletion of a token and the expiry of the key run beside it.

### BatchUpdater and WriteBehind

`store[t]` is a map of sums per row, `batch` the map swapped out and being written,
`turn` the type it belongs to. `addNewRecord` runs at any time, `Swap`, `Apply`,
`NextType` are `batchUpdate`, whose statements may fail (`ApplyFails`; the error is
logged and the sum dropped) and which a restart cuts anywhere. `WriteBehind` says
what such a store promises for one counter: posted, picked up, written once, or
lost by a failure before it was written. `Behind(c)` instantiates it for counter `c`
with `waiting <- Waiting(c)`, `writing <- Writing(c)`.

### ChannelStatus

`row[c]` is the status column, `ability[c]` the enabled column of its abilities (all
of one channel's abilities are written by the same statements with one value),
`cache` the routing table, `seen` what the first query of a refresh returned.
`op[a]` is what goroutine `a` is halfway through. `StatusAbilities`, `StatusRow` are
the two statements of `UpdateChannelStatusById`; `Create`/`AddAbilities`,
`EditRow`/`EditRead`/`DeleteAbilities`/`AddAbilities`,
`DeleteRow`/`DeleteAbilities`, `DeleteDisabled` the administrator's requests;
`Route`, `ReadRow`, `Answer` a request that may fail and disable its channel;
`StartTest` … `EndTest` a test of all channels; `ReadChannels`, `ReadAbilities` and
`Panic` `InitChannelCache`, neither of whose queries has its error looked at: if the
first fails (`ChannelsUnread`) the refresh publishes an empty table, if the second does
(`AbilitiesUnread`) there is no group to put a channel into and the process ends, unless
there is no channel either. The same holds for the load at a start (`Load`). `suspect`,
`changed`, `changedNow` and `blind` are history: they name exactly the circumstances in
which the tables may disagree or the cache be old.

### RelayRetry

One request: `Distribute` chooses, an attempt comes to one of `Outcomes` (a status,
whether it was served, whether something was written), `Fail` starts the report to
the monitor, `Retry` draws again and sets the context up, `GiveUp` answers. The draw
is both `CacheGetRandomSatisfiedChannel` (a prefix of the list sorted by priority)
and `GetRandomSatisfiedChannel` (the query), by the deployment. `ChannelsChange` is
the environment. An attempt is a single step, since Relay waits for it.

### ChannelMetric

`consumeSuccess` and `consumeFail` run in two goroutines and share one map without a
lock. Every read and every write of the map is a step of its own, so that writes can
be lost as they are in the code, a slice may be cut that another has emptied meanwhile
(`SliceRead`, a panic), and a judgement is made of three readings: of the successes
(`CountGood`), of the length for the rate (`RateRead`) and of the length against
`MetricQueueSize` (`Judge`). `torn` says that the other consumer wrote between them. The
Go runtime may detect the concurrent access and end the process (`Fatal`, external).
A slice is a value here: that the two consumers' slices may share an array, so that one
append overwrites the other's element, is left out.

### VSCodeAuth

Sessions are objects shared by pointer: `status`, `token` and `user` are single
fields that a log-in writes one by one without the lock, in any order a reader may
see them (a data race), and a poll reads one by one. A reader of the string header of
the token during its write gets `Torn`. `LockSession`/`UnlockSession` are the
callback through `UpdateVSCodeAuthSession`, which does hold the lock. Deletions are
goroutines (`DeleteSession`), as is the periodic `CleanupExpired`.

### RateLimiter

`queue` holds the times kept for one key, old to new. In memory `Request` and
`clearExpiredItems` hold a mutex and are one step each. In Redis every command of
`redisRateLimiter` is a step of a goroutine, `Tick` drops an expired key, and
`CommandFails` is an error that the code answers with 500 or ignores. `accepted`,
`refused` and `torn` are history.

### Adaptors

`call` is the adaptor and the kind of the request (stream, text, embedding, image,
proxy). `ms` is the conversation, turns of a role and a kind of content; `sent` what
`ConvertRequest` made of it: the turns in order, each with its place in `ms`, and the
turn that became the system prompt. Once the request is sent both are forgotten. A
stream is read item by item (`ReadItem`): an item is text, a usage report, both, an
end mark, a finish reason, an error or something unparsable, as `Sends` says each
channel may send. `s` holds the local variables of the handler: the chunks rendered to
the client (by the item they came from), the length of the text gathered, the usage,
how the loop ended. `EndOfStream` is the code after the loop, `ReadBody` a handler of
a whole body, with every way it may fail; `ClientLeaves` and `StreamLeft` a client that
goes. For xunfei, `Connect`, `ProducerReads`, `Receive` and `ReceiveStop` are two
goroutines that meet on unbuffered channels; `TaskAccepted`, `PollAgain`, `Wake`,
`Task*` the polled tasks of ali and replicate. `Settle` is what `RelayTextHelper` does
with the result: the hold is settled, returned or left.

### Accounts

`rows` is the database; 0 is the zero value of a column, and a row whose status is 0
is not there. Most handlers are three steps, as they are in the code: the request
(`authHelper`, by cookie or row, against the set of banned users of the node), `Read`
of the row with the checks made on it, and `Write` of columns: `Columns` says which
ones, since gorm's `Updates` of a whole struct writes every non-zero column of the copy
that was read, a `Select` only those that are named. Between them `BanStep` changes the
node's set of banned users, and `WriteFails` is a statement that fails; `ReadFails` is a
query whose error is dropped (`FillUserById`), after which the handler goes on with a row
that was not read. `Check` is the look for an identity that is taken; by `FoundFree` it
counts as free when nobody has it, when the query fails, and when the row count is not
one for another reason: gorm scans into one struct and is expected to count one row, but
that is the library's affair, so two holders may count as none. `Insert`, `Bonus` and
`BonusFails` are a registration. `UpdateUser` asks for each of the statuses 1 to 4, for a
role above and below the administrator's (`RoleBetween`), for a quota of 0, which
`Updates` skips, and another, and for a password. Relative
updates, log-ins and deletions of rows are single steps. `codes` are the verification
codes of a node, whose expiry may come at any time. `meant` is the database as it would
be had every write changed only the columns it was about; `raced`, `unwritten`, `shaken`,
`shared`, `redeemed.excuses` and `stale` name the circumstances under which a property may fail,
so that a property says that there are no others.

### Settings

`db` holds the texts of the rows: a value with how it parses (`good`, `bad`, `blank`,
`null`, or no row). Each node has `shown` (`OptionMap`), `used` (the variables and tables made
of it) and `lock` (the mutex). `UpdateOption` is an editor's request with what
`controller.UpdateOption` refuses by the values of its node; `Create` and `Save` are
`FirstOrCreate` and `Save`, `MapStep` takes the mutex and writes the map, `ConfigStep`
sets the variable, in two steps for the completion ratios, which are emptied and then
filled (`FillStep`). `Poll` reads all rows, `NextRow` applies one, after
`AddNewMissingRatio` where it is the table of model ratios. That function panics on the
text `null` (`RowPanics`), which an update accepts as an empty table; `up` is the set of
nodes whose program runs, and `Restart` and `StartAgain` bring one up if the rows let it
(`Begin`; `docker-compose.yml` starts a container again). A node that is down is given the
variables of a program that has read no rows. `GetModelRatio`,
`GetCompletionRatio` and `GetGroupRatio` are the look-ups; entries and the rules by
which the prefix of a name gives a ratio are constants. `given`, `dirty` and `late` are
history: the text that a variable was last set by, and why a node may be behind.

## Runs

| run | bounds | shows |
|---|---|---|
| `billing_redis` | 2 requests of one user, a limited and an unlimited token, Redis, one failing statement | a request ends up costing what its outcome says (`SettlementMatchesOutcome`); a key that `DECRBY` created without a lifetime is never believed (`StickyNeverTrusted`) |
| `billing_faults` | the same without Redis; the failing statement may be any, the record of the usage too; a deleted token | no update of quota is lost: every step moves quota by what it moves one request's holding (`EveryStepBalanced`); the token is charged what its owner is unless a statement failed (`TokenAgreesWithUser`); quota and used quota close, but for a charge whose record failed (`BooksClose`); a settlement that begins ends (`SettlementCompletes`) |
| `billing_unmetered` | *violation* | the finding below |
| `batch` | 2 rows, 3 posts, one failure or restart | `Conserved`, the refinement (`WriteBehindCounters`), and that a sum that waits is picked up and finished (`SumsAreWritten`) |
| `status` | 1 channel, a worker, 2 tests, 2 edits, one failing statement (a query of the refresh too) or restart; with and without the memory cache | the tables agree where operations do not overlap or fail (`TablesAgree`); the routing table is that of the rows as they were read, or empty after a query that failed (`CacheIsCurrent`); the process ends only for a named cause (`PanicHasCause`); a disabled channel leaves the table (`DisabledLeavesCache`) |
| `retry` | a text request over 3 channels with two assignments of priorities, 2 retries, one change of the channels | every failure is reported once and against its channel (`FailuresReported`); the two ways of drawing a channel agree where they should (`DrawsAgree`); `RequestEnds` |
| `metric` | 1 channel, window of 2, buffers of 1, 6 outcomes | a channel is disabled only with a window of failures behind it, although writes get lost, or on a judgement torn by the other consumer and then only after a full window of outcomes (`DisabledForCause`); blocked sends end (`OutcomesConsumed`) |
| `vscode` | a local and a Coder session, 2 log-ins, a poll | `TokenIsOfALogin`, `NoRevivalByCallback`, `ForgottenOnceExpired` |
| `limiter` | limit 2 in 2 s, expiration 3 s, 6 s, 6 requests, 2 goroutines, one failing command | in memory the limit is exact (`WindowBound`) and no request is refused without cause (`RefusedWithCause`); in Redis each goroutine but one can exceed it by two (`OvershootBound`) |
| `adaptors` | every adaptor and kind of request; conversations of up to 3 turns of any roles and contents, streams of up to 3 items, 3 polls; a report of usage that is full, lacks the prompt, lacks the completion, has only the total, or is missing | the client sees one `[DONE]`, at the end (`DoneClosesStream`); errors are returned before anything is written (`SilentOnError`); text is rendered once and in order (`TextRenderedOnce`) and not given away (`FreeTextHasCause`); turns are sent once, in order, or dropped by a rule (`TurnsDroppedByRule`); no goroutine is left behind (`ProducerNotLeft`); the request ends (`CallEnds`) |
| `accounts` | a root user, an administrator, a user, a row to come; 2 handlers on 2 nodes; 2 to 5 operations of one of nine families; one failing statement or restart | what is lost, who is banned, who shares an identity, what a code pays and how often a reset code serves go wrong only for a named cause (`LossHasCause`, `BanFollowsRow`, `IdentityUnique`, `PaidOnce`, `ResetOnce`); rights rise only by those who may raise them (`RightsFollowRoles`) |
| `settings` | 2 nodes, 2 editors, one or two options out of nine at a time, 1 or 2 updates, one failing statement or restart in most of them; a text that is malformed, and one that the loop panics on | nodes that were given the same text charge the same (`ChargesAsGiven`); a node is behind a row only for a named cause (`BehindHasCause`), and not for ever while it runs; it does not run on with a row that the loop panics on (`Converges`) |

The longest runs (`billing_faults`, `accounts`, `settings`, `batch`, `vscode`) take one to
three minutes with two workers.

**Why the bounds are enough.** Every update in the billing path names one user or one
token, and requests share nothing else, so a lost update needs two of them; with
3 units of quota and estimates of 1 and 2 a request is trusted, held or refused, and
it ends above its hold (3), at it (speech) or below it (a refund). A disagreement of two tables needs two
operations on one channel, three when a test lists it first; the theorems of
`ChannelStatus_proofs` remove the bound for the safety properties.
Three channels give a list with a shared highest priority and a rest; two retries are
the shortest run in which a retry can return to the first channel. Six outcomes fill
a window of two, overrun it and start again, with a judgement that is torn. Two requests more than the Redis bound
are let through in `limiter`, and its clock passes the expiration. A stream handler
keeps only its usage, the length of its text and whether `[DONE]` was seen, so three
items reach every pair of a state and an item; three turns are a system prompt, or two,
with a question before or after (`Adaptors_proofs` removes the bounds on turns, items and
reports). Every statement on a row comes from one handler, so two
handlers give all the overlaps of a pair; the families keep operations together that
write the same columns, and the third operation is the one that notices;
`Accounts_proofs` removes these bounds. Two nodes, two
editors and two updates are enough for an editor to be overtaken by another, by a poll
and by a restart, and for a text that ends a program to be replaced before every node has
read it; `Settings_proofs` removes the bounds for `ChargesAsGiven` and
`BehindHasCause`.

**Deadlock** is checked in `adaptors`, where an ended request stutters (`Finished`) and
any other state without a step would be a handler that is stuck. Elsewhere it is not:
requests, posts or ticks are bounded, and a state in which all have ended, or the
process is down, is a normal end. That
something which must go on does go on is stated by the liveness properties.

**Fairness**, only where the code's scheduling gives it:
- `RelayBilling`: weak fairness of a request's own statements before and after the
  upstream call. A goroutine that can run does run; the database answers or fails.
  The upstream call is *not* fair: `RELAY_TIMEOUT` is unset by default.
- `BatchUpdater`: weak fairness of the goroutine, an endless loop with a sleep.
- `ChannelStatus`: weak fairness of the refresh, an endless loop started by `main.go`.
  Tests and administrators are not fair.
- `RelayRetry`: weak fairness of the loop and of the reports. That an attempt ends
  holds only for a deployment that sets `RELAY_TIMEOUT`; `RequestEnds` is about those.
- `ChannelMetric`: weak fairness of the consumers, strong fairness of each blocked
  send: the runtime serves the senders of a Go channel in order.
- `VSCodeAuth`: weak fairness of a log-in under way and of the clean-up loop.
- `Adaptors`: weak fairness of the code, and of a channel that has begun an answer: it
  sends the next item or ends, as the number of items is bounded. Clients need not
  leave. For replicate, whose code polls without a bound, strong fairness of the end of
  its task; for ali nothing of the kind is assumed, since the code counts its polls.
- `Settings`: weak fairness of an update under way and of the polling loop, which
  `main.go` starts on nodes with Redis or the memory cache; strong fairness of taking the
  mutex, which Go's `sync` hands to a waiter after a millisecond. Administrators and
  faults are not fair; their number is bounded. Whether a program that is down is started
  again is not up to the code, so `Converges` is about the nodes that run.
- `Accounts` states no liveness.

## Proofs

Every invariant and every action property that a passing run checks is proved, and the
refinement of `WriteBehind`. All are for every value of the constants under the named
`ASSUME`s, which state types, that model values differ from real values, that channels
and goroutines are finitely many, and for the limiter what `config.go` asks of durations.
TLC evaluates the assumptions in every run. `ChannelStatus_proofs` is about the three
modules that share `Gateway`'s channels: `ChannelStatus`, `ChannelMetric`, `RelayRetry`.

- **`RelayBilling_proofs`.** `SettlementMatchesOutcome` is not inductive: what a
  settlement takes is right only because of what earlier statements left in the
  request. `Phase(r)` says, for each value of `pc[r]`, which statements have taken
  effect and what the locals hold; a step of one request leaves the others' phases
  alone (`OneRelay`), and each of its actions moves its own phase on. From it follow
  `Settlement`, `Agreement` and, with the effect of every statement on the user's row,
  `Balance`. `TypeCorrect` is proved first. `Sticky` needs that a key without a lifetime
  only goes down until the next `SET`. `Closing` is `BooksClose`, which compares quota and
  used quota with a sum over all requests. The library has no facts about such folds that
  can be used here, so lemmas build the partial sums of a finite set (`SumsExist`) and say
  that a step moves the sum by what it moves of one request (`SumChange`).
- **`BatchUpdater_proofs`.** `Conserved` is inductive with the types: for every
  counter, posted = in the row + waiting + in the batch + lost. Each action moves an
  amount between two of these. `Refinement` shows that every step is, for each
  counter, a step of `WriteBehind` or a stutter.
- **`ChannelStatus_proofs`.** The inductive invariant joins `TypeInv`, `NewOk` (a
  channel whose row does not exist is unknown to everyone), `AllSound` (a channel that
  is not suspect has at most one operation under way, its tables are as far as that
  operation has brought them, and without one they agree), `CacheIsCurrent` and
  `SeenOk` (the same for the refresh in progress). One effect lemma per action says
  what it moves. `TablesInStep`, `CacheCurrent` and `PanicCause` follow.
  `MetricCause` is `DisabledForCause`: `MetricInv` says that no window in the map, and no
  slice that a consumer has yet to write back, holds more outcomes of a kind than that
  kind's consumer has put into the map (`Genuine`). Overwriting another's window loses
  outcomes and never invents one, so a full window of failures was earned (`Cause`). A
  judgement that was not torn is of one window (`Judged`: its three readings agree); of one that was,
  what is left is that a success was written meanwhile, and that the outcomes were there.
  `RetryReported` is `FailuresReported`: each failed attempt waits to be reported or was
  reported, once and against its own channel (`Once`), whatever the context of the request
  holds by then. `RetryDraws` is `DrawsAgree`: a finite set of channels has a list by
  priority (`ListExists`), and the scan of any such list ends after the channels of the
  highest priority (`EndOfFirst`, `CacheDraws`).
- **`RateLimiter_proofs`.** In memory the queue is the end of the list of all
  requests let through (`Suffix`), times do not decrease (`Ordered`), and what a queue
  with room left has forgotten is at least `duration` old (`Stale`); that is where
  `duration <= Expiration` is needed. `MemoryWindow` follows. `Refusals` counts: a full
  queue whose oldest entry is recent is `maxRequestNum` recent requests, with Redis the
  entry that a request was refused for is one. `Overshoot` is the bound in Redis, and
  needs a measure (`Potential`): once a duration holds `maxRequestNum` requests, those let
  through since its first, the goroutines that saw room and have yet to push, and those
  that may still pass by an old time together never exceed the bound. A step turns one that
  may pass into one that has, and a goroutine can be counted twice only if another is
  behind it (`SomeBarred`); the key does not vanish meanwhile (`Dated`).
- **`Settings_proofs`.** `ChargesAsGiven` is not inductive: what a node shows may have
  entries that the text it was given has not, and what it uses differs from what it shows
  while the mutex is held. `IInv` says who holds the mutex and for which option
  (`Holders`, `Held`), that every other variable is what is shown (`Applied`), and that
  what is shown is the text given or that text with the missing entries (`Sources`).
  `AddingKeepsPrices` then does the rest: the look-up asks the table and the defaults in
  such an order that adding defaults changes no price.
  `BehindForCause` needs `Causes`: what a poll has read (`Polled`), or is applying
  (`Taken`), is the row of the database or was written since.
- **`VSCodeAuth_proofs`.** `TokenOfItsUser` is that a token, stored or answered, is that
  of a user who logged in for that session. It holds through sessions that are deleted
  and stored again because a log-in never takes back what it wrote (`WroteStays`);
  `Origin` traces each token to such a log-in. `RevivedByLocalsOnly` is the action
  property `NoRevivalByCallback`; it needs `Held`: while a callback holds the mutex, its
  session stays in the map.
- **`Accounts_proofs`.** `IInv` joins the types with what each handler carries: a
  copy about to be written is of a row that exists, and unless that row changed meanwhile
  (`stale`) it agrees with the row in every column that the request is not about. That is
  what `LossHasItsCause` needs, since gorm writes all of the copy; columns in `unwritten`, whose
  change was reported and left out, are exempt until they are written.
  `OneUserPerIdentity`, `PaidOncePerOpening`, `ResetCodesServeOnce` and `BansFollowRows`
  each add an invariant of their own: `Identities` (while a handler that was rightly told that the
  identity is free has yet to write it, nobody has it), `Payments` (an open code has an excuse for every
  payment), `ResetCodes` and `Used` (a reset code is on one node; one that was used is about
  to be deleted), `Bans` (a handler between its ban and its write). `RightsAreGiven` is the
  action property `RightsFollowRoles`.
- **`Adaptors_proofs`.** `ItemEffect` says, adaptor by adaptor, what a handler does with
  any item from any state: which chunk it renders, what it adds to the text, which usage it
  keeps, when it marks the end. `BodyStreamIs` says what a whole body can come to.
  `IInv` lifts this to the stream: the chunks so far are those due (`Rendered`), nothing
  precedes an error (`Quiet`), the mark is the last chunk and there (`Marked`, `Closed`),
  the text counts what was received (`Counted`), the usage is the last report, the sum of
  the reports or the last that gave a completion (`Kept`), and the charge is made of it
  (`Returned`, `Charged`); for xunfei `Producing` says what the second goroutine holds.
  `GoroutineEnds`, `ErrorsAreSilent`, `StreamsAreClosed`, `TextOnceInOrder` and
  `FreeTextForCause` follow, for streams of any length and reports of any numbers.
  `TurnsSent` is `TurnsDroppedByRule` for conversations of any length. `Loop` says that a
  loop over a list is a recursive function, which exists; `ChosenAsks` and `GeminiLoop`
  follow the two loops of the conversions by it, and one lemma per adaptor (`BaiduFollows`,
  `GeminiFollows`, ...) shows that its request `Follows` the rule: `Asks(t, K)` says that
  the turns `t` are those at the places in `K`, once each and in order.

The proofs corrected the models where TLC's bounds had hidden something: a code can be
opened again by an edit that was read before it was redeemed (`PaidOnce` now counts
openings); text can also be free when a report has no prompt, and with baidu, whose
completion is the rest of a total (`FreeTextHasCause`); and `CASE`s of `Accounts` and
`Adaptors` with overlapping guards were made disjoint.

Some definitions were restated so that they could be reasoned about, with TLC comparing old
and new: the conversions append turns by a recursive function (`Chosen`) in place of
`SelectSeq` and a fold, the list of channels by priority is any list that is sorted
(`Sorted`), and a window is counted by `Cardinality`.

**Only model-checked.** The liveness properties `SettlementCompletes`, `SumsAreWritten`,
`DisabledLeavesCache`, `RequestEnds`, `OutcomesConsumed`, `ForgottenOnceExpired`, `CallEnds`
and `Converges`: they need fairness, and the provers have no rules for `ENABLED`.
Recursive functions (`Chosen`, `SumsExist`) are reasoned about by well-founded induction
over naturals, each by itself, since the library's induction theorems cannot be applied.

## Findings

`billing_unmetered`: an answer without usage keeps its hold, although the comment in
`postConsumeQuota` says it must not just return (`relay/controller/helper.go:98`).
`Adaptors` shows where such answers come from: `Settle` leaves the hold when an adaptor
returns no usage, as zhipu's does when a stream ends without its report.

## Observations

Behaviour met while modelling, which the models reproduce and no run judges. Several
modules end with statements that do not hold, for a reader who wants TLC to show why:
give the module's `.cfg` the statement as its invariant.

Disagreements with a document or a comment:

- Two polls can get the token of one session (`ReturnedOnce`, with two `Polls`): the
  session is deleted by a goroutine, and a log-in under way stores it again.
  `VSCode_Integration_Architecture.md:220` says "Only return token once per session"
  (`controller/vscode_auth.go:183`).
- A purge of disabled channels during a test leaves enabled abilities without a channel
  (`NoOrphanAbility`; `model/channel.go:222`); `middleware/distributor.go` calls that a
  broken database.
- An attempt that fails while copying the body has written the header; the retry writes
  a second answer (`AnsweredOnce`; `relay/adaptor/openai/main.go:132`, against the
  comment at line 122).
- Two users can bind one address (`EmailUnique`): `EmailBind` has "no need to check if
  this email already taken, because we have used verification code to check it"
  (`controller/user.go:836`), but a code stays valid after its use; only a password reset
  deletes its key (`controller/misc.go:221`).
- The README of the repository says of `SYNC_FREQUENCY` "If not set, no sync will happen";
  `main.go` polls every 600 s by default, and only with Redis or the memory cache.
- `controller/option.go:65` refuses to restrict addresses while the list of domains is
  empty, but an empty text is split into one empty domain, and the refusal never comes.

Requests and channels:

- A text request whose upstream cannot be reached keeps its hold
  (`TextUnreached`; only an error answer returns it).
- Image and audio requests that fail after they were charged are charged again by a
  retry; only text is charged once.
- A poll may see a completed session whose token is not yet written, and a second
  log-in completes a completed session (`CompletedCarriesToken` and
  `CompletedFromPending` in `VSCodeAuth` do not hold). `InitVSCodeAuth` hands the
  request on after its body was read.
- `testAllChannelsRunning` stays set when the channels cannot be listed; tests are
  then refused until a restart. A test enables again a channel that an administrator
  disabled by hand after it was listed.
- `InitChannelCache` writes to a nil map for a channel whose group has no ability; a
  process that ended between a channel's two inserts panics at every start. It looks at
  the error of neither query: one that fails empties the routing table until the next
  refresh (`model/cache.go:176`), the other ends the process (line 181).
- `UpdateUserUsedQuotaAndRequestCount` only logs its error: the charge is then missing in
  `used_quota`.
- The comment "BUG: bizErr is in race condition" in `controller/relay.go` is stale:
  the loop reassigns it in one goroutine. After the first retriable error later errors
  are not classified again. The system prompt a failed channel forced stays in the
  context (`PromptOfChannel` does not hold). The success of a retry is not reported.
  A user's own 403 counts against the channel.
- The draw from the cache and the draw from the table differ when no priority is
  positive, and for every draw after the first.
- The metric window can exceed `METRIC_QUEUE_SIZE` (`WindowBounded`), and outcomes are
  lost between the consumers. `monitor/metric.go:24-33` reads the window three times: a
  success that is appended between the count and the lengths makes the rate too low and may
  disable a good channel (`AlwaysForCause`).
- Channels that mark the end in the bare form, `[DONE]` without `data:`, make the openai
  handler close the stream twice. Palm's stream sends its JSON encoded twice.
- gemini puts its "Okay" placeholder after a question that follows a system prompt.
  cohere and palm panic, on content that is a list and when a body cannot be read; the
  hold is left, as it is when a request cannot be converted or sent.
- A client that leaves a stream of aws or xunfei is not charged for its completion, and
  xunfei's reading goroutine then waits for ever. Embeddings of ali, tencent, ollama and
  gemini, and answers of aiproxy, are charged nothing; llama's stream that ends by
  length is not metered. Images of ali may come without an image.
- replicate is polled without a bound.
- A report without a prompt has its completion recomputed as the total less the counted
  prompt, which may leave nothing to charge (`relay/adaptor/openai/adaptor.go:116`); baidu's
  completion is always the total less the prompt (`relay/adaptor/baidu/main.go:159`).

Accounts:

- `Redeem` asks for a row lock by an option of gorm v1 that v2 ignores, so two requests can be
  paid; an edit of the code writes back the status it read, and `Redeem`'s `Save` creates a
  deleted code again.
- Handlers that write a whole row back restore quota, role and status from their copy.
- The routes that bind an identity look at the cookie alone, so that a banned user may
  bind. A first log-in by another service takes an address over without a check.
- `UpdateUser` logs a change of quota to 0, and answers it as done, that `Updates` does
  not write (`controller/user.go:520`). An administrator may give any role below his own,
  most of which the program does not know (line 509). A status other than 1 and 2 is
  written and neither bans nor releases (`model/user.go:174`).
- An identity counts as free when the query for it fails (`model/user.go:268-287`), so a
  taken one is bound again. The errors of `FillUserById` and of the two invitation bonuses,
  which are logged as paid, are dropped.

Settings:

- A malformed table has been saved, and has replaced the old one, before its error is
  reported. The row of a new option is empty between two statements, and a poll in
  between empties a table on other nodes. A value whose `Save` failed and that has no row
  stays on its node until a restart.
- The text `null` for `ModelRatio` is accepted and saved; the polling loop, and every start,
  then panics on a nil map (`relay/billing/ratio/model.go:660`), on all nodes, until the row
  is changed in the database or by a node that has not polled yet.
- `CompletionRatio` is filled without a lock: readers meanwhile charge by default ratios
  or end the process.

Limits:

- The Redis limiter can be exceeded further when the key expires between `LPUSH` and
  `EXPIRE`.
- The README of the repository gives limits of 180 and 60 where `config.go` has 480
  and 240, and describes a periodic update of balances that `main.go` does not start.

## Not modelled

Formats, field names and signatures of the vendors, prices as floats, network and mail
I/O, the web front ends, logs and dashboards keep no state that two actors share. The
balance of a channel (`controller/channel-billing.go`) is one request and one column, and
the loop that would refresh it is not started. Start-up runs once, in one goroutine.
vertexai serves gemini's and anthropic's handlers under another address. `Adaptors` leaves
tools out: they change what a turn holds, not which turns are sent. `PROJECT.json` has the
reason for every component.

## Plan

Done, in the order of importance: `RelayBilling`, `BatchUpdater` with `WriteBehind`,
`ChannelStatus`, `RelayRetry`, `ChannelMetric`, `VSCodeAuth`, `RateLimiter`; then
`Adaptors`, `Accounts`, `Settings`; proofs of every safety property the runs check.
To come:

1. **Composition** of `ChannelStatus`, `ChannelMetric` and `RelayRetry`, which share the
   channels (`Gateway`) and draw freely what they would learn from each other: which
   channels serve, which outcomes are reported, which channel is disabled. The theorems of
   each would carry over.
2. **Composition** of `RelayBilling` with `BatchUpdater`, through `WriteBehind`: with the
   batch updater on, pre-consumption compares with columns that do not show what still
   waits in memory (`model/token.go:225`).
3. **Outcomes**: `RelayBilling` and `RelayRetry` draw what an attempt comes to freely; the
   outcomes of `Adaptors` are a part of these, which a refinement would state.
4. **Token cache**: `CacheGetTokenByKey` and the enabled flag of a user, read-through
   caches with a lifetime, beside `Accounts`.
