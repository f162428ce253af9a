---------------------------- MODULE RelayBilling ----------------------------
(***************************************************************************)
(* The money path of a relayed request: quota is estimated and held before *)
(* the upstream call and settled by a goroutine after it.  Three rows take *)
(* part, none of them in a transaction: the user's quota, the token's      *)
(* remaining quota, and the user's quota cached in Redis.  Every statement *)
(* sent to the database or to Redis is one action; between two of them any *)
(* other relay may run.                                                    *)
(*                                                                         *)
(* A "relay" is one call of RelayTextHelper, RelayAudioHelper (speech or   *)
(* transcription) or RelayImageHelper; a retried client call is several    *)
(* relays.  BATCH_UPDATE_ENABLED is false here (module BatchUpdater has    *)
(* the other case); a token is created and edited elsewhere.               *)
(***************************************************************************)
EXTENDS Integers, FiniteSets, FiniteSetsExt

CONSTANTS
  Users, Tokens, Relays,
  Owner,             \* the user a token belongs to
  Unlimited,         \* the tokens with unlimited_quota
  Estimates,         \* quota a relay may be estimated at
  Charges,           \* quota a relay may turn out to cost
  InitQuota, InitRemain,
  RedisEnabled,
  PreConsumedQuota,  \* config.PreConsumedQuota: a cached quota up to it is re-read
  TrustFactor,       \* the literal 100 of preConsumeQuota
  MaxFaults,         \* bound: database statements (reads too) that fail in one behaviour
  NoValue            \* no such key in Redis

ASSUME BillingAssumption ==
  /\ IsFiniteSet(Relays)
  /\ Owner \in [Tokens -> Users]
  /\ Unlimited \subseteq Tokens
  /\ Estimates \subseteq Nat /\ Charges \subseteq Nat
  /\ InitQuota \in [Users -> Int] /\ InitRemain \in [Tokens -> Int]
  /\ RedisEnabled \in BOOLEAN
  /\ PreConsumedQuota \in Nat /\ TrustFactor \in Nat /\ MaxFaults \in Nat
  /\ NoValue \notin Int

VARIABLES
  quota,      \* users.quota
  usedQuota,  \* users.used_quota
  remain,     \* tokens.remain_quota
  tokens,     \* the token rows that exist
  cached,     \* Redis user_quota:<id>
  sticky,     \* that key has no expiry
  relay,      \* the local variables of every relay
  pc,         \* its next statement
  did,        \* the writes it has made, or missed
  fate,       \* what became of it
  faults      \* failed database statements so far

rows == <<quota, remain, usedQuota>>
redis == <<cached, sticky>>
world == <<rows, redis, tokens, faults>>
vars == <<world, relay, pc, did, fate>>

Kinds == {"text", "speech", "transcription", "image"}
Fates == {"none", "rejected", "dropped", "failed", "unmetered", "garbled", "served"}
Steps == {"idle", "quota", "fill", "admit", "checkToken", "checkUser",
          "holdToken", "holdUser", "upstream", "settle", "settleUser",
          "settleToken", "recache", "refill", "reset", "stats", "done"}
Deeds == {"heldTok", "held", "settled", "settledTok", "skipped", "hit", "unrecorded"}
Relay == [kind : Kinds, token : Tokens, pre : Nat, charge : Nat, seen : Int]

Init ==
  /\ quota = InitQuota /\ remain = InitRemain
  /\ usedQuota = [u \in Users |-> 0]
  /\ tokens = Tokens
  /\ cached = [u \in Users |-> NoValue] /\ sticky = [u \in Users |-> FALSE]
  /\ relay \in [Relays -> [kind : {"text"}, token : Tokens,
                            pre : {0}, charge : {0}, seen : {0}]]
  /\ pc = [r \in Relays |-> "idle"]
  /\ did = [r \in Relays |-> {}]
  /\ fate = [r \in Relays |-> "none"]
  /\ faults = 0

UserOf(r) == Owner[relay[r].token]
Limited(r) == relay[r].token \notin Unlimited
At(r, step) == pc[r] = step
Goto(r, step) == pc' = [pc EXCEPT ![r] = step]
Mark(r, deed) == did' = [did EXCEPT ![r] = @ \cup {deed}]
Become(r, f) == fate' = [fate EXCEPT ![r] = f]
Finish(r, f) == Goto(r, "done") /\ Become(r, f)

\* What the user check compares with: the estimate, for images the price.
Need(r) == IF relay[r].kind = "image" THEN relay[r].charge ELSE relay[r].pre

-----------------------------------------------------------------------------
(* Pre-consumption. *)

Begin(r, k, pre, charge) ==
  /\ At(r, "idle") /\ relay[r].token \in tokens
  /\ relay' = [relay EXCEPT ![r] = [kind |-> k, token |-> @.token, seen |-> 0,
                                   pre |-> pre, charge |-> charge]]
  /\ Goto(r, "quota")
  /\ UNCHANGED <<world, did, fate>>

\* The helper parses the request and estimates its cost e.
ArriveText(r, e) == Begin(r, "text", e, 0)
\* Speech is priced at its estimate; a transcription is measured afterwards.
ArriveAudio(r, e) == Begin(r, "speech", e, e) \/ Begin(r, "transcription", e, 0)
\* An image is priced on arrival and never held.
ArriveImage(r, e) == Begin(r, "image", 0, e)

\* A cached quota is used unless it is missing or too low.
CacheUsable(u) == RedisEnabled /\ cached[u] # NoValue /\ cached[u] > PreConsumedQuota

\* CacheGetUserQuota: from Redis, or from the database (and then into Redis).
ReadQuota(r, from, fill, next) ==
  LET u == UserOf(r) IN
  /\ At(r, from)
  /\ relay' = [relay EXCEPT ![r].seen = IF CacheUsable(u) THEN cached[u] ELSE quota[u]]
  /\ Goto(r, IF CacheUsable(u) \/ ~RedisEnabled THEN next ELSE fill)
  /\ UNCHANGED <<world, did, fate>>

\* RedisSet with an expiry of the quota read before.
StoreQuota(r, from, next) ==
  LET u == UserOf(r) IN
  /\ At(r, from)
  /\ cached' = [cached EXCEPT ![u] = relay[r].seen]
  /\ sticky' = [sticky EXCEPT ![u] = FALSE]
  /\ Goto(r, next)
  /\ UNCHANGED <<rows, tokens, faults, relay, did, fate>>

GetQuota(r) == ReadQuota(r, "quota", "fill", "admit")
FillQuota(r) == StoreQuota(r, "fill", "admit")

\* Faulty variant: the hold is added to the cached quota.
CacheIncrease(u, n) ==
  /\ cached' = [cached EXCEPT ![u] = (IF @ = NoValue THEN 0 ELSE @) + n]
  /\ sticky' = [sticky EXCEPT ![u] = @ \/ cached[u] = NoValue]

\* CacheDecreaseUserQuota: DECRBY, which creates a missing key without expiry.
CacheDecrease(u, n) ==
  IF RedisEnabled
  THEN /\ cached' = [cached EXCEPT ![u] = (IF @ = NoValue THEN 0 ELSE @) - n]
       /\ sticky' = [sticky EXCEPT ![u] = @ \/ cached[u] = NoValue]
  ELSE UNCHANGED redis

\* A user with plenty is trusted: nothing is held in the database.
TrustedPre(r) ==
  IF relay[r].seen > TrustFactor * relay[r].pre THEN 0 ELSE relay[r].pre

Reject(r) ==
  /\ At(r, "admit") /\ relay[r].seen - Need(r) < 0
  /\ Finish(r, "rejected")
  /\ UNCHANGED <<world, relay, did>>

Admit(r) ==
  /\ At(r, "admit") /\ relay[r].kind # "image" /\ relay[r].seen - Need(r) >= 0
  /\ CacheDecrease(UserOf(r), relay[r].pre)
  /\ relay' = [relay EXCEPT ![r].pre = TrustedPre(r)]
  /\ Goto(r, IF TrustedPre(r) > 0 THEN "checkToken" ELSE "upstream")
  /\ UNCHANGED <<rows, tokens, faults, did, fate>>

AdmitImage(r) ==
  /\ At(r, "admit") /\ relay[r].kind = "image" /\ relay[r].seen - Need(r) >= 0
  /\ Goto(r, "upstream")
  /\ UNCHANGED <<world, relay, did, fate>>

\* A query that fails ends the helper with an error; only the image helper ignores
\* the error and goes on with a quota of 0.
ReadFails(r) ==
  /\ pc[r] \in {"quota", "checkToken", "checkUser"} /\ faults < MaxFaults
  /\ At(r, "quota") => ~CacheUsable(UserOf(r))
  /\ faults' = faults + 1
  /\ IF relay[r].kind = "image" THEN Goto(r, "admit") /\ UNCHANGED fate
                                 ELSE Finish(r, "rejected")
  /\ UNCHANGED <<rows, redis, tokens, relay, did>>

\* PreConsumeTokenQuota reads the token, then the user's quota, and refuses
\* when either is short; then it lowers the token, then the user.
TokenShort(r) ==
  LET t == relay[r].token IN t \notin tokens \/ (Limited(r) /\ remain[t] < relay[r].pre)

CheckToken(r) ==
  /\ At(r, "checkToken")
  /\ IF TokenShort(r) THEN Finish(r, "rejected")
                      ELSE Goto(r, "checkUser") /\ UNCHANGED fate
  /\ UNCHANGED <<world, relay, did>>

CheckUser(r) ==
  /\ At(r, "checkUser")
  /\ IF quota[UserOf(r)] < relay[r].pre
     THEN Finish(r, "rejected")
     ELSE Goto(r, IF Limited(r) THEN "holdToken" ELSE "holdUser") /\ UNCHANGED fate
  /\ UNCHANGED <<world, relay, did>>

\* DecreaseTokenQuota, IncreaseTokenQuota: an UPDATE of no row if it was deleted.
TakeFromToken(t, n) ==
  /\ remain' = [remain EXCEPT ![t] = IF t \in tokens THEN @ - n ELSE @]
  /\ UNCHANGED <<quota, usedQuota>>
\* DecreaseUserQuota, IncreaseUserQuota.
TakeFromUser(u, n) ==
  /\ quota' = [quota EXCEPT ![u] = @ - n]
  /\ UNCHANGED <<remain, usedQuota>>

HoldToken(r) ==
  /\ At(r, "holdToken")
  /\ TakeFromToken(relay[r].token, relay[r].pre)
  /\ Goto(r, "holdUser") /\ Mark(r, "heldTok")
  /\ UNCHANGED <<redis, tokens, faults, relay, fate>>

HoldUser(r) ==
  /\ At(r, "holdUser")
  /\ TakeFromUser(UserOf(r), relay[r].pre)
  /\ Goto(r, "upstream") /\ Mark(r, "held")
  /\ UNCHANGED <<redis, tokens, faults, relay, fate>>

\* The statement fails: the helper answers 403 and leaves what was done.
HoldFails(r) ==
  /\ pc[r] \in {"holdToken", "holdUser"} /\ faults < MaxFaults
  /\ faults' = faults + 1
  /\ Finish(r, "rejected") /\ Mark(r, "hit")
  /\ UNCHANGED <<rows, redis, tokens, relay>>

-----------------------------------------------------------------------------
(* The upstream call: what it may come to, and who is refunded. *)

\* ReturnPreConsumedQuota, and the deferred roll back of the audio helper:
\* nothing to do if nothing was held, else a goroutine.
Refund(r) ==
  /\ relay' = [relay EXCEPT ![r].charge = 0]
  /\ Become(r, "failed") /\ Goto(r, IF relay[r].pre > 0 THEN "settle" ELSE "done")
GiveUp(r, f) == Finish(r, f) /\ UNCHANGED relay

Upstreaming(r, kinds) == At(r, "upstream") /\ relay[r].kind \in kinds
Audio == {"speech", "transcription"}

\* Text: no adaptor, the request cannot be converted, or DoRequest fails; the
\* helper returns without a refund.
TextUnreached(r) ==
  /\ Upstreaming(r, {"text"})
  /\ GiveUp(r, "dropped")
  /\ UNCHANGED <<world, did>>

\* Faulty variant: an error answer is returned without a refund.
TextErrorKept(r) ==
  /\ Upstreaming(r, {"text"})
  /\ GiveUp(r, "failed")
  /\ UNCHANGED <<world, did>>

\* Text: the answer is an error, or its body cannot be used.
TextError(r) ==
  /\ Upstreaming(r, {"text"})
  /\ Refund(r)
  /\ UNCHANGED <<world, did>>

\* Text: the adaptor returns neither an error nor a usage, and postConsumeQuota
\* returns at once.
TextUnmetered(r) ==
  /\ Upstreaming(r, {"text"})
  /\ GiveUp(r, "unmetered")
  /\ UNCHANGED <<world, did>>

\* Text: the answer was relayed and is metered at q.
TextServed(r, q) ==
  /\ Upstreaming(r, {"text"})
  /\ relay' = [relay EXCEPT ![r].charge = q]
  /\ Goto(r, "settle") /\ Become(r, "served")
  /\ UNCHANGED <<world, did>>

\* Audio: any failure before the answer is relayed rolls the hold back.
AudioFails(r) ==
  /\ Upstreaming(r, Audio)
  /\ Refund(r)
  /\ UNCHANGED <<world, did>>

AudioServed(r, q) ==
  /\ Upstreaming(r, Audio)
  /\ relay' = [relay EXCEPT ![r].charge = IF relay[r].kind = "speech" THEN @ ELSE q]
  /\ Goto(r, "settle") /\ Become(r, "served")
  /\ UNCHANGED <<world, did>>

\* Image: DoRequest fails or the status is bad; nothing was held.
ImageFails(r) ==
  /\ Upstreaming(r, {"image"})
  /\ GiveUp(r, "failed")
  /\ UNCHANGED <<world, did>>

\* Image: once the status is good the deferred function bills the relay, also
\* when the body is of no use and the client gets an error.
ImageAnswered(r) ==
  /\ Upstreaming(r, {"image"})
  /\ Goto(r, "settle") /\ (Become(r, "served") \/ Become(r, "garbled"))
  /\ UNCHANGED <<world, relay, did>>

-----------------------------------------------------------------------------
(* Settlement: PostConsumeTokenQuota(token, charge - pre), then the cache and  *)
(* the statistics when the relay is billed.                                    *)

Delta(r) == relay[r].charge - relay[r].pre
Billed(r) == fate[r] \in {"served", "garbled"}
AfterSettling(r) == IF Billed(r) THEN "recache" ELSE "done"

\* GetTokenById: a deleted token (or a failed read) ends the settlement.
SettleRead(r) ==
  /\ At(r, "settle") /\ relay[r].token \in tokens
  /\ Goto(r, "settleUser")
  /\ UNCHANGED <<world, relay, did, fate>>

SettleSkip(r) ==
  /\ At(r, "settle") /\ (relay[r].token \notin tokens \/ faults < MaxFaults)
  /\ faults' = IF relay[r].token \in tokens THEN faults + 1 ELSE faults
  /\ Goto(r, AfterSettling(r)) /\ Mark(r, "skipped")
  /\ UNCHANGED <<rows, redis, tokens, relay, fate>>

\* Faulty variant: a refund stops at the user.
AfterUserCharge(r) == IF Limited(r) /\ Delta(r) > 0 THEN "settleToken" ELSE AfterSettling(r)
AfterUser(r) == IF Limited(r) THEN "settleToken" ELSE AfterSettling(r)

\* Faulty variant: the quota read at admission is written back.
SettleUserStale(r) ==
  /\ At(r, "settleUser")
  /\ quota' = [quota EXCEPT ![UserOf(r)] = relay[r].seen - Delta(r)]
  /\ Goto(r, AfterUser(r)) /\ Mark(r, "settled")
  /\ UNCHANGED <<remain, usedQuota, redis, tokens, faults, relay, fate>>

SettleUser(r) ==
  /\ At(r, "settleUser")
  /\ TakeFromUser(UserOf(r), Delta(r))
  /\ Goto(r, AfterUser(r)) /\ Mark(r, "settled")
  /\ UNCHANGED <<redis, tokens, faults, relay, fate>>

SettleToken(r) ==
  /\ At(r, "settleToken")
  /\ TakeFromToken(relay[r].token, Delta(r))
  /\ Goto(r, AfterSettling(r)) /\ Mark(r, "settledTok")
  /\ UNCHANGED <<redis, tokens, faults, relay, fate>>

\* The error of the first statement is overwritten, that of the second logged.
SettleFails(r) ==
  /\ pc[r] \in {"settleUser", "settleToken"} /\ faults < MaxFaults
  /\ faults' = faults + 1
  /\ Goto(r, IF At(r, "settleUser") THEN AfterUser(r) ELSE AfterSettling(r))
  /\ Mark(r, "hit")
  /\ UNCHANGED <<rows, redis, tokens, relay, fate>>

\* CacheUpdateUserQuota: CacheGetUserQuota, then RedisSet of what it returned.
RereadQuota(r) == RedisEnabled /\ ReadQuota(r, "recache", "refill", "reset")
\* A failed query is logged, and the cache left alone.
RereadFails(r) ==
  /\ RedisEnabled /\ At(r, "recache") /\ ~CacheUsable(UserOf(r)) /\ faults < MaxFaults
  /\ faults' = faults + 1
  /\ Goto(r, "stats")
  /\ UNCHANGED <<rows, redis, tokens, relay, did, fate>>
RefillQuota(r) == StoreQuota(r, "refill", "reset")
ResetQuota(r) == StoreQuota(r, "reset", "stats")

\* Faulty variant: without Redis the goroutine waits for it.
SkipRecacheWaits(r) ==
  /\ RedisEnabled /\ At(r, "recache")
  /\ Goto(r, "stats")
  /\ UNCHANGED <<world, relay, did, fate>>

SkipRecache(r) ==
  /\ ~RedisEnabled /\ At(r, "recache")
  /\ Goto(r, "stats")
  /\ UNCHANGED <<world, relay, did, fate>>

\* Faulty variant: the difference is recorded instead of the whole charge.
RecordDelta(r) ==
  /\ At(r, "stats")
  /\ usedQuota' = [usedQuota EXCEPT ![UserOf(r)] = @ + Delta(r)]
  /\ Goto(r, "done")
  /\ UNCHANGED <<quota, remain, redis, tokens, faults, relay, did, fate>>

\* UpdateUserUsedQuotaAndRequestCount.
RecordUsage(r) ==
  /\ At(r, "stats")
  /\ usedQuota' = [usedQuota EXCEPT ![UserOf(r)] = @ + relay[r].charge]
  /\ Goto(r, "done")
  /\ UNCHANGED <<quota, remain, redis, tokens, faults, relay, did, fate>>

\* The statement fails: the error is only logged.
RecordFails(r) ==
  /\ At(r, "stats") /\ faults < MaxFaults
  /\ faults' = faults + 1
  /\ Goto(r, "done") /\ Mark(r, "unrecorded")
  /\ UNCHANGED <<rows, redis, tokens, relay, fate>>

-----------------------------------------------------------------------------
(* The surroundings. *)

local == <<relay, pc, did, fate>>

DeleteToken(t) ==
  /\ t \in tokens
  /\ tokens' = tokens \ {t}
  /\ UNCHANGED <<rows, redis, faults, local>>

\* The key's time to live runs out.
ExpireQuota(u) ==
  /\ cached[u] # NoValue /\ ~sticky[u]
  /\ cached' = [cached EXCEPT ![u] = NoValue]
  /\ UNCHANGED <<rows, sticky, tokens, faults, local>>

Arrive(r) == \E e \in Estimates : ArriveText(r, e) \/ ArriveAudio(r, e) \/ ArriveImage(r, e)

PreConsume(r) ==
  \/ GetQuota(r) \/ FillQuota(r) \/ Reject(r) \/ Admit(r) \/ AdmitImage(r)
  \/ CheckToken(r) \/ CheckUser(r) \/ ReadFails(r)
  \/ HoldToken(r) \/ HoldUser(r) \/ HoldFails(r)

Upstream(r) ==
  \/ TextUnreached(r) \/ TextError(r) \/ TextUnmetered(r)
  \/ AudioFails(r) \/ ImageFails(r) \/ ImageAnswered(r)
  \/ \E q \in Charges : TextServed(r, q) \/ AudioServed(r, q)

Settle(r) ==
  \/ SettleRead(r) \/ SettleSkip(r) \/ SettleUser(r) \/ SettleToken(r) \/ SettleFails(r)
  \/ RereadQuota(r) \/ RereadFails(r) \/ RefillQuota(r) \/ ResetQuota(r) \/ SkipRecache(r)
  \/ RecordUsage(r) \/ RecordFails(r)

Next ==
  \/ \E r \in Relays : Arrive(r) \/ PreConsume(r) \/ Upstream(r) \/ Settle(r)
  \/ \E t \in Tokens : DeleteToken(t)
  \/ \E u \in Users : ExpireQuota(u)

Spec == Init /\ [][Next]_vars
\* The settling goroutines run on; nothing makes the upstream answer.
FairSpec == Spec /\ \A r \in Relays : WF_vars(Settle(r))

-----------------------------------------------------------------------------
(* Properties. *)

\* What the statements of relay r have taken from its user and its token so far.
Holding(r) == IF "settled" \in did[r] THEN relay[r].charge
              ELSE IF "held" \in did[r] THEN relay[r].pre ELSE 0
TokenHolding(r) ==
  (IF "heldTok" \in did[r] THEN relay[r].pre ELSE 0)
    + (IF "settledTok" \in did[r] THEN Delta(r) ELSE 0)
RelaysOf(u) == {r \in Relays : UserOf(r) = u}

TypeOK ==
  /\ quota \in [Users -> Int] /\ remain \in [Tokens -> Int]
  /\ usedQuota \in [Users -> Int]
  /\ tokens \subseteq Tokens
  /\ cached \in [Users -> Int \cup {NoValue}] /\ sticky \in [Users -> BOOLEAN]
  /\ relay \in [Relays -> Relay]
  /\ pc \in [Relays -> Steps] /\ fate \in [Relays -> Fates]
  /\ did \in [Relays -> SUBSET Deeds]
  /\ faults \in 0..MaxFaults

\* The token and its owner, updated by separate statements before and after
\* the upstream call, are charged the same by a relay none of whose statements
\* failed.
TokenAgreesWithUser ==
  \A r \in Relays : At(r, "done") /\ Limited(r) /\ "hit" \notin did[r]
                      => TokenHolding(r) = Holding(r)

\* What a finished relay costs follows from its outcome alone, unless a
\* statement failed or its token was deleted before the settlement.
Owed(r) == CASE fate[r] \in {"rejected", "failed"} -> 0
             [] fate[r] \in {"dropped", "unmetered"} -> relay[r].pre
             [] fate[r] \in {"served", "garbled"} -> relay[r].charge
SettlementMatchesOutcome ==
  \A r \in Relays : At(r, "done") /\ "hit" \notin did[r] /\ "skipped" \notin did[r]
                      => Holding(r) = Owed(r)

\* When nothing is in flight the user's two columns add up to the initial
\* quota, less what was taken from quota and not added to used_quota, plus what was
\* recorded and never charged.  A billed relay is recorded at its charge, unless that
\* last statement itself failed: its error is only logged and the charge is in
\* neither column.
Unrecorded(r) ==
  Holding(r) - IF Billed(r) /\ "unrecorded" \notin did[r] THEN relay[r].charge ELSE 0
BooksClose ==
  \A u \in Users : (\A r \in RelaysOf(u) : pc[r] \in {"idle", "done"}) =>
    quota[u] + usedQuota[u] = InitQuota[u] - MapThenSumSet(Unrecorded, RelaysOf(u))

\* A Redis key that DECRBY created has no expiry; it is never relied on, because
\* it always stays at or below the threshold under which it is re-read.
StickyNeverTrusted ==
  \A u \in Users : sticky[u] => cached[u] # NoValue /\ cached[u] <= PreConsumedQuota

\* A step moves users.quota by exactly what it moves the holding of one relay.
StepBalanced ==
  \E r \in Relays :
    /\ \A s \in Relays \ {r} : Holding(s)' = Holding(s)
    /\ quota' = [quota EXCEPT ![UserOf(r)] = @ - (Holding(r)' - Holding(r))]
EveryStepBalanced == [][StepBalanced]_<<quota, relay, did>>

\* A settlement that began is completed.
SettlementCompletes ==
  \A r \in Relays : At(r, "settle") ~> At(r, "done")

\* postConsumeQuota's comment: "we cannot just return, because we may have to
\* return the pre-consumed quota".
UnmeteredIsRefunded ==
  \A r \in Relays : At(r, "done") /\ fate[r] = "unmetered" => Holding(r) = 0
=============================================================================
