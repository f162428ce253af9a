------------------------ MODULE RelayBilling_proofs -------------------------
(***************************************************************************)
(* Proofs about RelayBilling for every set of users, tokens and relays.    *)
(* The properties are not inductive: what a settlement takes is right only *)
(* because of what the earlier steps left in the relay's record.  Phase    *)
(* says what that is at each step; it is the inductive invariant.          *)
(***************************************************************************)
EXTENDS RelayBilling, FiniteSetTheorems, WellFoundedInduction, TLAPS

\* Updating one field of one relay's locals, with a value of that field's type.
LEMMA FieldTypes ==
  ASSUME relay \in [Relays -> Relay], NEW r \in Relays
  PROVE  /\ \A x \in Int : [relay EXCEPT ![r].seen = x] \in [Relays -> Relay]
         /\ \A x \in Nat : [relay EXCEPT ![r].pre = x] \in [Relays -> Relay]
         /\ \A x \in Nat : [relay EXCEPT ![r].charge = x] \in [Relays -> Relay]
  BY DEF Relay

-----------------------------------------------------------------------------
(* Typing. *)

\* Every variable keeps its type: in particular a hold and a final charge are
\* never negative, so a refund never takes and a charge never gives.
THEOREM TypeCorrect == Spec => []TypeOK
<1>1. Init => TypeOK
  BY BillingAssumption DEF Init, TypeOK, Relay, Steps, Kinds, Fates, Deeds
<1>2. TypeOK /\ [Next]_vars => TypeOK'
  <2> SUFFICES ASSUME TypeOK, [Next]_vars PROVE TypeOK'
    OBVIOUS
  <2> USE BillingAssumption
      DEF TypeOK, Steps, Kinds, Fates, Deeds, At, Goto, Finish, Become, Mark,
          UserOf, world, rows, redis, local
  <2>1. ASSUME NEW r \in Relays, Arrive(r) PROVE TypeOK'
    <3>1. PICK k \in Kinds, p \in Nat, c \in Nat : Begin(r, k, p, c)
      BY <2>1 DEF Arrive, ArriveText, ArriveAudio, ArriveImage
    <3>2. [kind |-> k, token |-> relay[r].token, seen |-> 0, pre |-> p, charge |-> c] \in Relay
      BY DEF Relay
    <3>3. QED
      BY <3>1, <3>2 DEF Begin
  <2>2. ASSUME NEW r \in Relays, GetQuota(r) PROVE TypeOK'
    <3>1. (IF CacheUsable(UserOf(r)) THEN cached[UserOf(r)] ELSE quota[UserOf(r)]) \in Int
      BY DEF CacheUsable, Relay
    <3>2. relay' \in [Relays -> Relay]
      BY <2>2, <3>1, FieldTypes DEF GetQuota, ReadQuota
    <3>3. QED
      BY <2>2, <3>2 DEF GetQuota, ReadQuota
  <2>3. ASSUME NEW r \in Relays, FillQuota(r) PROVE TypeOK'
    BY <2>3 DEF FillQuota, StoreQuota, Relay
  <2>4. ASSUME NEW r \in Relays, Reject(r) PROVE TypeOK'
    BY <2>4 DEF Reject
  <2>5. ASSUME NEW r \in Relays, Admit(r) PROVE TypeOK'
    <3>1. TrustedPre(r) \in Nat
      BY DEF TrustedPre, Relay
    <3>2. relay' \in [Relays -> Relay]
      BY <2>5, <3>1, FieldTypes DEF Admit
    <3>3. UserOf(r) \in Users /\ relay[r].pre \in Nat
      BY DEF Relay
    <3>4. (IF cached[UserOf(r)] = NoValue THEN 0 ELSE cached[UserOf(r)]) - relay[r].pre \in Int
      BY <3>3
    <3>5. cached' \in [Users -> Int \cup {NoValue}]
      BY <2>5, <3>3, <3>4 DEF Admit, CacheDecrease
    <3>6. (sticky[UserOf(r)] \/ cached[UserOf(r)] = NoValue) \in BOOLEAN
      OBVIOUS
    <3>7. sticky' \in [Users -> BOOLEAN]
      BY <2>5, <3>3, <3>6 DEF Admit, CacheDecrease
    <3>8. QED
      BY <2>5, <3>2, <3>5, <3>7 DEF Admit
  <2>6. ASSUME NEW r \in Relays, AdmitImage(r) PROVE TypeOK'
    BY <2>6 DEF AdmitImage
  <2>7. ASSUME NEW r \in Relays, CheckToken(r) PROVE TypeOK'
    BY <2>7 DEF CheckToken, TokenShort
  <2>8. ASSUME NEW r \in Relays, CheckUser(r) PROVE TypeOK'
    BY <2>8 DEF CheckUser
  <2>9. ASSUME NEW r \in Relays, HoldToken(r) PROVE TypeOK'
    BY <2>9 DEF HoldToken, TakeFromToken, Relay
  <2>10. ASSUME NEW r \in Relays, HoldUser(r) PROVE TypeOK'
    BY <2>10 DEF HoldUser, TakeFromUser, Relay
  <2>11. ASSUME NEW r \in Relays, HoldFails(r) PROVE TypeOK'
    BY <2>11 DEF HoldFails
  <2>12. ASSUME NEW r \in Relays, TextUnreached(r) PROVE TypeOK'
    BY <2>12 DEF TextUnreached, Upstreaming, GiveUp
  <2>13. ASSUME NEW r \in Relays, TextError(r) PROVE TypeOK'
    <3>1. [relay EXCEPT ![r].charge = 0] \in [Relays -> Relay]
      BY FieldTypes, 0 \in Nat, Zenon
    <3>2. relay' \in [Relays -> Relay]
      BY <2>13, <3>1, Zenon DEF TextError, Refund
    <3>3. QED
      BY <2>13, <3>2 DEF TextError, Refund
  <2>14. ASSUME NEW r \in Relays, TextUnmetered(r) PROVE TypeOK'
    BY <2>14 DEF TextUnmetered, Upstreaming, GiveUp
  <2>15. ASSUME NEW r \in Relays, AudioFails(r) PROVE TypeOK'
    <3>1. [relay EXCEPT ![r].charge = 0] \in [Relays -> Relay]
      BY FieldTypes, 0 \in Nat, Zenon
    <3>2. relay' \in [Relays -> Relay]
      BY <2>15, <3>1, Zenon DEF AudioFails, Refund
    <3>3. QED
      BY <2>15, <3>2 DEF AudioFails, Refund
  <2>16. ASSUME NEW r \in Relays, ImageFails(r) PROVE TypeOK'
    BY <2>16 DEF ImageFails, Upstreaming, GiveUp
  <2>17. ASSUME NEW r \in Relays, ImageAnswered(r) PROVE TypeOK'
    BY <2>17 DEF ImageAnswered, Upstreaming
  <2>18. ASSUME NEW r \in Relays, SettleRead(r) PROVE TypeOK'
    BY <2>18 DEF SettleRead
  <2>19. ASSUME NEW r \in Relays, SettleSkip(r) PROVE TypeOK'
    BY <2>19 DEF SettleSkip, AfterSettling
  <2>20. ASSUME NEW r \in Relays, SettleUser(r) PROVE TypeOK'
    BY <2>20 DEF SettleUser, TakeFromUser, AfterUser, AfterSettling, Delta, Relay
  <2>21. ASSUME NEW r \in Relays, SettleToken(r) PROVE TypeOK'
    BY <2>21 DEF SettleToken, TakeFromToken, AfterSettling, Delta, Relay
  <2>22. ASSUME NEW r \in Relays, SettleFails(r) PROVE TypeOK'
    BY <2>22 DEF SettleFails, AfterUser, AfterSettling
  <2>23. ASSUME NEW r \in Relays, RereadQuota(r) PROVE TypeOK'
    <3>1. (IF CacheUsable(UserOf(r)) THEN cached[UserOf(r)] ELSE quota[UserOf(r)]) \in Int
      BY DEF CacheUsable, Relay
    <3>2. relay' \in [Relays -> Relay]
      BY <2>23, <3>1, FieldTypes DEF RereadQuota, ReadQuota
    <3>3. QED
      BY <2>23, <3>2 DEF RereadQuota, ReadQuota
  <2>24. ASSUME NEW r \in Relays, RefillQuota(r) PROVE TypeOK'
    BY <2>24 DEF RefillQuota, StoreQuota, Relay
  <2>25. ASSUME NEW r \in Relays, ResetQuota(r) PROVE TypeOK'
    BY <2>25 DEF ResetQuota, StoreQuota, Relay
  <2>26. ASSUME NEW r \in Relays, SkipRecache(r) PROVE TypeOK'
    BY <2>26 DEF SkipRecache
  <2>27. ASSUME NEW r \in Relays, RecordUsage(r) PROVE TypeOK'
    BY <2>27 DEF RecordUsage, Relay
  <2>28. ASSUME NEW r \in Relays, NEW q \in Charges, TextServed(r, q) \/ AudioServed(r, q)
        PROVE  TypeOK'
    <3>1. PICK c \in Nat : relay' = [relay EXCEPT ![r].charge = c]
      <4>1. relay[r].charge \in Nat /\ q \in Nat
        BY DEF Relay
      <4>2. QED
        BY <2>28, <4>1 DEF TextServed, AudioServed
    <3>2. relay' \in [Relays -> Relay]
      BY <3>1, FieldTypes, Zenon
    <3>3. QED
      BY <2>28, <3>2 DEF TextServed, AudioServed
  <2>29. ASSUME NEW t \in Tokens, DeleteToken(t) PROVE TypeOK'
    BY <2>29 DEF DeleteToken
  <2>30. ASSUME NEW u \in Users, ExpireQuota(u) PROVE TypeOK'
    BY <2>30 DEF ExpireQuota
  <2>31. CASE UNCHANGED vars
    BY <2>31 DEF vars, world
  <2>32. ASSUME NEW r \in Relays, ReadFails(r) PROVE TypeOK'
    BY <2>32 DEF ReadFails
  <2>33. ASSUME NEW r \in Relays, RereadFails(r) PROVE TypeOK'
    BY <2>33 DEF RereadFails
  <2>34. ASSUME NEW r \in Relays, RecordFails(r) PROVE TypeOK'
    BY <2>34 DEF RecordFails
  <2>35. QED
    BY <2>1, <2>2, <2>3, <2>4, <2>5, <2>6, <2>7, <2>8, <2>9, <2>10, <2>11, <2>12, <2>13, <2>14, <2>15, <2>16, <2>17, <2>18, <2>19, <2>20, <2>21, <2>22, <2>23, <2>24, <2>25, <2>26, <2>27, <2>28, <2>29, <2>30, <2>31, <2>32, <2>33, <2>34
    DEF Next, PreConsume, Upstream, Settle
<1>3. QED
  BY <1>1, <1>2, PTL DEF Spec

-----------------------------------------------------------------------------
(* The inductive invariant: what the writes of a relay are at each step. *)

Untouched(r) == did[r] \cap {"settled", "settledTok", "skipped", "hit"} = {}

\* The hold is in place on both rows, or there is none.
HoldDone(r) == \/ relay[r].pre = 0
               \/ "held" \in did[r] /\ (Limited(r) => "heldTok" \in did[r])

\* The ways a settlement ends: a statement failed, the token was gone, both
\* rows were settled, or there was nothing to give back.
Closed(r) ==
  \/ "hit" \in did[r]
  \/ HoldDone(r) /\ "skipped" \in did[r] /\ did[r] \cap {"settled", "settledTok"} = {}
  \/ /\ HoldDone(r) /\ "settled" \in did[r] /\ (Limited(r) => "settledTok" \in did[r])
     /\ fate[r] = "failed" => relay[r].charge = 0
  \/ fate[r] = "failed" /\ relay[r].pre = 0 /\ did[r] \cap {"settled", "settledTok"} = {}

Phase(r) ==
  /\ relay[r].kind = "image" => relay[r].pre = 0
  /\ "unrecorded" \in did[r] => pc[r] = "done"
  /\ pc[r] \in {"idle", "quota", "fill", "admit", "checkToken", "checkUser", "holdToken"}
       => did[r] = {}
  /\ pc[r] = "holdUser"
       => Untouched(r) /\ "held" \notin did[r] /\ (Limited(r) => "heldTok" \in did[r])
  /\ pc[r] \in {"upstream", "settle", "settleUser"} => Untouched(r) /\ HoldDone(r)
  /\ pc[r] = "settleToken"
       => \/ "hit" \in did[r]
          \/ HoldDone(r) /\ "settled" \in did[r] /\ did[r] \cap {"skipped", "settledTok"} = {}
  /\ pc[r] \in {"settle", "settleUser", "settleToken"}
       => /\ fate[r] \in {"failed", "garbled", "served"}
          /\ fate[r] = "failed" => relay[r].charge = 0
  /\ pc[r] \in {"recache", "refill", "reset", "stats"} => Billed(r) /\ Closed(r)
  /\ pc[r] = "done"
       => \/ fate[r] = "rejected" /\ (did[r] = {} \/ "hit" \in did[r])
          \/ fate[r] \in {"dropped", "unmetered"} /\ Untouched(r) /\ HoldDone(r)
          \/ fate[r] \in {"failed", "garbled", "served"} /\ Closed(r)

PhaseInv == \A r \in Relays : Phase(r)

RelayStep(r) == Arrive(r) \/ PreConsume(r) \/ Upstream(r) \/ Settle(r)

Same(s) == relay'[s] = relay[s] /\ pc'[s] = pc[s] /\ did'[s] = did[s] /\ fate'[s] = fate[s]

\* A step of relay r leaves every other relay's locals as they were: helpers
\* share nothing but the rows and the cache.
LEMMA OneRelay ==
  ASSUME TypeOK, NEW r \in Relays, RelayStep(r), NEW s \in Relays \ {r}
  PROVE  Same(s)
  BY DEF TypeOK, Same, RelayStep, Arrive, ArriveText, ArriveAudio, ArriveImage,
     Begin, PreConsume, GetQuota, ReadQuota, FillQuota,
     StoreQuota, Reject, Admit, AdmitImage, CheckToken, CheckUser, HoldToken, HoldUser,
     HoldFails, Upstream, Upstreaming, TextUnreached, TextError, TextUnmetered,
     TextServed, AudioFails, AudioServed, ImageFails, ImageAnswered, Refund, GiveUp, Settle, SettleRead, SettleSkip, SettleUser, SettleToken,
     SettleFails, RereadQuota, RefillQuota, ResetQuota, SkipRecache,
     RecordUsage, ReadFails, RereadFails, RecordFails, Goto, Finish, Become, Mark

\* The phase of a relay is a matter of its locals.
LEMMA PhaseLocal ==
  ASSUME NEW s \in Relays, Phase(s), Same(s)
  PROVE  Phase(s)'
  BY DEF Phase, Same, Untouched, HoldDone, Closed, Billed, Limited

\* Each step of a helper or of its settlement leads to the next phase.
LEMMA PhaseStep ==
  ASSUME TypeOK, NEW r \in Relays, Phase(r), RelayStep(r)
  PROVE  Phase(r)'
<1> USE BillingAssumption
    DEF TypeOK, Phase, Untouched, HoldDone, Closed, Billed, Limited, Relay, Steps,
        Fates, Deeds, Kinds, At, Goto, Finish, Become, Mark
  <1>1. CASE Arrive(r)
    BY <1>1 DEF Arrive, ArriveText, ArriveAudio, ArriveImage, Begin
  <1>2. CASE GetQuota(r)
    BY <1>2 DEF GetQuota, ReadQuota
  <1>3. CASE FillQuota(r)
    BY <1>3 DEF FillQuota, StoreQuota
  <1>4. CASE Reject(r)
    BY <1>4 DEF Reject
  <1>5. CASE Admit(r)
    BY <1>5 DEF Admit, CacheDecrease, TrustedPre
  <1>6. CASE AdmitImage(r)
    BY <1>6 DEF AdmitImage
  <1>7. CASE CheckToken(r)
    BY <1>7 DEF CheckToken, TokenShort
  <1>8. CASE CheckUser(r)
    BY <1>8 DEF CheckUser
  <1>9. CASE HoldToken(r)
    BY <1>9 DEF HoldToken, TakeFromToken
  <1>10. CASE HoldUser(r)
    BY <1>10 DEF HoldUser, TakeFromUser
  <1>11. CASE HoldFails(r)
    BY <1>11 DEF HoldFails
  <1>12. CASE TextUnreached(r)
    BY <1>12 DEF TextUnreached, Upstreaming, GiveUp
  <1>13. CASE TextError(r)
    BY <1>13 DEF TextError, Upstreaming, Refund
  <1>14. CASE TextUnmetered(r)
    BY <1>14 DEF TextUnmetered, Upstreaming, GiveUp
  <1>15. CASE AudioFails(r)
    BY <1>15 DEF AudioFails, Upstreaming, Refund
  <1>16. CASE ImageFails(r)
    BY <1>16 DEF ImageFails, Upstreaming, GiveUp
  <1>17. CASE ImageAnswered(r)
    BY <1>17 DEF ImageAnswered, Upstreaming
  <1>18. CASE SettleRead(r)
    BY <1>18 DEF SettleRead
  <1>19. CASE SettleSkip(r)
    BY <1>19 DEF SettleSkip, AfterSettling
  <1>20. CASE SettleUser(r)
    BY <1>20 DEF SettleUser, TakeFromUser, AfterUser, AfterSettling
  <1>21. CASE SettleToken(r)
    BY <1>21 DEF SettleToken, TakeFromToken, AfterSettling
  <1>22. CASE SettleFails(r)
    BY <1>22 DEF SettleFails, AfterUser, AfterSettling
  <1>23. CASE RereadQuota(r)
    BY <1>23 DEF RereadQuota, ReadQuota
  <1>24. CASE RefillQuota(r)
    BY <1>24 DEF RefillQuota, StoreQuota
  <1>25. CASE ResetQuota(r)
    BY <1>25 DEF ResetQuota, StoreQuota
  <1>26. CASE SkipRecache(r)
    BY <1>26 DEF SkipRecache
  <1>27. CASE RecordUsage(r)
    BY <1>27 DEF RecordUsage
  <1>28. ASSUME NEW q \in Charges, TextServed(r, q) \/ AudioServed(r, q) PROVE Phase(r)'
    BY <1>28 DEF TextServed, AudioServed, Upstreaming
  <1>29. CASE ReadFails(r)
    BY <1>29 DEF ReadFails
  <1>30. CASE RereadFails(r)
    BY <1>30 DEF RereadFails
  <1>31. CASE RecordFails(r)
    BY <1>31 DEF RecordFails
  <1>32. QED
    BY <1>1, <1>2, <1>3, <1>4, <1>5, <1>6, <1>7, <1>8, <1>9, <1>10, <1>11, <1>12, <1>13, <1>14, <1>15, <1>16, <1>17, <1>18, <1>19, <1>20, <1>21, <1>22, <1>23, <1>24, <1>25, <1>26, <1>27, <1>28, <1>29, <1>30, <1>31
    DEF RelayStep, PreConsume, Upstream, Settle

\* The inductive invariant holds.
THEOREM PhaseCorrect == Spec => []PhaseInv
<1>1. Init => PhaseInv
  BY DEF Init, PhaseInv, Phase
<1>2. TypeOK /\ PhaseInv /\ [Next]_vars => PhaseInv'
  <2> SUFFICES ASSUME TypeOK, PhaseInv, [Next]_vars, NEW s \in Relays PROVE Phase(s)'
    BY DEF PhaseInv
  <2>1. CASE \E r \in Relays : RelayStep(r)
    <3> PICK r \in Relays : RelayStep(r)
      BY <2>1
    <3>1. CASE s = r
      BY <3>1, PhaseStep DEF PhaseInv
    <3>2. CASE s # r
      BY <3>2, OneRelay, PhaseLocal DEF PhaseInv
    <3> QED
      BY <3>1, <3>2
  <2>2. CASE (\E t \in Tokens : DeleteToken(t)) \/ (\E u \in Users : ExpireQuota(u)) \/ UNCHANGED vars
    <3>1. Same(s)
      BY <2>2 DEF DeleteToken, ExpireQuota, vars, local, Same
    <3> QED
      BY <3>1, PhaseLocal DEF PhaseInv
  <2>3. QED
    BY <2>1, <2>2 DEF Next, RelayStep
<1>3. QED
  BY <1>1, <1>2, TypeCorrect, PTL DEF Spec

-----------------------------------------------------------------------------
(* What follows from the phases. *)

\* What a finished relay holds is what its outcome owes, whatever ran between
\* its statements, unless a statement failed or the token was gone.
THEOREM Settlement == Spec => []SettlementMatchesOutcome
<1>1. TypeOK /\ PhaseInv => SettlementMatchesOutcome
  BY DEF TypeOK, PhaseInv, Phase, SettlementMatchesOutcome, Untouched, HoldDone, Closed,
         Billed, Owed, Holding, At, Relay
<1>2. QED
  BY <1>1, TypeCorrect, PhaseCorrect, PTL

\* The token and its owner are charged alike by every finished relay.
THEOREM Agreement == Spec => []TokenAgreesWithUser
<1>1. TypeOK /\ PhaseInv => TokenAgreesWithUser
  BY DEF TypeOK, PhaseInv, Phase, TokenAgreesWithUser, Untouched, HoldDone, Closed,
         Billed, Holding, TokenHolding, Delta, At, Relay
<1>2. QED
  BY <1>1, TypeCorrect, PhaseCorrect, PTL

Moves(r) == quota' = [quota EXCEPT ![UserOf(r)] = @ - (Holding(r)' - Holding(r))]

\* A step of relay r moves its user's quota by what it moves its holding.
LEMMA RelayMoves ==
  ASSUME TypeOK, NEW r \in Relays, Phase(r), RelayStep(r)
  PROVE  Moves(r)
<1> USE BillingAssumption
    DEF TypeOK, Phase, Moves, Untouched, HoldDone, Limited, Relay, Deeds,
        At, Goto, Finish, Become, Mark, Holding, UserOf, world, rows
  <1>1. CASE Arrive(r)
    BY <1>1 DEF Arrive, ArriveText, ArriveAudio, ArriveImage, Begin
  <1>2. CASE GetQuota(r)
    BY <1>2 DEF GetQuota, ReadQuota
  <1>3. CASE FillQuota(r)
    BY <1>3 DEF FillQuota, StoreQuota
  <1>4. CASE Reject(r)
    BY <1>4 DEF Reject
  <1>5. CASE Admit(r)
    BY <1>5 DEF Admit, CacheDecrease, TrustedPre
  <1>6. CASE AdmitImage(r)
    BY <1>6 DEF AdmitImage
  <1>7. CASE CheckToken(r)
    BY <1>7 DEF CheckToken, TokenShort
  <1>8. CASE CheckUser(r)
    BY <1>8 DEF CheckUser
  <1>9. CASE HoldToken(r)
    BY <1>9 DEF HoldToken, TakeFromToken
  <1>10. CASE HoldUser(r)
    <2>1. Holding(r) = 0
      BY <1>10 DEF HoldUser
    <2>2. "settled" \notin did[r] /\ did'[r] = did[r] \cup {"held"} /\ relay' = relay
      BY <1>10 DEF HoldUser
    <2>3. Holding(r)' = relay[r].pre
      BY <2>2
    <2>4. Holding(r)' - Holding(r) = relay[r].pre
      BY <2>1, <2>3
    <2>5. quota' = [quota EXCEPT ![UserOf(r)] = quota[UserOf(r)] - relay[r].pre]
      BY <1>10 DEF HoldUser, TakeFromUser
    <2>6. QED
      BY <2>4, <2>5, Zenon DEF Moves
  <1>11. CASE HoldFails(r)
    BY <1>11 DEF HoldFails
  <1>12. CASE TextUnreached(r)
    BY <1>12 DEF TextUnreached, Upstreaming, GiveUp
  <1>13. CASE TextError(r)
    <2>1. "settled" \notin did[r] /\ did' = did
      BY <1>13 DEF TextError, Upstreaming
    <2>2. relay'[r].pre = relay[r].pre
      BY <1>13 DEF TextError, Refund, Upstreaming
    <2>3. Holding(r)' = Holding(r)
      BY <2>1, <2>2
    <2>4. quota' = quota /\ UserOf(r) \in Users /\ Holding(r) \in Int
      BY <1>13 DEF TextError
    <2>5. QED
      BY <2>3, <2>4
  <1>14. CASE TextUnmetered(r)
    BY <1>14 DEF TextUnmetered, Upstreaming, GiveUp
  <1>15. CASE AudioFails(r)
    <2>1. "settled" \notin did[r] /\ did' = did
      BY <1>15 DEF AudioFails, Upstreaming
    <2>2. relay'[r].pre = relay[r].pre
      BY <1>15 DEF AudioFails, Refund, Upstreaming
    <2>3. Holding(r)' = Holding(r)
      BY <2>1, <2>2
    <2>4. quota' = quota /\ UserOf(r) \in Users /\ Holding(r) \in Int
      BY <1>15 DEF AudioFails
    <2>5. QED
      BY <2>3, <2>4
  <1>16. CASE ImageFails(r)
    BY <1>16 DEF ImageFails, Upstreaming, GiveUp
  <1>17. CASE ImageAnswered(r)
    BY <1>17 DEF ImageAnswered, Upstreaming
  <1>18. CASE SettleRead(r)
    BY <1>18 DEF SettleRead
  <1>19. CASE SettleSkip(r)
    BY <1>19 DEF SettleSkip, AfterSettling
  <1>20. CASE SettleUser(r)
    <2>1. Holding(r) = relay[r].pre
      BY <1>20 DEF SettleUser
    <2>2. did'[r] = did[r] \cup {"settled"} /\ relay' = relay
      BY <1>20 DEF SettleUser
    <2>3. Holding(r)' = relay[r].charge
      BY <2>2
    <2>4. QED
      BY <1>20, <2>1, <2>3 DEF SettleUser, TakeFromUser, Delta
  <1>21. CASE SettleToken(r)
    BY <1>21 DEF SettleToken, TakeFromToken, AfterSettling
  <1>22. CASE SettleFails(r)
    BY <1>22 DEF SettleFails, AfterUser, AfterSettling
  <1>23. CASE RereadQuota(r)
    BY <1>23 DEF RereadQuota, ReadQuota
  <1>24. CASE RefillQuota(r)
    BY <1>24 DEF RefillQuota, StoreQuota
  <1>25. CASE ResetQuota(r)
    BY <1>25 DEF ResetQuota, StoreQuota
  <1>26. CASE SkipRecache(r)
    BY <1>26 DEF SkipRecache
  <1>27. CASE RecordUsage(r)
    BY <1>27 DEF RecordUsage
  <1>28. ASSUME NEW q \in Charges, TextServed(r, q) \/ AudioServed(r, q) PROVE Moves(r)
    <2>1. "settled" \notin did[r] /\ did' = did /\ quota' = quota
      BY <1>28 DEF TextServed, AudioServed, Upstreaming
    <2>2. relay'[r].pre = relay[r].pre
      <3>1. CASE TextServed(r, q)
        BY <3>1 DEF TextServed, Upstreaming
      <3>2. CASE AudioServed(r, q)
        BY <3>2 DEF AudioServed, Upstreaming
      <3>3. QED
        BY <1>28, <3>1, <3>2
    <2>3. Holding(r)' = Holding(r)
      BY <2>1, <2>2
    <2>4. UserOf(r) \in Users /\ Holding(r) \in Int
      BY <2>1
    <2>5. QED
      BY <2>1, <2>3, <2>4
  <1>29. CASE ReadFails(r)
    BY <1>29 DEF ReadFails
  <1>30. CASE RereadFails(r)
    BY <1>30 DEF RereadFails
  <1>31. CASE RecordFails(r)
    BY <1>31 DEF RecordFails
  <1>32. QED
    BY <1>1, <1>2, <1>3, <1>4, <1>5, <1>6, <1>7, <1>8, <1>9, <1>10, <1>11, <1>12, <1>13, <1>14, <1>15, <1>16, <1>17, <1>18, <1>19, <1>20, <1>21, <1>22, <1>23, <1>24, <1>25, <1>26, <1>27, <1>28, <1>29, <1>30, <1>31
    DEF RelayStep, PreConsume, Upstream, Settle

\* No update of a user's quota is lost, doubled or made by nobody: every step
\* that moves it moves the holding of one relay by as much.
THEOREM Balance == Spec => EveryStepBalanced
<1>1. TypeOK /\ PhaseInv /\ [Next]_vars => [StepBalanced]_<<quota, relay, did>>
  <2> SUFFICES ASSUME TypeOK, PhaseInv, [Next]_vars
               PROVE  [StepBalanced]_<<quota, relay, did>>
    OBVIOUS
  <2>1. CASE \E r \in Relays : RelayStep(r)
    <3> PICK r \in Relays : RelayStep(r)
      BY <2>1
    <3>1. \A s \in Relays \ {r} : Holding(s)' = Holding(s)
      BY OneRelay DEF Same, Holding
    <3>2. Moves(r)
      BY RelayMoves DEF PhaseInv
    <3> QED
      BY <3>1, <3>2 DEF StepBalanced, Moves
  <2>2. CASE (\E t \in Tokens : DeleteToken(t)) \/ (\E u \in Users : ExpireQuota(u)) \/ UNCHANGED vars
    BY <2>2 DEF DeleteToken, ExpireQuota, vars, world, local, rows
  <2>3. QED
    BY <2>1, <2>2 DEF Next, RelayStep
<1>2. QED
  BY <1>1, TypeCorrect, PhaseCorrect, PTL DEF Spec, EveryStepBalanced
-----------------------------------------------------------------------------
(* The cached quota. *)

\* What a step of a relay does to the key in Redis: nothing, RedisSet with an expiry,
\* or DECRBY.
LEMMA RedisMoves ==
  ASSUME NEW r \in Relays, RelayStep(r)
  PROVE  \/ UNCHANGED redis
         \/ sticky' = [sticky EXCEPT ![UserOf(r)] = FALSE]
            /\ cached' = [cached EXCEPT ![UserOf(r)] = relay[r].seen]
         \/ CacheDecrease(UserOf(r), relay[r].pre)
<1>1. CASE FillQuota(r) \/ RefillQuota(r) \/ ResetQuota(r)
  BY <1>1 DEF FillQuota, RefillQuota, ResetQuota, StoreQuota
<1>2. CASE Admit(r)
  BY <1>2 DEF Admit
<1>3. CASE ~(FillQuota(r) \/ RefillQuota(r) \/ ResetQuota(r) \/ Admit(r))
  BY <1>3 DEF RelayStep, Arrive, ArriveText, ArriveAudio, ArriveImage, Begin, PreConsume,
     GetQuota, ReadQuota, Reject, AdmitImage, CheckToken, CheckUser, HoldToken, HoldUser,
     HoldFails, Upstream, TextUnreached, TextError, TextUnmetered, TextServed, AudioFails,
     AudioServed, ImageFails, ImageAnswered, Settle, SettleRead, SettleSkip, SettleUser,
     SettleToken, SettleFails, RereadQuota, RereadFails, SkipRecache, RecordUsage,
     RecordFails, ReadFails, world
<1> QED
  BY <1>1, <1>2, <1>3

LEMMA StickyStep ==
  ASSUME TypeOK, StickyNeverTrusted, NEW r \in Relays, RelayStep(r)
  PROVE  StickyNeverTrusted'
<1> DEFINE u == UserOf(r)
           p == relay[r].pre
<1>1. u \in Users /\ p \in Nat /\ DOMAIN sticky = Users /\ DOMAIN cached = Users
  BY BillingAssumption DEF TypeOK, UserOf, Relay
<1>2. cached[u] \in Int \cup {NoValue} /\ PreConsumedQuota \in Nat /\ NoValue \notin Int
  BY <1>1, BillingAssumption DEF TypeOK
<1>3. CASE UNCHANGED redis
  BY <1>3 DEF redis, StickyNeverTrusted
<1>4. CASE sticky' = [sticky EXCEPT ![u] = FALSE] /\ cached' = [cached EXCEPT ![u] = relay[r].seen]
  BY <1>1, <1>4 DEF StickyNeverTrusted
<1>5. CASE /\ cached' = [cached EXCEPT ![u] = (IF @ = NoValue THEN 0 ELSE @) - p]
           /\ sticky' = [sticky EXCEPT ![u] = @ \/ cached[u] = NoValue]
  <2> HIDE DEF u, p
  <2>1. cached'[u] = (IF cached[u] = NoValue THEN 0 ELSE cached[u]) - p
    BY <1>1, <1>5
  <2>2. sticky'[u] => sticky[u] \/ cached[u] = NoValue
    BY <1>1, <1>5, Zenon
  <2>3. sticky[u] => cached[u] # NoValue /\ cached[u] <= PreConsumedQuota
    BY <1>1 DEF StickyNeverTrusted
  <2>4. sticky'[u] => cached'[u] \in Int /\ cached'[u] <= PreConsumedQuota
    BY <1>1, <1>2, <2>1, <2>2, <2>3
  <2>5. \A v \in Users \ {u} : sticky'[v] = sticky[v] /\ cached'[v] = cached[v]
    BY <1>1, <1>5, Zenon
  <2> QED
    BY <1>2, <2>4, <2>5 DEF StickyNeverTrusted
<1> QED
  BY <1>3, <1>4, <1>5, RedisMoves DEF CacheDecrease, redis

\* A key that DECRBY made, which Redis never drops, is never relied on: it only goes
\* down, and a RedisSet gives it an expiry (CacheDecreaseUserQuota, CacheGetUserQuota).
THEOREM Sticky == Spec => []StickyNeverTrusted
<1>1. Init => StickyNeverTrusted
  BY DEF Init, StickyNeverTrusted
<1>2. TypeOK /\ StickyNeverTrusted /\ [Next]_vars => StickyNeverTrusted'
  <2> SUFFICES ASSUME TypeOK, StickyNeverTrusted, [Next]_vars PROVE StickyNeverTrusted'
    OBVIOUS
  <2>1. CASE \E r \in Relays : RelayStep(r)
    BY <2>1, StickyStep
  <2>2. CASE \E u \in Users : ExpireQuota(u)
    BY <2>2 DEF ExpireQuota, StickyNeverTrusted, TypeOK
  <2>3. CASE (\E t \in Tokens : DeleteToken(t)) \/ UNCHANGED vars
    BY <2>3 DEF DeleteToken, vars, world, redis, StickyNeverTrusted
  <2> QED
    BY <2>1, <2>2, <2>3 DEF Next, RelayStep
<1>3. QED
  BY <1>1, <1>2, TypeCorrect, PTL DEF Spec

-----------------------------------------------------------------------------
(* Sums over finite sets. *)

\* A set of natural numbers that has 0 and the successor of each of its members has all.
LEMMA NatSets ==
  ASSUME NEW P \in SUBSET Nat, 0 \in P, \A n \in P : n + 1 \in P
  PROVE  P = Nat
<1> SUFFICES ASSUME Nat \ P # {} PROVE FALSE
  OBVIOUS
<1>1. IsWellFoundedOn(OpToRel(<, Nat), Nat)
  BY NatLessThanWellFounded
<1> DEFINE T == Nat \ P
           R == OpToRel(<, Nat)
<1>2. \A x, y \in Nat : y < x => <<y, x>> \in R
  BY DEF OpToRel
<1> HIDE DEF R
<1>3. PICK x \in T : \A y \in T : ~ (<<y, x>> \in R)
  BY <1>1, WFMin DEF R
<1> DEFINE w == x - 1
<1>4. x \in Nat /\ x # 0 /\ w \in Nat /\ w < x /\ x = w + 1
  OBVIOUS
<1>5. w \in P
  <2> HIDE DEF w
  <2> QED
    BY <1>2, <1>3, <1>4
<1> QED
  BY <1>4, <1>5

\* The element that a sum over s takes next, and the sums over all parts of S that
\* MapThenSumSet computes.
Any(s) == CHOOSE x \in s : TRUE
PartialSums(it, h, S) ==
  it = [s \in SUBSET S |-> IF s = {} THEN 0 ELSE h[Any(s)] + it[s \ {Any(s)}]]

LEMMA AnyIn ==
  ASSUME NEW S, NEW s \in SUBSET S, s # {}
  PROVE  Any(s) \in s /\ s \ {Any(s)} \in SUBSET S
  BY DEF Any

\* What holds of the empty set, and of a set when it holds without one of its elements,
\* holds of every finite set.
LEMMA SetInduction ==
  ASSUME NEW S, IsFiniteSet(S), NEW Q \in SUBSET SUBSET S, {} \in Q,
         \A s \in SUBSET S : s # {} /\ s \ {Any(s)} \in Q => s \in Q
  PROVE  Q = SUBSET S
<1> DEFINE P == {n \in Nat : \A s \in SUBSET S : Cardinality(s) = n => s \in Q}
<1>1. \A s \in SUBSET S : IsFiniteSet(s) /\ Cardinality(s) \in Nat
  BY FS_Subset, FS_CardinalityType
<1>2. 0 \in P
  BY <1>1, FS_EmptySet
<1>3. ASSUME NEW n \in P PROVE n + 1 \in P
  <2>1. n \in Nat /\ n + 1 \in Nat
    OBVIOUS
  <2>2. ASSUME NEW s \in SUBSET S, Cardinality(s) = n + 1 PROVE s \in Q
    <3>1. s # {}
      BY <2>1, <2>2, FS_EmptySet
    <3>2. Any(s) \in s /\ s \ {Any(s)} \in SUBSET S
      BY <3>1, AnyIn
    <3>3. Cardinality(s \ {Any(s)}) = n
      BY <1>1, <2>1, <2>2, <3>2, FS_RemoveElement
    <3> QED
      BY <3>1, <3>2, <3>3
  <2> QED
    BY <2>1, <2>2
<1>4. P = Nat
  <2> HIDE DEF P
  <2>1. P \in SUBSET Nat
    BY DEF P
  <2> QED
    BY <1>2, <1>3, <2>1, NatSets
<1>5. ASSUME NEW s \in SUBSET S PROVE s \in Q
  BY <1>1, <1>4
<1> QED
  BY <1>5

\* There are such sums: those of the parts with at most n elements give the next.
LEMMA SumsExist ==
  ASSUME NEW S, IsFiniteSet(S), NEW h
  PROVE  \E it : PartialSums(it, h, S)
<1> DEFINE
      Up(it) == [s \in SUBSET S |-> IF s = {} THEN 0 ELSE h[Any(s)] + it[s \ {Any(s)}]]
      Good(it, n) == \A s \in SUBSET S : Cardinality(s) <= n => it[s] = Up(it)[s]
      P == {n \in Nat : \E it : Good(it, n)}
<1>1. \A s \in SUBSET S : IsFiniteSet(s) /\ Cardinality(s) \in Nat
  BY FS_Subset, FS_CardinalityType
<1>2. 0 \in P
  <2> DEFINE zero == [s \in SUBSET S |-> 0]
  <2>1. Good(zero, 0)
    BY <1>1, FS_EmptySet
  <2> QED
    BY <2>1
<1>3. ASSUME NEW n \in P PROVE n + 1 \in P
  <2>1. PICK it : Good(it, n)
    OBVIOUS
  <2> DEFINE up == Up(it)
  <2>2. ASSUME NEW s \in SUBSET S, Cardinality(s) <= n + 1 PROVE up[s] = Up(up)[s]
    <3>1. CASE s = {}
      BY <3>1
    <3>2. CASE s # {}
      <4> DEFINE t == s \ {Any(s)}
      <4>1. t \in SUBSET S /\ Cardinality(t) = Cardinality(s) - 1
        BY <1>1, <3>2, AnyIn, FS_RemoveElement
      <4>2. it[t] = up[t]
        <5>1. Cardinality(t) <= n
          BY <1>1, <2>2, <4>1
        <5> QED
          BY <2>1, <4>1, <5>1
      <4>3. up[s] = h[Any(s)] + it[t]
        BY <3>2
      <4>4. Up(up)[s] = h[Any(s)] + up[t]
        BY <3>2
      <4> QED
        BY <4>2, <4>3, <4>4
    <3> QED
      BY <3>1, <3>2
  <2>3. Good(up, n + 1)
    BY <2>2
  <2>4. \E jt : Good(jt, n + 1)
    <3> HIDE DEF up, Good
    <3> QED
      BY <2>3
  <2>5. n + 1 \in Nat
    OBVIOUS
  <2> QED
    BY <2>4, <2>5
<1>4. P = Nat
  <2> HIDE DEF P
  <2>1. P \in SUBSET Nat
    BY DEF P
  <2> QED
    BY <1>2, <1>3, <2>1, NatSets
<1>5. PICK it : Good(it, Cardinality(S))
  BY <1>1, <1>4
<1>6. \A s \in SUBSET S : it[s] = Up(it)[s]
  BY <1>1, <1>5, FS_Subset
<1> DEFINE full == Up(it)
<1>7. full = Up(full)
  <2>1. ASSUME NEW s \in SUBSET S PROVE full[s] = Up(full)[s]
    <3>1. CASE s = {}
      BY <3>1
    <3>2. CASE s # {}
      BY <1>6, <3>2, AnyIn
    <3> QED
      BY <3>1, <3>2
  <2> HIDE DEF full
  <2> QED
    BY <2>1 DEF full
<1> QED
  BY <1>7 DEF PartialSums

\* A sum changes by what one of its terms changes.
LEMMA SumChange ==
  ASSUME NEW S, IsFiniteSet(S), NEW h \in [S -> Int], NEW g \in [S -> Int],
         NEW i, NEW j, PartialSums(i, h, S), PartialSums(j, g, S),
         NEW x, NEW d \in Int, x \in S => g[x] = h[x] + d,
         \A y \in S \ {x} : g[y] = h[y]
  PROVE  i[S] \in Int /\ j[S] = i[S] + IF x \in S THEN d ELSE 0
<1> DEFINE Q == {s \in SUBSET S : i[s] \in Int /\ j[s] = i[s] + IF x \in s THEN d ELSE 0}
<1>1. {} \in Q
  BY DEF PartialSums
<1>2. ASSUME NEW s \in SUBSET S, s # {}, s \ {Any(s)} \in Q PROVE s \in Q
  <2> DEFINE e == Any(s)
             t == s \ {e}
  <2>1. e \in s /\ e \in S
    BY <1>2, AnyIn
  <2>2. i[s] = h[e] + i[t] /\ j[s] = g[e] + j[t]
    BY <1>2 DEF PartialSums
  <2>3. i[t] \in Int /\ j[t] = i[t] + IF x \in t THEN d ELSE 0
    BY <1>2
  <2> HIDE DEF e
  <2>4. CASE x = e
    BY <2>1, <2>2, <2>3, <2>4
  <2>5. CASE x # e
    BY <2>1, <2>2, <2>3, <2>5
  <2> QED
    BY <2>4, <2>5
<1>3. Q = SUBSET S
  <2> HIDE DEF Q
  <2>1. Q \in SUBSET SUBSET S
    BY DEF Q
  <2> QED
    BY <1>1, <1>2, <2>1, SetInduction
<1> QED
  BY <1>3

\* A sum of zeros.
LEMMA SumZero ==
  ASSUME NEW S, IsFiniteSet(S), NEW h, \A y \in S : h[y] = 0, NEW i, PartialSums(i, h, S)
  PROVE  i[S] = 0
<1> DEFINE Q == {s \in SUBSET S : i[s] = 0}
<1>1. {} \in Q
  BY DEF PartialSums
<1>2. ASSUME NEW s \in SUBSET S, s # {}, s \ {Any(s)} \in Q PROVE s \in Q
  <2>1. Any(s) \in S
    BY <1>2, AnyIn
  <2>2. i[s] = h[Any(s)] + i[s \ {Any(s)}]
    BY <1>2 DEF PartialSums
  <2> QED
    BY <1>2, <2>1, <2>2
<1>3. Q = SUBSET S
  <2> HIDE DEF Q
  <2>1. Q \in SUBSET SUBSET S
    BY DEF Q
  <2> QED
    BY <1>1, <1>2, <2>1, SetInduction
<1> QED
  BY <1>3

-----------------------------------------------------------------------------
(* The books. *)

Recorded(r) == IF pc[r] = "done" /\ Billed(r) /\ "unrecorded" \notin did[r]
               THEN relay[r].charge ELSE 0
Open(r) == Holding(r) - Recorded(r)
OpenOf(u) == [r \in RelaysOf(u) |-> Open(r)]

\* At every step the two columns of a user add up to what the open relays left of the
\* initial quota.
Books ==
  \A u \in Users : \E it :
    /\ PartialSums(it, OpenOf(u), RelaysOf(u))
    /\ quota[u] + usedQuota[u] = InitQuota[u] - it[RelaysOf(u)]
Fresh == \A r \in Relays : pc[r] = "idle" => fate[r] = "none"

\* A step of a relay records its charge when it ends, if that statement does not fail,
\* and keeps its token.
LEMMA RelayRecords ==
  ASSUME TypeOK, NEW r \in Relays, Phase(r), RelayStep(r)
  PROVE  /\ usedQuota' = [usedQuota EXCEPT ![UserOf(r)] = @ + (Recorded(r)' - Recorded(r))]
         /\ pc'[r] # "idle" /\ relay'[r].token = relay[r].token
<1> USE BillingAssumption
    DEF TypeOK, Phase, Limited, Relay, At, Goto, Finish, Become, Mark, Recorded, Billed,
        UserOf, world, rows
<1> DEFINE Goal == /\ usedQuota' = [usedQuota EXCEPT ![UserOf(r)] = @ + (Recorded(r)' - Recorded(r))]
                   /\ pc'[r] # "idle" /\ relay'[r].token = relay[r].token
<1>1. CASE Arrive(r)
  BY <1>1 DEF Arrive, ArriveText, ArriveAudio, ArriveImage, Begin
<1>2. CASE GetQuota(r) \/ RereadQuota(r)
  BY <1>2 DEF GetQuota, RereadQuota, ReadQuota
<1>3. CASE FillQuota(r) \/ RefillQuota(r) \/ ResetQuota(r)
  BY <1>3 DEF FillQuota, RefillQuota, ResetQuota, StoreQuota
<1>4. CASE Reject(r)
  BY <1>4 DEF Reject
<1>5. CASE Admit(r)
  BY <1>5 DEF Admit, CacheDecrease, TrustedPre
<1>6. CASE AdmitImage(r)
  BY <1>6 DEF AdmitImage
<1>7. CASE CheckToken(r)
  BY <1>7 DEF CheckToken, TokenShort
<1>8. CASE CheckUser(r)
  BY <1>8 DEF CheckUser
<1>9. CASE HoldToken(r)
  BY <1>9 DEF HoldToken, TakeFromToken
<1>10. CASE HoldUser(r)
  BY <1>10 DEF HoldUser, TakeFromUser
<1>11. CASE HoldFails(r)
  BY <1>11 DEF HoldFails
<1>12. CASE TextUnreached(r) \/ TextUnmetered(r) \/ ImageFails(r)
  BY <1>12 DEF TextUnreached, TextUnmetered, ImageFails, Upstreaming, GiveUp
<1>13. CASE TextError(r)
  BY <1>13 DEF TextError, Upstreaming, Refund
<1>14. CASE AudioFails(r)
  BY <1>14 DEF AudioFails, Upstreaming, Refund
<1>15. CASE ImageAnswered(r)
  BY <1>15 DEF ImageAnswered, Upstreaming
<1>16. CASE SettleRead(r)
  BY <1>16 DEF SettleRead
<1>17. CASE SettleSkip(r)
  BY <1>17 DEF SettleSkip, AfterSettling
<1>18. CASE SettleUser(r)
  BY <1>18 DEF SettleUser, TakeFromUser, AfterUser, AfterSettling
<1>19. CASE SettleToken(r)
  BY <1>19 DEF SettleToken, TakeFromToken, AfterSettling
<1>20. CASE SettleFails(r)
  BY <1>20 DEF SettleFails, AfterUser, AfterSettling
<1>21. CASE SkipRecache(r)
  BY <1>21 DEF SkipRecache
<1>22. CASE RecordUsage(r)
  <2>1. /\ Recorded(r) = 0 /\ relay' = relay /\ pc'[r] = "done" /\ fate' = fate
        /\ "unrecorded" \notin did[r] /\ did' = did
    BY <1>22 DEF RecordUsage
  <2>2. Recorded(r)' = relay[r].charge
    BY <1>22, <2>1 DEF RecordUsage
  <2>3. usedQuota' = [usedQuota EXCEPT ![UserOf(r)] = @ + relay[r].charge]
    BY <1>22 DEF RecordUsage
  <2>4. Recorded(r)' - Recorded(r) = relay[r].charge
    BY <2>1, <2>2
  <2> QED
    BY <2>1, <2>3, <2>4, Zenon
<1>23. ASSUME NEW q \in Charges, TextServed(r, q) \/ AudioServed(r, q) PROVE Goal
  <2>1. pc[r] = "upstream" /\ pc'[r] = "settle" /\ usedQuota' = usedQuota
    BY <1>23 DEF TextServed, AudioServed, Upstreaming
  <2>2. Recorded(r) = 0 /\ Recorded(r)' = 0
    BY <2>1
  <2>3. relay'[r].token = relay[r].token
    <3>1. CASE TextServed(r, q)
      BY <3>1 DEF TextServed
    <3>2. CASE AudioServed(r, q)
      BY <3>2 DEF AudioServed
    <3> QED
      BY <1>23, <3>1, <3>2
  <2>4. usedQuota[UserOf(r)] \in Int /\ UserOf(r) \in Users
    OBVIOUS
  <2> QED
    BY <2>1, <2>2, <2>3, <2>4
<1>24. CASE ReadFails(r) \/ RereadFails(r)
  BY <1>24 DEF ReadFails, RereadFails
<1>25. CASE RecordFails(r)
  BY <1>25 DEF RecordFails
<1> QED
  BY <1>1, <1>2, <1>3, <1>4, <1>5, <1>6, <1>7, <1>8, <1>9, <1>10, <1>11, <1>12, <1>13, <1>14,
     <1>15, <1>16, <1>17, <1>18, <1>19, <1>20, <1>21, <1>22, <1>23, <1>24, <1>25
  DEF RelayStep, PreConsume, Upstream, Settle

LEMMA OpenTypes ==
  ASSUME TypeOK, NEW u \in Users
  PROVE  /\ OpenOf(u) \in [RelaysOf(u) -> Int]
         /\ IsFiniteSet(RelaysOf(u))
<1>1. \A r \in Relays : Open(r) \in Int
  BY DEF TypeOK, Relay, Open, Holding, Recorded
<1>2. RelaysOf(u) \in SUBSET Relays
  BY DEF RelaysOf
<1> QED
  BY <1>1, <1>2, BillingAssumption, FS_Subset DEF OpenOf

\* A step of relay r moves the columns of its user by what it moves the sum over the
\* relays of that user, and keeps those of the others.
LEMMA BooksStep ==
  ASSUME TypeOK, TypeOK', PhaseInv, Books, NEW r \in Relays, RelayStep(r)
  PROVE  Books'
<1> SUFFICES ASSUME NEW u \in Users
             PROVE  \E it : /\ PartialSums(it, OpenOf(u)', RelaysOf(u)')
                            /\ quota'[u] + usedQuota'[u] = InitQuota[u] - it[RelaysOf(u)']
  BY DEF Books, PartialSums
<1> DEFINE R == RelaysOf(u)
           h == OpenOf(u)
           g == OpenOf(u)'
           d == Open(r)' - Open(r)
<1>1. Moves(r) /\ Phase(r)
  BY RelayMoves DEF PhaseInv
<1>2. /\ usedQuota' = [usedQuota EXCEPT ![UserOf(r)] = @ + (Recorded(r)' - Recorded(r))]
      /\ relay'[r].token = relay[r].token
  BY <1>1, RelayRecords
<1>3. \A s \in Relays \ {r} : Same(s)
  BY OneRelay
<1>4. \A s \in Relays \ {r} : Open(s)' = Open(s)
  BY <1>3 DEF Same, Open, Holding, Recorded, Billed
<1>5. \A s \in Relays : relay'[s].token = relay[s].token
  BY <1>2, <1>3 DEF Same
<1>6. RelaysOf(u)' = R
  BY <1>5 DEF RelaysOf, UserOf
<1>7. /\ h \in [R -> Int] /\ IsFiniteSet(R) /\ R \in SUBSET Relays
      /\ g \in [R -> Int]
  BY <1>6, OpenTypes, BillingAssumption, FS_Subset DEF RelaysOf, OpenOf, TypeOK, Open,
     Holding, Recorded, Relay
<1>8. /\ Holding(r) \in Int /\ Recorded(r) \in Int /\ Holding(r)' \in Int /\ Recorded(r)' \in Int
  BY DEF TypeOK, Relay, Holding, Recorded
<1>9. d \in Int /\ d = (Holding(r)' - Holding(r)) - (Recorded(r)' - Recorded(r))
  BY <1>8 DEF Open
<1>10. r \in R => g[r] = h[r] + d
  BY <1>6, <1>8 DEF OpenOf, Open
<1>11. \A y \in R \ {r} : g[y] = h[y]
  BY <1>4, <1>6, <1>7 DEF OpenOf
<1>12. /\ quota \in [Users -> Int] /\ usedQuota \in [Users -> Int] /\ InitQuota[u] \in Int
       /\ r \in R <=> u = UserOf(r)
  BY BillingAssumption DEF TypeOK, RelaysOf
<1>13. quota'[u] + usedQuota'[u] = quota[u] + usedQuota[u] - IF r \in R THEN d ELSE 0
  <2> HIDE DEF d, R
  <2>1. CASE r \in R
    <3>1. quota'[u] = quota[u] - (Holding(r)' - Holding(r))
      BY <1>1, <1>12, <2>1 DEF Moves
    <3>2. usedQuota'[u] = usedQuota[u] + (Recorded(r)' - Recorded(r))
      BY <1>2, <1>12, <2>1
    <3> QED
      BY <1>8, <1>9, <1>12, <2>1, <3>1, <3>2
  <2>2. CASE r \notin R
    <3>1. quota'[u] = quota[u] /\ usedQuota'[u] = usedQuota[u]
      BY <1>1, <1>2, <1>12, <2>2 DEF Moves
    <3> QED
      BY <1>12, <2>2, <3>1
  <2> QED
    BY <2>1, <2>2
<1>14. PICK it : PartialSums(it, h, R) /\ quota[u] + usedQuota[u] = InitQuota[u] - it[R]
  BY DEF Books
<1>15. PICK jt : PartialSums(jt, g, R)
  BY <1>7, SumsExist
<1> HIDE DEF R, h, g, d
<1>16. it[R] \in Int /\ jt[R] = it[R] + IF r \in R THEN d ELSE 0
  <2>1. PartialSums(it, h, R) /\ PartialSums(jt, g, R)
    BY <1>14, <1>15
  <2> QED
    BY <1>7, <1>9, <1>10, <1>11, <2>1, SumChange
<1>17. quota'[u] + usedQuota'[u] = InitQuota[u] - jt[R]
  BY <1>9, <1>12, <1>13, <1>14, <1>16
<1> QED
  BY <1>6, <1>15, <1>17 DEF g

LEMMA FreshStep ==
  ASSUME TypeOK, PhaseInv, Fresh, NEW r \in Relays, RelayStep(r)
  PROVE  Fresh'
<1>1. pc'[r] # "idle"
  BY RelayRecords DEF PhaseInv
<1>2. \A s \in Relays \ {r} : Same(s)
  BY OneRelay
<1> QED
  BY <1>1, <1>2 DEF Fresh, Same

\* MapThenSumSet is one of the sums.
LEMMA UnrecordedSum ==
  ASSUME NEW u, IsFiniteSet(RelaysOf(u))
  PROVE  \E it : /\ PartialSums(it, [r \in RelaysOf(u) |-> Unrecorded(r)], RelaysOf(u))
                 /\ MapThenSumSet(Unrecorded, RelaysOf(u)) = it[RelaysOf(u)]
<1> DEFINE
      S == RelaysOf(u)
      h == [r \in S |-> Unrecorded(r)]
      Sums(it) == it = [s \in SUBSET S |->
                          IF s = {} THEN 0 ELSE Unrecorded(Any(s)) + it[s \ {Any(s)}]]
      sum == CHOOSE it : Sums(it)
<1>1. PICK f : PartialSums(f, h, S)
  BY SumsExist
<1>2. ASSUME NEW f1, PartialSums(f1, h, S) PROVE Sums(f1)
  BY <1>2, AnyIn DEF PartialSums
<1>3. ASSUME NEW f1, Sums(f1) PROVE PartialSums(f1, h, S)
  BY <1>3, AnyIn DEF PartialSums
<1>4. Sums(sum)
  BY <1>1, <1>2
<1>5. MapThenSumSet(Unrecorded, S) = sum[S]
  BY DEF MapThenSumSet, MapThenFoldSet, Any
<1> QED
  BY <1>3, <1>4, <1>5

LEMMA BooksInit == Init => Books /\ Fresh
<1> SUFFICES ASSUME Init, NEW u \in Users
             PROVE  \E it : /\ PartialSums(it, OpenOf(u), RelaysOf(u))
                            /\ quota[u] + usedQuota[u] = InitQuota[u] - it[RelaysOf(u)]
  BY DEF Books, Fresh, Init
<1>1. IsFiniteSet(RelaysOf(u)) /\ RelaysOf(u) \in SUBSET Relays
  BY BillingAssumption, FS_Subset DEF RelaysOf
<1>2. \A r \in RelaysOf(u) : OpenOf(u)[r] = 0
  BY <1>1 DEF OpenOf, Open, Holding, Recorded, Init
<1>3. PICK it : PartialSums(it, OpenOf(u), RelaysOf(u))
  BY <1>1, SumsExist
<1>4. it[RelaysOf(u)] = 0
  BY <1>1, <1>2, <1>3, SumZero
<1>5. quota[u] + usedQuota[u] = InitQuota[u] - 0
  BY BillingAssumption DEF Init
<1> QED
  BY <1>3, <1>4, <1>5

\* However holds, settlements and their failures interleave, and however many relays
\* there are: when none of a user's relays is under way, its two columns add up to the
\* initial quota less what its relays hold and did not record; a billed relay records
\* its charge unless that very statement failed.
THEOREM Closing == Spec => []BooksClose
<1>1. TypeOK /\ TypeOK' /\ PhaseInv /\ Books /\ Fresh /\ [Next]_vars => (Books /\ Fresh)'
  <2> SUFFICES ASSUME TypeOK, TypeOK', PhaseInv, Books, Fresh, [Next]_vars
               PROVE  Books' /\ Fresh'
    OBVIOUS
  <2>1. CASE \E r \in Relays : RelayStep(r)
    BY <2>1, BooksStep, FreshStep
  <2>2. CASE (\E t \in Tokens : DeleteToken(t)) \/ (\E u \in Users : ExpireQuota(u)) \/ UNCHANGED vars
    <3>1. UNCHANGED <<quota, usedQuota, relay, pc, did, fate>>
      BY <2>2 DEF DeleteToken, ExpireQuota, vars, world, local, rows
    <3>2. \A r \in Relays : Open(r)' = Open(r) /\ UserOf(r)' = UserOf(r)
      BY <3>1 DEF Open, Holding, Recorded, Billed, UserOf
    <3>3. ASSUME NEW u \in Users PROVE RelaysOf(u)' = RelaysOf(u) /\ OpenOf(u)' = OpenOf(u)
      <4>1. RelaysOf(u)' = RelaysOf(u)
        BY <3>2 DEF RelaysOf
      <4>2. \A r \in RelaysOf(u) : r \in Relays
        BY DEF RelaysOf
      <4> QED
        BY <3>2, <4>1, <4>2 DEF OpenOf
    <3>4. Books'
      BY <3>1, <3>3 DEF Books, PartialSums
    <3> QED
      BY <3>1, <3>4 DEF Fresh
  <2> QED
    BY <2>1, <2>2 DEF Next, RelayStep
<1>2. TypeOK /\ Books /\ Fresh => BooksClose
  <2> SUFFICES ASSUME TypeOK, Books, Fresh, NEW u \in Users,
                      \A r \in RelaysOf(u) : pc[r] \in {"idle", "done"}
               PROVE  quota[u] + usedQuota[u]
                        = InitQuota[u] - MapThenSumSet(Unrecorded, RelaysOf(u))
    BY DEF BooksClose
  <2> DEFINE S == RelaysOf(u)
             h == [r \in S |-> Unrecorded(r)]
  <2>1. S \in SUBSET Relays /\ IsFiniteSet(S) /\ OpenOf(u) \in [S -> Int]
    BY OpenTypes DEF RelaysOf
  <2>2. ASSUME NEW r \in S PROVE Unrecorded(r) = Open(r)
    BY <2>1 DEF Unrecorded, Open, Recorded, Billed, Fresh
  <2>3. h = OpenOf(u)
    BY <2>2 DEF OpenOf
  <2>4. PICK it : PartialSums(it, h, S) /\ MapThenSumSet(Unrecorded, S) = it[S]
    BY <2>1, UnrecordedSum
  <2>5. PICK jt : PartialSums(jt, OpenOf(u), S) /\ quota[u] + usedQuota[u] = InitQuota[u] - jt[S]
    BY DEF Books
  <2> HIDE DEF S, h
  <2>6. jt[S] = it[S]
    <3>1. it[S] \in Int /\ jt[S] = it[S] + IF u \in S THEN 0 ELSE 0
      <4>1. h \in [S -> Int]
        BY <2>1, <2>3
      <4>2. u \in S => h[u] = h[u] + 0
        BY <4>1
      <4> QED
        BY <2>1, <2>3, <2>4, <2>5, <4>1, <4>2, SumChange
    <3> QED
      BY <3>1
  <2> QED
    BY <2>4, <2>5, <2>6 DEF S
<1> QED
  BY <1>1, <1>2, BooksInit, TypeCorrect, PhaseCorrect, PTL DEF Spec
=============================================================================
