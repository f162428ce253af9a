------------------------- MODULE VSCodeAuth_proofs -------------------------
(***************************************************************************)
(* Proofs about VSCodeAuth: whose token an answer carries, and who may put *)
(* a deleted session back.                                                 *)
(***************************************************************************)
EXTENDS VSCodeAuth, TLAPS

Value == Users \cup {None}
Entry == [kind : {"local", "callback"}, session : Sessions \cup {None},
          user : Value, todo : SUBSET Fields]
Answers == [session : Sessions \cup {None}, token : Value \cup {Torn}, user : Value \cup {Torn}]

\* The map and the flags, the fields, and the requests.
Store ==
  /\ stored \subseteq created /\ created \subseteq Sessions
  /\ lock \in Logins \cup {None}
Objects ==
  /\ status \in [Sessions -> {"pending", "completed"}]
  /\ token \in [Sessions -> Value] /\ user \in [Sessions -> Value]
Requests ==
  /\ login \in [Logins -> Entry] /\ poll \in [Polls -> Answers]
  /\ pc \in [Procs -> Steps]

\* A log-in that is under way has a session and a user, and a poll that reads
\* has a session; one that has not begun has read nothing.
Begun ==
  /\ \A l \in Logins : pc[l] \in {"key", "update", "writing"} =>
       login[l].session \in created /\ login[l].user \in Users
  /\ \A p \in Polls :
       /\ pc[p] \in {"expiry", "pending?", "completed?", "token", "user"} =>
            poll[p].session \in created
       /\ pc[p] = "idle" => poll[p].token = None

\* A log-in took s as u, and has written its token.
Wrote(l, s, u) == Took(l, s) /\ login[l].user = u /\ "token" \notin login[l].todo

\* Where a token came from: in a session object, and in what a poll has read of it.
Origin ==
  /\ \A s \in Sessions : token[s] \in Users => \E l \in Logins : Wrote(l, s, token[s])
  /\ \A p \in Polls : poll[p].token \in Users =>
       \E l \in Logins : Wrote(l, poll[p].session, poll[p].token)

\* While a callback holds the mutex its session stays in the map.
Held == lock \in Logins => pc[lock] = "writing" /\ login[lock].session \in stored

IInv == Store /\ Objects /\ Requests /\ Begun /\ Origin /\ Held

-----------------------------------------------------------------------------
(* What every step leaves alone. *)

\* A log-in that may have written its token goes on as the same user, in the same
\* session, and never takes back a field it wrote.
LEMMA WroteStays ==
  ASSUME Requests, [Next]_vars, NEW l \in Logins, NEW s, NEW u, Wrote(l, s, u)
  PROVE  Wrote(l, s, u)'
<1> USE DEF Wrote, Took, Requests, At, Goto, Procs
<1>1. ASSUME NEW x \in Sessions, CreateSession(x) \/ Expire(x) PROVE Wrote(l, s, u)'
  BY <1>1 DEF CreateSession, Expire
<1>2. ASSUME NEW m \in Logins, NEW x \in Sessions, Callback(m, x) PROVE Wrote(l, s, u)'
  BY <1>2 DEF Callback, GetSession
<1>3. ASSUME NEW m \in Logins, NEW x \in Sessions, NEW v \in Users, Login(m, x, v)
      PROVE  Wrote(l, s, u)'
  BY <1>3 DEF Login, GetSession
<1>4. ASSUME NEW m \in Logins, Complete(m) PROVE Wrote(l, s, u)'
  <2>1. CASE FetchKey(m)
    BY <2>1 DEF FetchKey
  <2>2. ASSUME NEW f \in Fields, WriteField(m, f) PROVE Wrote(l, s, u)'
    BY <2>2 DEF WriteField, Entry
  <2>3. CASE StoreSession(m) \/ LockSession(m) \/ UnlockSession(m)
    BY <2>3 DEF StoreSession, LockSession, UnlockSession
  <2> QED
    BY <1>4, <2>1, <2>2, <2>3 DEF Complete
<1>5. ASSUME NEW p \in Polls, NEW x \in Sessions, Poll(p, x) PROVE Wrote(l, s, u)'
  BY <1>5 DEF Poll, GetSession
<1>6. ASSUME NEW p \in Polls,
             CheckExpiry(p) \/ ReadStatus(p) \/ ReadStatusAgain(p) \/ ReadToken(p) \/ Answer(p)
      PROVE  Wrote(l, s, u)'
  BY <1>6 DEF CheckExpiry, ReadStatus, ReadStatusAgain, ReadToken, Answer
<1>7. ASSUME NEW x \in Procs, DeleteSession(x) PROVE Wrote(l, s, u)'
  BY <1>7 DEF DeleteSession
<1>8. CASE CleanupExpired \/ UNCHANGED vars
  BY <1>8 DEF CleanupExpired, vars, store, fields
<1> QED
  BY <1>1, <1>2, <1>3, <1>4, <1>5, <1>6, <1>7, <1>8 DEF Next

\* While the mutex is held nothing leaves the map, and its holder neither moves on
\* without releasing it nor changes its session.
LEMMA HeldStays ==
  ASSUME Requests, Begun, Held, lock \in Logins \cup {None}, [Next]_vars
  PROVE  Held'
<1> USE AuthAssumption DEF Held, Requests, At, Goto, Procs, Free
<1>1. ASSUME NEW x \in Sessions, CreateSession(x) \/ Expire(x) PROVE Held'
  BY <1>1 DEF CreateSession, Expire
<1>2. ASSUME NEW m \in Logins, NEW x \in Sessions, Callback(m, x) PROVE Held'
  BY <1>2 DEF Callback, GetSession, store
<1>3. ASSUME NEW m \in Logins, NEW x \in Sessions, NEW v \in Users, Login(m, x, v) PROVE Held'
  BY <1>3 DEF Login, GetSession, store
<1>4. ASSUME NEW m \in Logins, Complete(m) PROVE Held'
  <2>1. CASE FetchKey(m)
    BY <2>1 DEF FetchKey, store
  <2>2. ASSUME NEW f \in Fields, WriteField(m, f) PROVE Held'
    BY <2>2 DEF WriteField, store, Entry
  <2>3. CASE StoreSession(m)
    BY <2>3 DEF StoreSession
  <2>4. CASE LockSession(m)
    BY <2>4 DEF LockSession
  <2>5. CASE UnlockSession(m)
    BY <2>5 DEF UnlockSession
  <2> QED
    BY <1>4, <2>1, <2>2, <2>3, <2>4, <2>5 DEF Complete
<1>5. ASSUME NEW p \in Polls, NEW x \in Sessions, Poll(p, x) PROVE Held'
  BY <1>5 DEF Poll, GetSession, store
<1>6. ASSUME NEW p \in Polls,
             CheckExpiry(p) \/ ReadStatus(p) \/ ReadStatusAgain(p) \/ ReadToken(p) \/ Answer(p)
      PROVE  Held'
  BY <1>6 DEF CheckExpiry, ReadStatus, ReadStatusAgain, ReadToken, Answer, store
<1>7. ASSUME NEW x \in Procs, DeleteSession(x) PROVE Held'
  BY <1>7 DEF DeleteSession
<1>8. CASE CleanupExpired \/ UNCHANGED vars
  BY <1>8 DEF CleanupExpired, vars, store, fields
<1> QED
  BY <1>1, <1>2, <1>3, <1>4, <1>5, <1>6, <1>7, <1>8 DEF Next

-----------------------------------------------------------------------------
(* Typing. *)

LEMMA InitInv == Init => IInv
<1> SUFFICES ASSUME Init PROVE IInv
  OBVIOUS
<1> USE AuthAssumption DEF Init
<1>1. Store /\ Objects
  BY DEF Store, Objects, Value
<1>2. Requests
  BY DEF Requests, Entry, Answers, Value, Steps, Fields, Procs
<1>3. Begun
  BY DEF Begun, Procs
<1>4. Origin /\ Held
  BY DEF Origin, Held
<1> QED
  BY <1>1, <1>2, <1>3, <1>4 DEF IInv

Typed == Store /\ Objects /\ Requests /\ Begun

LEMMA TypedStep == Typed /\ [Next]_vars => Typed'
<1> SUFFICES ASSUME Typed, [Next]_vars PROVE Typed'
  OBVIOUS
<1> USE AuthAssumption DEF Typed, Store, Objects, Requests, Begun, At, Goto, Procs, Steps, Ending
<1>1. ASSUME NEW x \in Sessions, CreateSession(x) \/ Expire(x) PROVE Typed'
  BY <1>1 DEF CreateSession, Expire, fields
<1>2. ASSUME NEW m \in Logins, NEW x \in Sessions, Callback(m, x) PROVE Typed'
  <2> USE <1>2 DEF Callback, GetSession, store, fields
  <2>1. Store' /\ Objects' /\ poll' \in [Polls -> Answers] /\ pc' \in [Procs -> Steps]
    OBVIOUS
  <2>2. login' \in [Logins -> Entry]
    <3>1. login[m] \in Entry /\ x \in Sessions
      OBVIOUS
    <3>2. login' = [login EXCEPT ![m] = [login[m] EXCEPT !.session = x, !.user = CoderUser, !.kind = "callback"]]
      BY <3>1 DEF Entry
    <3>3. [login[m] EXCEPT !.session = x, !.user = CoderUser, !.kind = "callback"] \in Entry
      BY <3>1 DEF Entry, Value
    <3> QED
      BY <3>2, <3>3
  <2>3. Begun'
    BY DEF Entry
  <2> QED
    BY <2>1, <2>2, <2>3
<1>3. ASSUME NEW m \in Logins, NEW x \in Sessions, NEW v \in Users, Login(m, x, v)
      PROVE  Typed'
  <2> USE <1>3 DEF Login, GetSession, store, fields
  <2>1. Store' /\ Objects' /\ poll' \in [Polls -> Answers] /\ pc' \in [Procs -> Steps]
    OBVIOUS
  <2>2. login' \in [Logins -> Entry]
    <3>1. login[m] \in Entry /\ x \in Sessions
      OBVIOUS
    <3>2. login' = [login EXCEPT ![m] = [login[m] EXCEPT !.session = x, !.user = v]]
      BY <3>1 DEF Entry
    <3>3. [login[m] EXCEPT !.session = x, !.user = v] \in Entry
      BY <3>1 DEF Entry, Value
    <3> QED
      BY <3>2, <3>3
  <2>3. Begun'
    BY DEF Entry
  <2> QED
    BY <2>1, <2>2, <2>3
<1>4. ASSUME NEW m \in Logins, Complete(m) PROVE Typed'
  <2>1. CASE FetchKey(m)
    BY <2>1 DEF FetchKey, store, fields
  <2>2. ASSUME NEW f \in Fields, WriteField(m, f) PROVE Typed'
    <3> USE <2>2 DEF WriteField, store
    <3>1. At(m, "writing")
      BY DEF NextFields
    <3>2. login[m].session \in Sessions /\ login[m].user \in Users
      BY <3>1
    <3>3. Store' /\ poll' \in [Polls -> Answers] /\ pc' \in [Procs -> Steps]
      OBVIOUS
    <3>4. Objects'
      BY <3>2 DEF Value
    <3>5. login' \in [Logins -> Entry]
      BY DEF Entry
    <3>6. Begun'
      BY DEF Entry
    <3> QED
      BY <3>3, <3>4, <3>5, <3>6
  <2>3. CASE StoreSession(m)
    BY <2>3 DEF StoreSession, fields
  <2>4. CASE LockSession(m)
    BY <2>4 DEF LockSession, fields
  <2>5. CASE UnlockSession(m)
    BY <2>5 DEF UnlockSession, fields
  <2> QED
    BY <1>4, <2>1, <2>2, <2>3, <2>4, <2>5 DEF Complete
<1>5. ASSUME NEW p \in Polls, NEW x \in Sessions, Poll(p, x) PROVE Typed'
  <2> USE <1>5 DEF Poll, GetSession, store, fields
  <2>1. Store' /\ Objects' /\ login' \in [Logins -> Entry] /\ pc' \in [Procs -> Steps]
    OBVIOUS
  <2>2. poll' \in [Polls -> Answers]
    BY DEF Answers
  <2>3. Begun'
    BY DEF Answers
  <2> QED
    BY <2>1, <2>2, <2>3
<1>6. ASSUME NEW p \in Polls, CheckExpiry(p) \/ ReadStatus(p) \/ ReadStatusAgain(p)
      PROVE  Typed'
  BY <1>6 DEF CheckExpiry, ReadStatus, ReadStatusAgain, store, fields
<1>7. ASSUME NEW p \in Polls, ReadToken(p) PROVE Typed'
  <2> USE <1>7 DEF ReadToken, store, fields
  <2>1. PICK v \in Value \cup {Torn} : poll' = [poll EXCEPT ![p].token = v]
    BY DEF Reads
  <2>2. Store' /\ Objects' /\ login' \in [Logins -> Entry] /\ pc' \in [Procs -> Steps]
    OBVIOUS
  <2>3. poll' \in [Polls -> Answers]
    BY <2>1 DEF Answers
  <2>4. Begun'
    BY <2>1 DEF Answers
  <2> QED
    BY <2>2, <2>3, <2>4
<1>8. ASSUME NEW p \in Polls, Answer(p) PROVE Typed'
  <2> USE <1>8 DEF Answer, store, fields
  <2>1. PICK v \in Value \cup {Torn} : poll' = [poll EXCEPT ![p].user = v]
    BY DEF Reads
  <2>2. Store' /\ Objects' /\ login' \in [Logins -> Entry] /\ pc' \in [Procs -> Steps]
    OBVIOUS
  <2>3. poll' \in [Polls -> Answers]
    BY <2>1 DEF Answers
  <2>4. Begun'
    BY <2>1 DEF Answers
  <2> QED
    BY <2>2, <2>3, <2>4
<1>9. ASSUME NEW x \in Procs, DeleteSession(x) PROVE Typed'
  BY <1>9 DEF DeleteSession, fields
<1>10. CASE CleanupExpired
  BY <1>10 DEF CleanupExpired, fields
<1>11. CASE UNCHANGED vars
  BY <1>11 DEF vars, store, fields
<1> QED
  BY <1>1, <1>2, <1>3, <1>4, <1>5, <1>6, <1>7, <1>8, <1>9, <1>10, <1>11 DEF Next

-----------------------------------------------------------------------------
(* Where tokens come from. *)

\* A step keeps the origin of what was there; what is new is shown case by case.
LEMMA OriginStays ==
  ASSUME Typed, Origin, [Next]_vars,
         \A s \in Sessions : \A u : u = token'[s] /\ u # token[s] =>
           \E l \in Logins : Wrote(l, s, u)',
         \A p \in Polls : poll'[p].token \in Users =>
           \/ poll'[p].token = poll[p].token /\ poll'[p].session = poll[p].session
           \/ /\ poll'[p].session \in Sessions
              /\ poll'[p].token = token[poll'[p].session]
  PROVE  Origin'
<1>1. \A l \in Logins : \A s, u : Wrote(l, s, u) => Wrote(l, s, u)'
  BY WroteStays DEF Typed
<1>2. ASSUME NEW s \in Sessions, token[s] \in Users
      PROVE  \E l \in Logins : Wrote(l, s, token[s])
  BY <1>2 DEF Origin
<1>3. ASSUME NEW s \in Sessions, NEW u, u = token'[s], u \in Users
      PROVE  \E l \in Logins : Wrote(l, s, u)'
  <2>1. CASE u = token[s]
    BY <1>1, <1>2, <1>3, <2>1
  <2>2. CASE u # token[s]
    BY <1>3, <2>2
  <2> QED
    BY <2>1, <2>2
<1>4. ASSUME NEW p \in Polls, NEW s, NEW u,
             s = poll'[p].session, u = poll'[p].token, u \in Users
      PROVE  \E l \in Logins : Wrote(l, s, u)'
  <2>1. CASE poll'[p].token = poll[p].token /\ poll'[p].session = poll[p].session
    <3>1. PICK l \in Logins : Wrote(l, s, u)
      BY <1>4, <2>1 DEF Origin
    <3> QED
      BY <1>1, <3>1
  <2>2. CASE s \in Sessions /\ u = token[s]
    BY <1>1, <1>2, <1>4, <2>2
  <2> QED
    BY <1>4, <2>1, <2>2
<1> QED
  BY <1>3, <1>4 DEF Origin, Wrote, Took

LEMMA OriginStep == Typed /\ Origin /\ [Next]_vars => Origin'
<1> SUFFICES ASSUME Typed, Origin, [Next]_vars PROVE Origin'
  OBVIOUS
<1> DEFINE
      SamePolls == \A p \in Polls : poll'[p].token \in Users =>
                     poll'[p].token = poll[p].token /\ poll'[p].session = poll[p].session
<1>1. ASSUME UNCHANGED token, SamePolls PROVE Origin'
  BY <1>1, OriginStays
<1>2. ASSUME UNCHANGED <<token, poll>> PROVE Origin'
  BY <1>1, <1>2
<1>3. ASSUME NEW x \in Sessions, CreateSession(x) \/ Expire(x) PROVE Origin'
  BY <1>2, <1>3 DEF CreateSession, Expire, fields
<1>4. ASSUME NEW m \in Logins, NEW x \in Sessions,
             Callback(m, x) \/ \E v \in Users : Login(m, x, v)
      PROVE  Origin'
  BY <1>2, <1>4 DEF Callback, Login, fields
<1>5. ASSUME NEW m \in Logins, Complete(m) PROVE Origin'
  <2>1. CASE FetchKey(m) \/ StoreSession(m) \/ LockSession(m) \/ UnlockSession(m)
    BY <1>2, <2>1 DEF FetchKey, StoreSession, LockSession, UnlockSession, fields
  <2>2. ASSUME NEW f \in Fields, WriteField(m, f) PROVE Origin'
    <3> DEFINE at == login[m].session
    <3>1. At(m, "writing") /\ UNCHANGED poll
      BY <2>2 DEF WriteField, NextFields
    <3>2. CASE f # "token"
      BY <1>2, <2>2, <3>1, <3>2 DEF WriteField
    <3>3. CASE f = "token"
      <4>1. at \in Sessions
        BY <3>1 DEF Typed, Begun, Store, At
      <4>2. token' = [token EXCEPT ![at] = login[m].user]
        BY <2>2, <3>3 DEF WriteField
      <4>3. ASSUME NEW s \in Sessions, NEW u, u = token'[s], u # token[s]
            PROVE  \E l \in Logins : Wrote(l, s, u)'
        <5>1. s = at /\ u = login[m].user
          BY <4>1, <4>2, <4>3 DEF Typed, Objects
        <5>2. Wrote(m, s, u)'
          BY <2>2, <3>1, <3>3, <5>1 DEF WriteField, Wrote, Took, At, Typed, Requests, Entry
        <5> QED
          BY <5>2
      <4>4. SamePolls
        BY <3>1
      <4> QED
        BY <4>3, <4>4, OriginStays
    <3> QED
      BY <3>2, <3>3
  <2> QED
    BY <1>5, <2>1, <2>2 DEF Complete
<1>6. ASSUME NEW p \in Polls, NEW x \in Sessions, Poll(p, x) PROVE Origin'
  <2>1. poll[p].token = None /\ None \notin Users
    BY <1>6, AuthAssumption DEF Poll, Typed, Begun, At
  <2>2. SamePolls
    BY <1>6, <2>1 DEF Poll, Typed, Requests, Answers
  <2> QED
    BY <1>1, <1>6, <2>2 DEF Poll, fields
<1>7. ASSUME NEW p \in Polls, CheckExpiry(p) \/ ReadStatus(p) \/ ReadStatusAgain(p)
      PROVE  Origin'
  BY <1>2, <1>7 DEF CheckExpiry, ReadStatus, ReadStatusAgain, fields
<1>8. ASSUME NEW p \in Polls, ReadToken(p) PROVE Origin'
  <2> DEFINE at == poll[p].session
  <2>1. at \in Sessions
    BY <1>8 DEF ReadToken, Typed, Begun, Store, At
  <2>2. PICK v \in Reads(at, "token", token[at]) : poll' = [poll EXCEPT ![p].token = v]
    BY <1>8 DEF ReadToken
  <2>3. v \in Users => v = token[at]
    BY AuthAssumption DEF Reads
  <2>4. ASSUME NEW q \in Polls, poll'[q].token \in Users
        PROVE  \/ poll'[q].token = poll[q].token /\ poll'[q].session = poll[q].session
               \/ poll'[q].session \in Sessions /\ poll'[q].token = token[poll'[q].session]
    BY <2>1, <2>2, <2>3, <2>4 DEF Typed, Requests, Answers
  <2>5. token' = token
    BY <1>8 DEF ReadToken, fields
  <2> QED
    BY <2>4, <2>5, OriginStays
<1>9. ASSUME NEW p \in Polls, Answer(p) PROVE Origin'
  <2>1. PICK v : poll' = [poll EXCEPT ![p].user = v]
    BY <1>9 DEF Answer
  <2>2. SamePolls
    BY <2>1 DEF Typed, Requests, Answers
  <2> QED
    BY <1>1, <1>9, <2>2 DEF Answer, fields
<1>10. CASE (\E x \in Procs : DeleteSession(x)) \/ CleanupExpired \/ UNCHANGED vars
  BY <1>2, <1>10 DEF DeleteSession, CleanupExpired, vars, fields
<1> QED
  BY <1>3, <1>4, <1>5, <1>6, <1>7, <1>8, <1>9, <1>10 DEF Next

-----------------------------------------------------------------------------
(* The theorems. *)

\* The invariant of the log-in: whatever log-ins, polls and deletions do, in any number.
THEOREM Invariant == Spec => []IInv
<1>1. IInv /\ [Next]_vars => IInv'
  <2> SUFFICES ASSUME IInv, [Next]_vars PROVE IInv'
    OBVIOUS
  <2>1. Typed'
    BY TypedStep DEF IInv, Typed
  <2>2. Origin'
    BY OriginStep DEF IInv, Typed
  <2>3. Held'
    BY HeldStays DEF IInv, Store
  <2> QED
    BY <2>1, <2>2, <2>3 DEF IInv, Typed
<1> QED
  BY InitInv, <1>1, PTL DEF Spec

\* The token of every answer is that of a user who logged in for this very session and
\* who wrote it before it was read (GetVSCodeAuthStatus, completeVSCodeAuth,
\* UpdateVSCodeAuthSession), for any number of sessions, log-ins and polls.
THEOREM TokenOfItsUser == Spec => []TokenIsOfALogin
<1>1. IInv => TokenIsOfALogin
  BY DEF IInv, Origin, TokenIsOfALogin, Wrote
<1> QED
  BY Invariant, <1>1, PTL

\* A session that was deleted is put back only by a local log-in that found it before
\* (completeVSCodeAuth), never by UpdateVSCodeAuthSession: its callers look the session
\* up under the mutex that every deletion needs.
THEOREM RevivedByLocalsOnly == Spec => NoRevivalByCallback
<1> DEFINE
      Local(s) == \E l \in Logins : /\ login[l].session = s /\ login[l].kind = "local"
                                    /\ At(l, "writing")
<1>1. IInv /\ [Next]_vars =>
        [\A s \in created : s \in stored' \ stored =>
           \E l \in Logins : login[l].session = s /\ login[l].kind = "local" /\ At(l, "writing")
        ]_vars
  <2> SUFFICES ASSUME IInv, [Next]_vars, NEW s \in created, s \in stored' \ stored
               PROVE  Local(s)
    OBVIOUS
  <2>1. ~ \E x \in Sessions : CreateSession(x) \/ Expire(x)
    BY DEF CreateSession, Expire
  <2>2. ~ \E l \in Logins, x \in Sessions : Callback(l, x) \/ \E u \in Users : Login(l, x, u)
    BY DEF Callback, Login, store
  <2>3. ASSUME NEW l \in Logins, Complete(l) PROVE Local(s)
    <3>1. ~FetchKey(l) /\ ~LockSession(l) /\ ~ \E f \in Fields : WriteField(l, f)
      BY DEF FetchKey, LockSession, WriteField, store
    <3>2. ~UnlockSession(l)
      BY DEF UnlockSession, IInv, Held
    <3>3. StoreSession(l)
      BY <2>3, <3>1, <3>2 DEF Complete
    <3> QED
      BY <3>3 DEF StoreSession
  <2>4. ~ \E p \in Polls : \/ \E x \in Sessions : Poll(p, x)
                           \/ CheckExpiry(p) \/ ReadStatus(p) \/ ReadStatusAgain(p)
                           \/ ReadToken(p) \/ Answer(p)
    BY DEF Poll, CheckExpiry, ReadStatus, ReadStatusAgain, ReadToken, Answer, store
  <2>5. ~ \E x \in Procs : DeleteSession(x)
    BY DEF DeleteSession
  <2>6. ~CleanupExpired /\ ~UNCHANGED vars
    BY DEF CleanupExpired, vars, store
  <2> QED
    BY <2>1, <2>2, <2>3, <2>4, <2>5, <2>6 DEF Next
<1> QED
  BY <1>1, Invariant, PTL DEF Spec, NoRevivalByCallback
=============================================================================
