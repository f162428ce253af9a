----------------------------- MODULE VSCodeAuth ------------------------------
(***************************************************************************)
(* The log-in of the VSCode extension.  The extension creates a session    *)
(* and polls it; the user logs in with a browser, which completes the      *)
(* session with the user's API token.  Sessions are shared by pointer: the *)
(* lock protects the map, not the fields, which a log-in writes and a poll *)
(* reads one by one.  Answered and expired sessions are deleted by         *)
(* goroutines and by a periodic clean-up.                                  *)
(*                                                                         *)
(* A session object is never copied, so it is identified with its id.      *)
(***************************************************************************)
EXTENDS FiniteSets, Naturals

CONSTANTS
  Sessions,
  Coder,       \* the sessions created for an external Coder server
  Users,       \* a user stands for its API token too
  CoderUser,   \* the one user every Coder callback logs in
  Logins,      \* log-ins and callbacks
  Polls,
  None, Torn   \* an empty field; one read while it was being written

ASSUME AuthAssumption ==
  /\ Coder \subseteq Sessions /\ CoderUser \in Users
  /\ None \notin Users \cup Logins /\ Torn \notin Users \cup {None}

VARIABLES
  stored,     \* the keys of vscodeAuthSessions
  created, expired,
  status, token, user,   \* the fields of every session object
  lock,       \* the callback in UpdateVSCodeAuthSession, which holds sessionMutex
  login,      \* for every log-in: kind, session, user and fields not yet written
  poll,       \* for every poll: session and what it has read
  pc,         \* next step of every log-in and poll
  deleting    \* log-ins and polls that started a goroutine to delete a session

fields == <<status, token, user>>
store == <<stored, created, expired, lock>>
vars == <<store, fields, login, poll, pc, deleting>>

Procs == Logins \cup Polls
Fields == {"status", "token", "user"}
Ending == {"done", "failed"}

Init ==
  /\ stored = {} /\ created = {} /\ expired = {}
  /\ status = [s \in Sessions |-> "pending"]
  /\ token = [s \in Sessions |-> None] /\ user = [s \in Sessions |-> None]
  /\ lock = None
  /\ login = [l \in Logins |-> [kind |-> "local", session |-> None, user |-> None, todo |-> Fields]]
  /\ poll = [p \in Polls |-> [session |-> None, token |-> None, user |-> None]]
  /\ pc = [x \in Procs |-> "idle"]
  /\ deleting = {}

At(x, step) == pc[x] = step
Goto(x, step) == pc' = [pc EXCEPT ![x] = step]
SessionOf(x) == IF x \in Logins THEN login[x].session ELSE poll[x].session
Free == lock = None

\* InitVSCodeAuth, InitCoderAuth.
CreateSession(s) ==
  /\ s \notin created /\ Free
  /\ created' = created \cup {s} /\ stored' = stored \cup {s}
  /\ UNCHANGED <<expired, lock, fields, login, poll, pc, deleting>>

\* GetVSCodeAuthSession: the pointer, or nothing; an expired session is deleted
\* later by a goroutine.
GetSession(x, s, next) ==
  /\ Free
  /\ Goto(x, IF s \in stored \ expired THEN next ELSE "failed")
  /\ deleting' = IF s \in stored \cap expired THEN deleting \cup {x} ELSE deleting

-----------------------------------------------------------------------------
(* Completing a session: a local log-in, or the callback of a Coder server. *)

Login(l, s, u) ==
  /\ At(l, "idle") /\ s \in created
  /\ login' = [login EXCEPT ![l].session = s, ![l].user = u]
  /\ GetSession(l, s, "key")
  /\ UNCHANGED <<store, fields, poll>>

\* CoderAuthCallback logs in a fixed user, whoever comes.
Callback(l, s) ==
  /\ At(l, "idle") /\ s \in created
  /\ login' = [login EXCEPT ![l].session = s, ![l].user = CoderUser, ![l].kind = "callback"]
  /\ GetSession(l, s, IF s \in Coder THEN "key" ELSE "failed")
  /\ UNCHANGED <<store, fields, poll>>

\* GetOrCreateUserDefaultToken: database work between the look-up and the writes.
FetchKey(l) ==
  /\ At(l, "key")
  /\ \/ Goto(l, IF login[l].kind = "local" THEN "writing" ELSE "update")
     \/ Goto(l, "failed")
  /\ UNCHANGED <<store, fields, login, poll, deleting>>

\* The fields l may write next: a local log-in writes them in this order, a
\* callback in the order a Go map is ranged over.
NextFields(l) ==
  LET todo == login[l].todo IN
  IF ~At(l, "writing") THEN {}
  ELSE IF login[l].kind = "callback" \/ todo = {} THEN todo
  ELSE {IF "status" \in todo THEN "status" ELSE IF "token" \in todo THEN "token" ELSE "user"}

\* Faulty variant: the fixed user of the callbacks is used in every log-in.
WriteFieldMock(l, f) ==
  LET s == login[l].session IN
  /\ f \in NextFields(l)
  /\ login' = [login EXCEPT ![l].todo = @ \ {f}]
  /\ status' = IF f = "status" THEN [status EXCEPT ![s] = "completed"] ELSE status
  /\ token' = IF f = "token" THEN [token EXCEPT ![s] = CoderUser] ELSE token
  /\ user' = IF f = "user" THEN [user EXCEPT ![s] = login[l].user] ELSE user
  /\ UNCHANGED <<store, poll, pc, deleting>>

WriteField(l, f) ==
  LET s == login[l].session IN
  /\ f \in NextFields(l)
  /\ login' = [login EXCEPT ![l].todo = @ \ {f}]
  /\ status' = IF f = "status" THEN [status EXCEPT ![s] = "completed"] ELSE status
  /\ token' = IF f = "token" THEN [token EXCEPT ![s] = login[l].user] ELSE token
  /\ user' = IF f = "user" THEN [user EXCEPT ![s] = login[l].user] ELSE user
  /\ UNCHANGED <<store, poll, pc, deleting>>

\* completeVSCodeAuth stores the pointer it was given, whatever became of it.
StoreSession(l) ==
  /\ At(l, "writing") /\ login[l].kind = "local" /\ login[l].todo = {} /\ Free
  /\ stored' = stored \cup {login[l].session}
  /\ Goto(l, "done")
  /\ UNCHANGED <<created, expired, lock, fields, login, poll, deleting>>

\* Faulty variant: the session found earlier is not looked up again.
LockSessionBlind(l) ==
  /\ At(l, "update") /\ Free
  /\ lock' = l /\ Goto(l, "writing")
  /\ UNCHANGED <<stored, created, expired, fields, login, poll, deleting>>

\* UpdateVSCodeAuthSession: looks the session up again, and writes under the lock.
LockSession(l) ==
  LET s == login[l].session IN
  /\ At(l, "update") /\ Free
  /\ stored' = IF s \in expired THEN stored \ {s} ELSE stored
  /\ IF s \in stored \ expired THEN lock' = l /\ Goto(l, "writing")
                               ELSE lock' = lock /\ Goto(l, "failed")
  /\ UNCHANGED <<created, expired, fields, login, poll, deleting>>

UnlockSession(l) ==
  /\ lock = l /\ At(l, "writing") /\ login[l].todo = {}
  /\ stored' = stored \cup {login[l].session}
  /\ lock' = None /\ Goto(l, "done")
  /\ UNCHANGED <<created, expired, fields, login, poll, deleting>>

-----------------------------------------------------------------------------
(* GetVSCodeAuthStatus. *)

Poll(p, s) ==
  /\ At(p, "idle") /\ s \in created
  /\ poll' = [poll EXCEPT ![p].session = s]
  /\ GetSession(p, s, "expiry")
  /\ UNCHANGED <<store, fields, login>>

\* A field that a log-in is about to write may also be read half written.
Reads(s, f, value) ==
  {value} \cup IF \E l \in Logins : login[l].session = s /\ f \in NextFields(l)
               THEN {Torn} ELSE {}

CheckExpiry(p) ==
  LET s == poll[p].session IN
  /\ At(p, "expiry")
  /\ IF s \in expired
     THEN Free /\ stored' = stored \ {s} /\ Goto(p, "failed")
     ELSE stored' = stored /\ Goto(p, "pending?")
  /\ UNCHANGED <<created, expired, lock, fields, login, poll, deleting>>

\* The status is read twice.
ReadStatus(p) ==
  /\ At(p, "pending?")
  /\ \E v \in Reads(poll[p].session, "status", status[poll[p].session]) :
       Goto(p, IF v = "pending" THEN "waiting" ELSE "completed?")
  /\ UNCHANGED <<store, fields, login, poll, deleting>>

ReadStatusAgain(p) ==
  /\ At(p, "completed?")
  /\ \E v \in Reads(poll[p].session, "status", status[poll[p].session]) :
       Goto(p, IF v = "completed" THEN "token" ELSE "failed")
  /\ UNCHANGED <<store, fields, login, poll, deleting>>

ReadToken(p) ==
  /\ At(p, "token")
  /\ \E v \in Reads(poll[p].session, "token", token[poll[p].session]) :
       poll' = [poll EXCEPT ![p].token = v]
  /\ Goto(p, "user")
  /\ UNCHANGED <<store, fields, login, deleting>>

\* The rest of the fields; a goroutine is started to delete the session.
Answer(p) ==
  /\ At(p, "user")
  /\ \E v \in Reads(poll[p].session, "user", user[poll[p].session]) :
       poll' = [poll EXCEPT ![p].user = v]
  /\ Goto(p, "done")
  /\ deleting' = deleting \cup {p}
  /\ UNCHANGED <<store, fields, login>>

-----------------------------------------------------------------------------
(* Deletion and time. *)

DeleteSession(x) ==
  /\ x \in deleting /\ Free
  /\ stored' = stored \ {SessionOf(x)}
  /\ deleting' = deleting \ {x}
  /\ UNCHANGED <<created, expired, lock, fields, login, poll, pc>>

\* Faulty variant: only sessions that were never completed are removed.
CleanupExpiredPending ==
  /\ Free
  /\ stored' = stored \ {s \in expired : status[s] = "pending"}
  /\ UNCHANGED <<created, expired, lock, fields, login, poll, pc, deleting>>

CleanupExpired ==
  /\ Free
  /\ stored' = stored \ expired
  /\ UNCHANGED <<created, expired, lock, fields, login, poll, pc, deleting>>

\* Ten minutes pass.
Expire(s) ==
  /\ s \in created \ expired
  /\ expired' = expired \cup {s}
  /\ UNCHANGED <<stored, created, lock, fields, login, poll, pc, deleting>>

Complete(l) ==
  \/ FetchKey(l) \/ (\E f \in Fields : WriteField(l, f)) \/ StoreSession(l)
  \/ LockSession(l) \/ UnlockSession(l)

Next ==
  \/ \E s \in Sessions : CreateSession(s) \/ Expire(s)
  \/ \E l \in Logins, s \in Sessions : Callback(l, s) \/ \E u \in Users : Login(l, s, u)
  \/ \E l \in Logins : Complete(l)
  \/ \E p \in Polls : \/ \E s \in Sessions : Poll(p, s)
                      \/ CheckExpiry(p) \/ ReadStatus(p) \/ ReadStatusAgain(p)
                      \/ ReadToken(p) \/ Answer(p)
  \/ \E x \in Procs : DeleteSession(x)
  \/ CleanupExpired

Spec == Init /\ [][Next]_vars
\* Handlers run on and the ticker never stops.
FairSpec ==
  /\ Spec
  /\ \A l \in Logins : WF_vars(Complete(l))
  /\ WF_vars(CleanupExpired)

-----------------------------------------------------------------------------
(* Properties. *)

Steps == {"idle", "key", "writing", "update", "expiry", "pending?", "completed?",
          "waiting", "token", "user"} \cup Ending

Answered(p) == At(p, "done")
Took(l, s) == login[l].session = s /\ pc[l] \in {"writing", "done"}

\* The token in an answer is that of a user who logged in for this very session,
\* and who wrote it before it was read, however log-ins, polls and deletions race.
TokenIsOfALogin ==
  \A p \in Polls : poll[p].token \in Users =>
    \E l \in Logins : /\ Took(l, poll[p].session) /\ login[l].user = poll[p].token
                      /\ "token" \notin login[l].todo

\* A deleted session comes back only when a local log-in that had found it stores
\* it again; a callback never brings one back.
NoRevivalByCallback ==
  [][\A s \in created : s \in stored' \ stored =>
       \E l \in Logins : login[l].session = s /\ login[l].kind = "local" /\ At(l, "writing")
    ]_vars

\* An expired session leaves the map for good, also when a late log-in stores it again.
ForgottenOnceExpired == \A s \in Sessions : s \in expired ~> [](s \notin stored)

-----------------------------------------------------------------------------
(* Statements that do not hold; see the observations in the README. *)

\* The architecture document: "Only return token once per session".
ReturnedOnce ==
  \A p, q \in Polls : Answered(p) /\ Answered(q) /\ p # q
                        => poll[p].session # poll[q].session

\* The architecture document shows the token in every completed answer.
CompletedCarriesToken == \A p \in Polls : Answered(p) => poll[p].token \in Users

\* The architecture document: "Ensure session is in pending state before completion".
CompletedFromPending ==
  \A l, m \in Logins : l # m /\ login[l].session = login[m].session
    /\ login[l].todo = {} /\ login[m].todo = {} => login[l].session = None
=============================================================================
