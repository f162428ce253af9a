------------------------------ MODULE Accounts ------------------------------
(***************************************************************************)
(* The rows of users, of a redemption code and of a token, and the API     *)
(* handlers that change them.  A handler that edits a row reads it, alters *)
(* a column or two and writes some set of columns back; nothing is locked  *)
(* in between.  Nodes share the database; each has its own set of banned   *)
(* users and its own map of verification codes.  Sessions are cookies:     *)
(* they keep the role and status a user had at log-in.  There is one e-    *)
(* mail address and one identity with another service (GitHub, Lark or     *)
(* OIDC, each with a column and handlers of its own) that everybody may    *)
(* try to bind; a behaviour uses one of these services.                    *)
(***************************************************************************)
EXTENDS Integers, FiniteSets

CONSTANTS
  Users,          \* ids of users, of the rows there are and of rows to come
  InitialRole,    \* the roles of the rows there are; 0 for a row to come
  Owner,          \* the user the token is of
  Handlers,       \* goroutines that serve requests
  Nodes,
  Families,       \* bound: a behaviour has at most max operations, all in ops, of one family
  MaxFaults       \* bound: statements that fail, and restarts

RoleCommonUser == 1
RoleAdminUser == 10
RoleRootUser == 100
RoleBetween == 5      \* a role that only UpdateUser gives

ASSUME AccountsAssumption ==
  /\ Users \cap {"code", "token", "none"} = {} /\ "none" \notin Nodes
  /\ InitialRole \in [Users -> {0, RoleCommonUser, RoleAdminUser, RoleRootUser}]
  /\ Owner \in Users /\ (\A family \in Families : family.max \in Nat) /\ MaxFaults \in Nat

VARIABLES
  rows,        \* the database: user rows, and the rows "code" and "token"
  sessions,    \* cookies of users that are logged in
  banned,      \* blackList of each node
  codes,       \* verificationMap of each node, by purpose: the number of the code, or 0
  h,           \* locals of the handlers
  bounds,      \* operations and faults so far, and the family
  meant,       \* history: the rows had every write changed only the columns it was about
  raced,       \* history: rows written as a whole from a copy that was out of date
  shaken,      \* history: users whose ban and status were written out of step
  unwritten,   \* history: columns that were reported as changed and were not
  statusAt,    \* history: the node that banned or released a user as it wrote the status last
  shared,      \* history: an identity was written on an answer that had failed or was out of date
  redeemed,    \* history: payments of the code, and how often it was reopened or read too early
  resets       \* history: reset codes that were used, and used again without overlap

ghosts == <<meant, raced, unwritten, shaken, statusAt, shared, redeemed, resets>>
vars == <<rows, sessions, banned, codes, h, bounds, ghosts>>

-----------------------------------------------------------------------------
(* Rows.  0 is the zero value of every column. *)

Objects == Users \cup {"code", "token"}
UserRow(role, email, identity) ==
  [role |-> role, status |-> 1, password |-> 1, email |-> email, identity |-> identity, quota |-> 1]
Absent == [role |-> 0, status |-> 0, password |-> 0, email |-> 0, identity |-> 0, quota |-> 0]
CodeRow == [status |-> 1, quota |-> 1]
TokenRow == [status |-> 1, remain |-> 1]

Exists(row) == row.status # 0
NonZero(row) == {c \in DOMAIN row : row[c] # 0}
Put(row, new, cols) == [c \in DOMAIN row |-> IF c \in cols THEN new[c] ELSE row[c]]

Holders(column) == {u \in Users : rows[u][column] = 1}
IsTaken(column) == Holders(column) # {}

\* RowsAffected is not 1: nobody has it, the query failed, or the library counts several.
FoundFree(column, faults) ==
  \/ faults = 0 /\ Cardinality(Holders(column)) # 1
  \/ faults = 1 /\ IsTaken(column) /\ bounds.faults < MaxFaults

-----------------------------------------------------------------------------
(* Handlers. *)

Request(op, on, set, to) == [op |-> op, on |-> on, set |-> set, to |-> to]
Idle == [pc |-> "idle", node |-> "none", me |-> "none", role |-> 0, req |-> Request("none", "none", "none", 0),
         new |-> <<>>, stale |-> FALSE, late |-> FALSE]
Reply(x) == h' = [h EXCEPT ![x] = Idle]

\* authHelper: the roles a request of a user may be given, by cookie or access token.
Roles(u, n) ==
  IF u \in banned[n] THEN {}
  ELSE {s.role : s \in {s \in {sessions[u]} : s.role # 0 /\ s.status # 2}} \cup
       {r.role : r \in {r \in {rows[u]} : Exists(r) /\ r.status # 2}}

May(op) == bounds.ops < bounds.family.max /\ op \in bounds.family.ops
SpendAnd(faults) == bounds' = [bounds EXCEPT !.ops = @ + 1, !.faults = @ + faults]
Spend == SpendAnd(0)

Begin(x, u, minRole, req, pc) ==
  /\ May(req.op) /\ h[x].pc = "idle"
  /\ \E n \in Nodes : \E role \in Roles(u, n) :
       /\ role >= minRole
       /\ req.op = "EmailBind" => codes[n].email # 0
       /\ h' = [h EXCEPT ![x] = [Idle EXCEPT !.pc = pc, !.node = n, !.me = u, !.role = role, !.req = req,
                                          !.new = IF pc = "write" THEN [Absent EXCEPT ![req.set] = req.to] ELSE <<>>]]
  /\ Spend
  /\ UNCHANGED <<rows, sessions, banned, codes, ghosts>>

BeginSelf(x, op, set, to, pc) == \E u \in Users : Begin(x, u, RoleCommonUser, Request(op, u, set, to), pc)
BeginAdmin(x, op, set, to) ==
  \E u, on \in Users : Begin(x, u, RoleAdminUser, Request(op, on, set, to), "read")

\* The routes of the other services look at the cookie alone.
BeginBind(x, op) ==
  /\ May(op) /\ Spend /\ h[x].pc = "idle"
  /\ \E n \in Nodes, u \in Users :
       /\ sessions[u].role # 0
       /\ h' = [h EXCEPT ![x] = [Idle EXCEPT !.pc = "check", !.node = n, !.me = u, !.role = sessions[u].role,
                                          !.req = Request(op, u, "identity", 1)]]
  /\ UNCHANGED <<rows, sessions, banned, codes, ghosts>>

\* Faulty variant: the columns are those of the whole body, the role among them.
UpdateSelfBody(x) == BeginSelf(x, "UpdateSelf", "role", RoleRootUser, "write")

GenerateAccessToken(x) == BeginSelf(x, "GenerateAccessToken", "none", 0, "read")
EmailBind(x) == BeginSelf(x, "EmailBind", "email", 1, "read")
GitHubBind(x) == BeginBind(x, "GitHubBind")
LarkBind(x) == BeginBind(x, "LarkBind")
OidcBind(x) == BeginBind(x, "OidcBind")
UpdateSelf(x) == BeginSelf(x, "UpdateSelf", "password", 2, "write")
DeleteSelf(x) == BeginSelf(x, "DeleteSelf", "status", 3, "read")
UpdateUser(x) ==
  \E e \in {<<"status", 1>>, <<"status", 2>>, <<"status", 3>>, <<"status", 4>>, <<"role", RoleBetween>>,
            <<"role", RoleAdminUser>>, <<"quota", 0>>, <<"quota", 3>>, <<"password", 3>>} :
    BeginAdmin(x, "UpdateUser", e[1], e[2])
ManageUser(x) ==
  \/ \E status \in {1, 2} : BeginAdmin(x, "ManageUser", "status", status)
  \/ \E role \in {RoleCommonUser, RoleAdminUser} : BeginAdmin(x, "ManageRole", "role", role)
  \/ BeginAdmin(x, "ManageDelete", "status", 3)
DeleteUser(x) == BeginAdmin(x, "DeleteUser", "status", 3)
TopUp(x) == \E u \in Users : Begin(x, u, RoleCommonUser, Request("Redeem", "code", "status", 3), "read")
UpdateRedemption(x) ==
  \E u \in Users : \E e \in {<<"status", 1>>, <<"status", 2>>, <<"quota", 2>>} :
    Begin(x, u, RoleAdminUser, Request("UpdateRedemption", "code", e[1], e[2]), "read")
UpdateToken(x) ==
  \E e \in {<<"status", 1>>, <<"status", 2>>, <<"remain", 2>>} :
    Begin(x, Owner, RoleCommonUser, Request("UpdateToken", "token", e[1], e[2]), "read")

\* Without Redis, a request by a token that has run out marks it.
ValidateUserToken(x) ==
  /\ May("ValidateUserToken") /\ Spend /\ h[x].pc = "idle"
  /\ \E n \in Nodes :
       h' = [h EXCEPT ![x] = [Idle EXCEPT !.pc = "read", !.node = n,
                                          !.req = Request("ValidateUserToken", "token", "status", 4)]]
  /\ UNCHANGED <<rows, sessions, banned, codes, ghosts>>

-----------------------------------------------------------------------------
(* What a handler makes of the row it has read. *)

Binding == {"GitHubBind", "LarkBind", "OidcBind"}
FirstLogin == {"GitHubOAuth", "LarkOAuth", "OidcAuth"}                                     \* of an identity
WholeRow == Binding \cup {"GenerateAccessToken", "EmailBind", "ManageUser", "ManageRole", "ManageDelete"}   \* write a user as read
Deleting == {"DeleteSelf", "DeleteUser", "ManageDelete"}                                       \* callers of User.Delete
Unread == Binding \cup {"EmailBind", "DeleteSelf"}                                             \* go on when the query fails

UpdateUserAllowed(role, req, row) ==
  role = RoleRootUser \/ (role > row.role /\ (req.set = "role" => role > req.to))

ManageUserAllowed(role, req, row) ==
  /\ role > row.role \/ role = RoleRootUser
  /\ req.set = "status" /\ req.to # 1 => row.role # RoleRootUser
  /\ req.set = "role" /\ req.to = RoleAdminUser => role = RoleRootUser /\ row.role < RoleAdminUser
  /\ req.set = "role" /\ req.to = RoleCommonUser => row.role \notin {RoleRootUser, RoleCommonUser}

\* A token that ran out is enabled again only once it has quota.
UpdateTokenAllowed(req, row) == (req.set = "status" /\ req.to = 1 /\ row.status = 4) => row.remain > 0

\* Faulty variant: a code is redeemed unless it is disabled.
RedeemAllowedUsed(row) == row.status # 2

RedeemAllowed(row) == row.status = 1

Permitted(l, row) ==
  CASE l.req.op = "UpdateUser" -> UpdateUserAllowed(l.role, l.req, row)
    [] l.req.op \in {"ManageUser", "ManageRole", "ManageDelete"} -> ManageUserAllowed(l.role, l.req, row)
    [] l.req.op = "DeleteUser" -> l.role > row.role
    [] l.req.op = "DeleteSelf" -> row.role # RoleRootUser
    [] l.req.op = "Redeem" -> RedeemAllowed(row)
    [] l.req.op = "UpdateToken" -> UpdateTokenAllowed(l.req, row)
    [] l.req.op = "ValidateUserToken" -> row.status = 1 /\ row.remain <= 0
    [] OTHER -> TRUE

Allowed(l, row) == Exists(row) /\ Permitted(l, row)

\* Faulty variant: Save everywhere.
ColumnsSave(l) == DOMAIN l.new

\* The columns that are written: Updates writes those of a struct that are not zero,
\* Select those it names, Save all.
Columns(l) ==
  CASE l.req.op \in WholeRow -> NonZero(l.new)
    [] l.req.op \in {"Redeem", "UpdateRedemption", "UpdateToken"} -> DOMAIN l.new
    [] OTHER -> {l.req.set} \cap NonZero(l.new)

Own(l) == IF l.req.set = "none" THEN {} ELSE {l.req.set}

\* User.Update bans for the status disabled and releases for enabled; User.Delete bans.
SetsBan(l) ==
  l.req.on \in Users /\ "status" \in Columns(l) /\ (l.new.status \in {1, 2} \/ l.req.op \in Deleting)

\* Faulty variant: whether the identity is free is not asked.
CheckNot(x) ==
  /\ h[x].pc = "check"
  /\ h' = [h EXCEPT ![x].pc = "read"]
  /\ UNCHANGED <<rows, sessions, banned, codes, bounds, ghosts>>

\* IsGitHubIdAlreadyTaken, IsLarkIdAlreadyTaken and IsOidcIdAlreadyTaken.
Check(x) ==
  /\ h[x].pc = "check"
  /\ \/ IsTaken("identity") /\ Reply(x) /\ UNCHANGED bounds
     \/ \E f \in {0, 1} :
          /\ FoundFree("identity", f)
          /\ h' = [h EXCEPT ![x].pc = "read", ![x].late = (f = 1)]
          /\ bounds' = [bounds EXCEPT !.faults = @ + f]
  /\ UNCHANGED <<rows, sessions, banned, codes, ghosts>>

Altered(l, row) == IF l.req.set = "none" THEN row ELSE [row EXCEPT ![l.req.set] = l.req.to]

GoOn(x, new) ==
  LET next == [h[x] EXCEPT !.new = new]
  IN  h' = [h EXCEPT ![x] = [next EXCEPT !.pc = IF SetsBan(next) THEN "ban" ELSE "write"]]

\* GetUserById, FillUserById, GetRedemptionById, GetTokenByIds and their callers' checks.
Read(x) ==
  LET l == h[x]
      row == rows[l.req.on]
  IN  /\ l.pc = "read" /\ l.req.op \notin FirstLogin
      /\ IF Allowed(l, row) THEN GoOn(x, Altered(l, row)) ELSE Reply(x)
      /\ UNCHANGED <<rows, sessions, banned, codes, bounds, ghosts>>

\* Faulty variant: a user that is deleted is not banned.
BannedAfterDisabled(l, set) ==
  CASE l.new.status = 1 -> set \ {l.req.on}
    [] l.new.status = 2 -> set \cup {l.req.on}
    [] OTHER -> set

\* User.Update and User.Delete.
BannedAfter(l, set) == IF l.new.status = 1 THEN set \ {l.req.on} ELSE set \cup {l.req.on}

\* The set of this node changes before the row is written.
BanStep(x) ==
  LET l == h[x]
  IN  /\ l.pc = "ban"
      /\ h' = [h EXCEPT ![x].pc = "write"]
      /\ banned' = [banned EXCEPT ![l.node] = BannedAfter(l, @)]
      /\ shaken' = IF \E y \in Handlers \ {x} : h[y].req.on = l.req.on /\ h[y].pc \in {"ban", "write"}
                   THEN shaken \cup {l.req.on} ELSE shaken
      /\ UNCHANGED <<rows, sessions, codes, bounds, meant, raced, unwritten, statusAt, shared, redeemed, resets>>

\* Copies of a row that was just written are out of date, and so is the answer to the
\* check of an identity that was just taken.
Noticed(locals, objects, identity) ==
  [y \in Handlers |->
    LET l == locals[y]
    IN  [l EXCEPT !.stale = @ \/ (l.req.on \in objects /\ l.pc \in {"ban", "write"}),
                  !.late = @ \/ (identity /\ l.req.op \in Binding \cup FirstLogin /\ l.pc \in {"read", "ban", "write"})]]

\* A status is written by a request of UpdateUser, or from a copy that is out of date,
\* and the set is left alone.
Unbanned(l) ==
  l.req.on \in Users /\ "status" \in Columns(l) /\ ~SetsBan(l) /\ (l.stale \/ l.req.op = "UpdateUser")

Credit(table, o, column, amount) == [table EXCEPT ![o][column] = @ + amount]

\* Opening the code is an excuse if it has been paid since it was last open.
Reopens(l) == l.req.on = "code" /\ Exists(rows["code"]) /\ l.new.status = 1 /\ redeemed.paid > redeemed.excuses

Redemption(l) ==
  CASE l.req.op = "Redeem" -> [redeemed EXCEPT !.paid = @ + 1, !.excuses = IF l.stale THEN @ + 1 ELSE @]
    [] l.req.op # "Redeem" /\ Reopens(l) -> [redeemed EXCEPT !.excuses = @ + 1]
    [] OTHER -> redeemed

\* The row is written, if it is still there; Save makes it anew.  Redeem adds to the
\* user's quota in the same transaction, and ManageUser writes a deleted user twice.
Write(x) ==
  LET l == h[x]
      o == l.req.on
      pay(table) == IF l.req.op = "Redeem" THEN Credit(table, l.me, "quota", l.new.quota) ELSE table
      put(row, cols) == IF Exists(row) \/ l.req.op = "Redeem" THEN Put(row, l.new, cols) ELSE row
      after == IF l.req.op = "ManageDelete" THEN [l EXCEPT !.req.op = "ManageUser", !.stale = FALSE] ELSE Idle
  IN  /\ l.pc = "write"
      /\ rows' = pay([rows EXCEPT ![o] = put(@, Columns(l))])
      /\ meant' = pay([meant EXCEPT ![o] = put(@, Own(l))])
      /\ raced' = IF l.stale /\ Columns(l) # Own(l) THEN raced \cup {o} ELSE raced
      /\ unwritten' = IF Own(l) \subseteq Columns(l) THEN unwritten \ ({o} \X Own(l)) ELSE unwritten \cup ({o} \X Own(l))
      /\ statusAt' = IF SetsBan(l) THEN [statusAt EXCEPT ![o] = l.node]
                     ELSE IF Unbanned(l) THEN [statusAt EXCEPT ![o] = "none"] ELSE statusAt
      /\ shared' = (shared \/ (l.req.op \in Binding /\ l.late))
      /\ redeemed' = Redemption(l)
      /\ h' = [Noticed(h, IF l.req.op = "Redeem" THEN {o, l.me} ELSE {o}, l.req.op \in Binding) EXCEPT ![x] = after]
      /\ UNCHANGED <<sessions, banned, codes, bounds, shaken, resets>>

Fault == bounds.faults < MaxFaults /\ bounds' = [bounds EXCEPT !.faults = @ + 1]

\* FillUserById drops the error of its query and DeleteSelf that of GetUserById: what
\* the request sets is written all the same.  Elsewhere the request ends, as if it never came.
ReadFails(x) ==
  LET l == h[x]
  IN  /\ l.pc = "read" /\ l.req.op \in Unread /\ Exists(rows[l.req.on]) /\ Fault
      /\ GoOn(x, Altered(l, Absent))
      /\ UNCHANGED <<rows, sessions, banned, codes, ghosts>>

WriteFails(x) ==
  /\ h[x].pc \in {"write", "reset"} /\ Fault
  /\ shaken' = IF h[x].pc = "write" /\ SetsBan(h[x]) THEN shaken \cup {h[x].req.on} ELSE shaken
  /\ Reply(x)
  /\ UNCHANGED <<rows, sessions, banned, codes, meant, raced, unwritten, statusAt, shared, redeemed, resets>>

-----------------------------------------------------------------------------
(* Statements that add to a column. *)

Add(o, column, amount, others) ==
  /\ rows' = Credit(rows, o, column, amount) /\ meant' = Credit(meant, o, column, amount)
  /\ h' = Noticed(others, {o}, FALSE)
  /\ UNCHANGED <<sessions, banned, codes, raced, unwritten, shaken, statusAt, shared, redeemed, resets>>

AdminTopUp ==
  /\ May("AdminTopUp") /\ Spend
  /\ \E u \in Users : Exists(rows[u]) /\ Add(u, "quota", 1, h)

\* A relay takes quota of a user or of a token.
Consume ==
  /\ May("Consume") /\ Spend
  /\ \/ \E u \in Users : Exists(rows[u]) /\ Add(u, "quota", -1, h)
     \/ Exists(rows["token"]) /\ Add("token", "remain", -1, h)

DeleteRow(op, o) ==
  /\ May(op) /\ Spend
  /\ Exists(rows[o])
  /\ rows' = [rows EXCEPT ![o] = [c \in DOMAIN @ |-> 0]] /\ meant' = [meant EXCEPT ![o] = [c \in DOMAIN @ |-> 0]]
  /\ h' = Noticed(h, {o}, FALSE)
  /\ UNCHANGED <<sessions, banned, codes, raced, unwritten, shaken, statusAt, shared, redeemed, resets>>

DeleteToken == (\E n \in Nodes : Roles(Owner, n) # {}) /\ DeleteRow("DeleteToken", "token")
DeleteRedemption ==
  /\ \E u \in Users, n \in Nodes : \E role \in Roles(u, n) : role >= RoleAdminUser
  /\ DeleteRow("DeleteRedemption", "code")

-----------------------------------------------------------------------------
(* New rows, sessions and verification codes. *)

\* An inviter is kept in me; e-mail verification may be on or off.
Register(x) ==
  /\ May("Register") /\ Spend /\ h[x].pc = "idle"
  /\ \E n \in Nodes : \E email \in {0, codes[n].email} : \E inviter \in {"none"} \cup {u \in Users : Exists(rows[u])} :
       h' = [h EXCEPT ![x] = [Idle EXCEPT !.pc = "insert", !.node = n, !.me = inviter,
                                          !.req = Request("Register", "none", "email", email)]]
  /\ UNCHANGED <<rows, sessions, banned, codes, ghosts>>

CreateUser(x) ==
  /\ May("CreateUser") /\ Spend /\ h[x].pc = "idle"
  /\ \E n \in Nodes, u \in Users : \E role \in Roles(u, n) :
       /\ role >= RoleAdminUser
       /\ h' = [h EXCEPT ![x] = [Idle EXCEPT !.pc = "insert", !.node = n, !.req = Request("CreateUser", "none", "email", 0)]]
  /\ UNCHANGED <<rows, sessions, banned, codes, ghosts>>

Session(row) == [role |-> row.role, status |-> row.status]
NoSession == [role |-> 0, status |-> 0]

\* An identity that is known logs its user in; one that is not gets a row, with the
\* address the service names, if it names one.
OAuth(x, op, emails) ==
  /\ May(op) /\ h[x].pc = "idle"
  /\ \/ /\ \E u \in Holders("identity") :
             sessions' = IF rows[u].status = 1 THEN [sessions EXCEPT ![u] = Session(rows[u])] ELSE sessions
        /\ Spend /\ UNCHANGED h
     \/ /\ \E f \in {0, 1}, email \in emails :
             /\ FoundFree("identity", f) /\ SpendAnd(f)
             /\ h' = [h EXCEPT ![x] = [Idle EXCEPT !.pc = "read", !.late = (f = 1),
                                                !.req = Request(op, "none", "email", email)]]
        /\ UNCHANGED sessions
  /\ UNCHANGED <<rows, banned, codes, ghosts>>

GitHubOAuth(x) == OAuth(x, "GitHubOAuth", {0, 1})
LarkOAuth(x) == OAuth(x, "LarkOAuth", {0})
OidcAuth(x) == OAuth(x, "OidcAuth", {0, 1})

\* User.Insert; with an inviter, two more statements follow.
Insert(x) ==
  LET l == h[x]
      oauth == l.req.op \in FirstLogin
  IN  /\ l.pc = "insert" \/ (l.pc = "read" /\ oauth)
      /\ \E u \in Users :
           LET row == UserRow(RoleCommonUser, l.req.to, IF oauth THEN 1 ELSE 0)
           IN  /\ rows[u] = Absent
               /\ rows' = [rows EXCEPT ![u] = row] /\ meant' = [meant EXCEPT ![u] = row]
               /\ sessions' = IF oauth THEN [sessions EXCEPT ![u] = Session(row)] ELSE sessions
               /\ h' = Noticed([h EXCEPT ![x] = IF l.me = "none" THEN Idle
                                                ELSE [l EXCEPT !.pc = "invitee", !.req.on = u]], {u}, oauth)
      /\ shared' = (shared \/ l.late)
      /\ UNCHANGED <<banned, codes, bounds, raced, unwritten, shaken, statusAt, redeemed, resets>>

InsertFails(x) ==
  /\ (h[x].pc = "insert" \/ (h[x].pc = "read" /\ h[x].req.op \in FirstLogin)) /\ Fault
  /\ Reply(x)
  /\ UNCHANGED <<rows, sessions, banned, codes, ghosts>>

\* IncreaseUserQuota of the invitee and then of the inviter.
Bonus(x) ==
  LET l == h[x]
  IN  /\ UNCHANGED bounds
      /\ \/ l.pc = "invitee" /\ Add(l.req.on, "quota", 1, [h EXCEPT ![x].pc = "inviter"])
         \/ l.pc = "inviter" /\ Add(l.me, "quota", 1, [h EXCEPT ![x] = Idle])

\* Their errors are dropped.
BonusFails(x) ==
  LET l == h[x]
      missed(u, next) == /\ h' = [h EXCEPT ![x] = next]
                         /\ meant' = Credit(meant, u, "quota", 1) /\ unwritten' = unwritten \cup {<<u, "quota">>}
  IN  /\ Fault
      /\ \/ l.pc = "invitee" /\ missed(l.req.on, [l EXCEPT !.pc = "inviter"])
         \/ l.pc = "inviter" /\ missed(l.me, Idle)
      /\ UNCHANGED <<rows, sessions, banned, codes, raced, shaken, statusAt, shared, redeemed, resets>>

Login ==
  /\ May("Login") /\ Spend
  /\ \E u \in Users : rows[u].status = 1 /\ sessions' = [sessions EXCEPT ![u] = Session(rows[u])]
  /\ UNCHANGED <<rows, banned, codes, h, ghosts>>

\* Logout, and authHelper for a user that is banned.
Logout ==
  /\ \E u \in Users :
       /\ sessions[u] # NoSession
       /\ sessions' = [sessions EXCEPT ![u] = NoSession]
       /\ \/ May("Logout") /\ Spend
          \/ (\E n \in Nodes : u \in banned[n]) /\ UNCHANGED bounds
  /\ UNCHANGED <<rows, banned, codes, h, ghosts>>

SendEmailVerification ==
  /\ May("SendEmailVerification")
  /\ \E f \in {0, 1} : FoundFree("email", f) /\ SpendAnd(f)
  /\ \E n \in Nodes : codes' = [codes EXCEPT ![n].email = 1]
  /\ UNCHANGED <<rows, sessions, banned, h, ghosts>>

SendPasswordResetEmail ==
  /\ May("SendPasswordResetEmail") /\ Spend
  /\ IsTaken("email")
  /\ \E n \in Nodes : codes' = [codes EXCEPT ![n].reset = bounds.ops + 1]
  /\ UNCHANGED <<rows, sessions, banned, h, ghosts>>

\* VerificationValidMinutes pass.
CodesExpire ==
  /\ \E n \in Nodes : codes[n] # [email |-> 0, reset |-> 0] /\ codes' = [codes EXCEPT ![n] = [email |-> 0, reset |-> 0]]
  /\ UNCHANGED <<rows, sessions, banned, h, bounds, ghosts>>

ResetPassword(x) ==
  /\ May("ResetPassword") /\ Spend /\ h[x].pc = "idle"
  /\ \E n \in Nodes :
       /\ codes[n].reset # 0
       /\ h' = [h EXCEPT ![x] = [Idle EXCEPT !.pc = "reset", !.node = n,
                                             !.req = Request("ResetPassword", "none", "password", codes[n].reset),
                                             !.late = \E y \in Handlers : h[y].pc = "delete" /\ h[y].req.to = codes[n].reset]]
  /\ UNCHANGED <<rows, sessions, banned, codes, ghosts>>

\* ResetUserPasswordByEmail: all rows with the address.
ResetRows(x) ==
  LET k == h[x].req.to
      owners == {u \in Users : rows[u].email = 1}
      reset(table) == [o \in Objects |-> IF o \in owners THEN [table[o] EXCEPT !.password = 4] ELSE table[o]]
      others == [h EXCEPT ![x].pc = "delete"]
  IN  /\ h[x].pc = "reset"
      /\ rows' = reset(rows) /\ meant' = reset(meant)
      /\ resets' = [resets EXCEPT !.used = @ \cup {k},
                                  !.again = IF k \in resets.used /\ ~h[x].late THEN @ \cup {k} ELSE @]
      /\ h' = Noticed([y \in Handlers |-> IF others[y].pc = "reset" /\ others[y].req.to = k
                                          THEN [others[y] EXCEPT !.late = TRUE] ELSE others[y]], owners, FALSE)
      /\ UNCHANGED <<sessions, banned, codes, bounds, raced, unwritten, shaken, statusAt, shared, redeemed>>

\* Faulty variant: the code is left.
DeleteKeyNot(x) ==
  /\ h[x].pc = "delete" /\ Reply(x)
  /\ UNCHANGED <<rows, sessions, banned, codes, bounds, ghosts>>

\* Whatever code is there now.
DeleteKey(x) ==
  /\ h[x].pc = "delete" /\ Reply(x)
  /\ codes' = [codes EXCEPT ![h[x].node].reset = 0]
  /\ UNCHANGED <<rows, sessions, banned, bounds, ghosts>>

\* A node restarts: its handlers and what it had in memory are gone.
Restart ==
  /\ Fault
  /\ \E n \in Nodes :
       /\ banned' = [banned EXCEPT ![n] = {}]
       /\ codes' = [codes EXCEPT ![n] = [email |-> 0, reset |-> 0]]
       /\ h' = [x \in Handlers |-> IF h[x].node = n THEN Idle ELSE h[x]]
       /\ shaken' = shaken \cup {u \in Users : u \in banned[n] \/ \E x \in Handlers : h[x].node = n /\ h[x].req.on = u}
  /\ UNCHANGED <<rows, sessions, meant, raced, unwritten, statusAt, shared, redeemed, resets>>

-----------------------------------------------------------------------------
Init ==
  /\ rows = [o \in Objects |-> CASE o = "code" -> CodeRow
                                 [] o = "token" -> TokenRow
                                 [] o \in Users -> IF InitialRole[o] = 0 THEN Absent ELSE UserRow(InitialRole[o], 0, 0)]
  /\ sessions = [u \in Users |-> IF InitialRole[u] = 0 THEN NoSession ELSE Session(rows[u])]
  /\ banned = [n \in Nodes |-> {}] /\ codes = [n \in Nodes |-> [email |-> 0, reset |-> 0]]
  /\ h = [x \in Handlers |-> Idle]
  /\ \E family \in Families : bounds = [ops |-> 0, faults |-> 0, family |-> family]
  /\ meant = rows /\ raced = {} /\ unwritten = {} /\ shaken = {} /\ statusAt = [u \in Users |-> "none"]
  /\ shared = FALSE /\ redeemed = [paid |-> 0, excuses |-> 0] /\ resets = [used |-> {}, again |-> {}]

Handle(x) ==
  \/ GenerateAccessToken(x) \/ EmailBind(x) \/ GitHubBind(x) \/ LarkBind(x) \/ OidcBind(x) \/ UpdateSelf(x) \/ DeleteSelf(x) \/ UpdateUser(x)
  \/ ManageUser(x) \/ DeleteUser(x) \/ TopUp(x) \/ UpdateRedemption(x) \/ UpdateToken(x) \/ ValidateUserToken(x)
  \/ Register(x) \/ CreateUser(x) \/ GitHubOAuth(x) \/ LarkOAuth(x) \/ OidcAuth(x) \/ ResetPassword(x)
  \/ Check(x) \/ Read(x) \/ ReadFails(x) \/ BanStep(x) \/ Write(x) \/ WriteFails(x)
  \/ Insert(x) \/ InsertFails(x) \/ Bonus(x) \/ BonusFails(x) \/ ResetRows(x) \/ DeleteKey(x)

Next ==
  \/ \E x \in Handlers : Handle(x)
  \/ AdminTopUp \/ Consume \/ DeleteToken \/ DeleteRedemption \/ Login \/ Logout
  \/ SendEmailVerification \/ SendPasswordResetEmail \/ CodesExpire \/ Restart

Spec == Init /\ [][Next]_vars

-----------------------------------------------------------------------------
(* Properties. *)

\* A column holds what the operations on it were about, unless a handler wrote the row
\* as a whole from a copy that another statement had made out of date (User.Update of a
\* row that was read, Save), or the operation was reported as done and its change was
\* left out: a quota of zero, which Updates skips, or a bonus of Insert that failed.
LossHasCause ==
  \A o \in Objects \ raced : \A c \in DOMAIN rows[o] : <<o, c>> \notin unwritten => rows[o][c] = meant[o][c]

Settled(u) == \A x \in Handlers : ~(h[x].req.on = u /\ h[x].pc \in {"ban", "write"})

\* A node that wrote a user's status has the user banned if and only if the user is
\* disabled or deleted (User.Update and User.Delete), until the status is written by
\* another node, by UpdateUser with a value that neither bans nor releases, or back from
\* a copy of a deleted row that is out of date; unless two bans or releases overlapped,
\* the write after one failed, or a node was restarted.
BanFollowsRow ==
  \A u \in Users \ shaken : \A n \in Nodes :
    (statusAt[u] = n /\ Settled(u)) => (u \in banned[n] <=> rows[u].status \in {2, 3})

\* Two users have the same identity with another service only if a handler wrote it on
\* an answer that was out of date, another being about to write it, or that came of a
\* failed query, which counts as free (IsGitHubIdAlreadyTaken and its like).
IdentityUnique == Cardinality({u \in Users : rows[u].identity = 1}) > 1 => shared

\* The code is paid once, and once more for every time an administrator opened a code
\* that was paid, be it by writing back a status from before, or a handler read it before
\* the payment of another was there (Redeem, whose FOR UPDATE is not sent to the database).
PaidOnce == redeemed.paid <= 1 + redeemed.excuses

\* A code to reset a password serves once, or for requests that overlap.
ResetOnce == resets.again = {}

WritesOf(x, u) == h[x].pc = "write" /\ h[x].req.on = u /\ h'[x] # h[x]

\* A role rises only by a request of the root user, or by an administrator's and to a
\* role below his own (UpdateUser compares with his role alone), and a user that is
\* disabled, deleted or of no known status is enabled again only by an administrator's
\* request; a write of a whole row that is out of date may undo what was changed in between.
RightsFollowRoles ==
  [][\A u \in Users :
       /\ (rows[u].role # 0 /\ rows'[u].role > rows[u].role) =>
            \E x \in Handlers : /\ WritesOf(x, u)
                                /\ \/ h[x].role = RoleRootUser \/ h[x].stale
                                   \/ h[x].role >= RoleAdminUser /\ h[x].role > rows'[u].role
       /\ (rows[u].status \notin {0, 1} /\ rows'[u].status = 1) =>
            \E x \in Handlers : WritesOf(x, u) /\ (h[x].role >= RoleAdminUser \/ h[x].stale)]_vars

-----------------------------------------------------------------------------
(* Statements that do not hold; see the observations in the README. *)

\* Two users never have the same e-mail address: EmailBind's comment says the code has
\* been checked for it, but a code outlives its use.
EmailUnique == Cardinality({u \in Users : rows[u].email = 1}) <= 1

=============================================================================
