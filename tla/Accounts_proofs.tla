-------------------------- MODULE Accounts_proofs --------------------------
(***************************************************************************)
(* The safety properties of Accounts for any users, handlers, nodes,       *)
(* families of operations and bounds.  None of them is inductive: each     *)
(* follows from what the copies that handlers have made of the rows still  *)
(* have to do with the rows, and that is what the invariant says.          *)
(***************************************************************************)
EXTENDS Accounts, FiniteSetTheorems, TLAPS

-----------------------------------------------------------------------------
(* The invariant. *)

UserColumns == {"role", "status", "password", "email", "identity", "quota"}
Width(o) == IF o \in Users THEN UserColumns ELSE IF o = "code" THEN {"status", "quota"} ELSE {"status", "remain"}
RoleValues == {0, RoleCommonUser, RoleBetween, RoleAdminUser, RoleRootUser}

\* Sessions and verification codes.
Kept ==
  /\ DOMAIN sessions = Users /\ \A u \in Users : sessions[u].role \in RoleValues
  /\ DOMAIN codes = Nodes /\ \A n \in Nodes : DOMAIN codes[n] = {"email", "reset"} /\ codes[n].email \in {0, 1}

\* The rows have their columns, and users the roles, statuses and identities there are.
Tables ==
  /\ DOMAIN rows = Objects /\ DOMAIN meant = Objects
  /\ \A o \in Objects : rows[o] \in [Width(o) -> Int]
  /\ \A u \in Users : rows[u].role \in RoleValues /\ rows[u].status \in 0..4 /\ rows[u].identity \in {0, 1}
  /\ Kept

LocalFields == {"pc", "node", "me", "role", "req", "new", "stale", "late"}
RequestFields == {"op", "on", "set", "to"}
Writing == {"ban", "write"}

OnRow(l) == l.pc \in Writing \cup {"check"} \/ (l.pc = "read" /\ l.req.op \notin FirstLogin)

\* The requests that are served, and by whom.
AskedOfUser(l) ==
  \/ l.req.op = "GenerateAccessToken" /\ l.req.set = "none"
  \/ l.req.op = "EmailBind" /\ l.req.set = "email" /\ l.req.to = 1
  \/ l.req.op \in Binding /\ l.req.set = "identity" /\ l.req.to = 1
  \/ l.req.op = "UpdateSelf" /\ l.req.set = "password" /\ l.req.to = 2 /\ l.pc = "write"
  \/ l.req.op = "DeleteSelf" /\ l.req.set = "status" /\ l.req.to = 3
  \/ /\ l.role >= RoleAdminUser
     /\ \/ l.req.op \in {"DeleteUser", "ManageDelete"} /\ l.req.set = "status" /\ l.req.to = 3
        \/ l.req.op = "ManageUser" /\ l.req.set = "status" /\ l.req.to \in {1, 2}
        \/ l.req.op = "UpdateUser" /\ l.req.set = "status" /\ l.req.to \in 1..4
        \/ l.req.op = "ManageRole" /\ l.req.set = "role" /\ l.req.to \in {RoleCommonUser, RoleAdminUser}
        \/ l.req.op = "UpdateUser" /\ l.req.set = "role" /\ l.req.to \in {RoleBetween, RoleAdminUser}
        \/ l.req.op = "UpdateUser" /\ l.req.set = "quota" /\ l.req.to \in {0, 3}
        \/ l.req.op = "UpdateUser" /\ l.req.set = "password" /\ l.req.to = 3
        \/ l.req.op = "ManageUser" /\ l.req.set = "status" /\ l.req.to = 3 /\ l.pc = "write"

Asked(l) ==
  \/ l.req.on \in Users /\ AskedOfUser(l)
  \/ /\ l.req.on = "code"
     /\ \/ l.req.op = "Redeem" /\ l.req.set = "status" /\ l.req.to = 3 /\ l.me \in Users
        \/ l.req.op = "UpdateRedemption" /\ l.req.set \in {"status", "quota"} /\ l.req.to \in {1, 2}
  \/ /\ l.req.on = "token" /\ l.req.op \in {"UpdateToken", "ValidateUserToken"}
     /\ l.req.set \in {"status", "remain"} /\ l.req.to \in {1, 2, 4}

\* The row that a new user gets is still to be written.
Inserting(l) == l.pc = "insert" \/ (l.pc = "read" /\ l.req.op \in FirstLogin)

Local(l) ==
  /\ DOMAIN l = LocalFields /\ DOMAIN l.req = RequestFields
  /\ l.role \in RoleValues /\ l.stale \in BOOLEAN /\ l.late \in BOOLEAN
  /\ OnRow(l) => Asked(l) /\ l.node \in Nodes
  /\ Inserting(l) => l.req.to \in {0, 1} /\ l.me \in Users \cup {"none"} /\ (l.pc = "insert" => l.req.op \notin FirstLogin)
  /\ l.pc = "invitee" => l.req.on \in Users
  /\ l.pc \in {"invitee", "inviter"} => l.me \in Users

\* What a handler that is going to write has to do with the row it read: it is there,
\* and, if no other statement has changed it since, the columns that are written beside
\* the one the request is about hold what they held.
Current(l) ==
  /\ l.req.op = "Redeem" => rows["code"].status = 1
  /\ Exists(rows[l.req.on]) \/ l.req.op = "Redeem" =>
       \A c \in Width(l.req.on) : c \in Columns(l) \ Own(l) => l.new[c] = rows[l.req.on][c]
  /\ l.req.on \in Users /\ "status" \in Columns(l) /\ ~SetsBan(l) /\ l.req.op # "UpdateUser" =>
       l.new.status = rows[l.req.on].status

Copy(l) ==
  /\ l.new \in [Width(l.req.on) -> Int]
  /\ l.req.set # "none" => l.new[l.req.set] = l.req.to
  /\ l.pc = "ban" => SetsBan(l)
  /\ l.req.set = "role" => l.role = RoleRootUser \/ l.req.to < l.role
  /\ l.req.on \in Users /\ l.req.op # "UpdateSelf" =>
       /\ Exists(rows[l.req.on]) /\ l.new.status \in 0..4 /\ l.new.role \in RoleValues
       /\ l.new.identity \in {0, 1} /\ (l.new.identity = 1 => l.req.op \in Binding \/ rows[l.req.on].identity = 1)
  /\ ~l.stale => Current(l)

\* Until somebody wrote it on an answer that was no good, one user at most has the
\* identity, and none while a handler that found it free has still to write it.
Claims(l) == \/ l.req.op \in Binding /\ l.pc \in {"read", "ban", "write"}
             \/ l.req.op \in FirstLogin /\ l.pc = "read"

Identities ==
  ~shared =>
    /\ \A u, v \in Users : rows[u].identity = 1 /\ rows[v].identity = 1 => u = v
    /\ \A x \in Handlers : Claims(h[x]) /\ ~h[x].late => ~IsTaken("identity")

\* A code that is open has an excuse for every payment.
Payments ==
  /\ DOMAIN redeemed = {"paid", "excuses"} /\ redeemed.paid \in Int /\ redeemed.excuses \in Int
  /\ redeemed.paid <= 1 + redeemed.excuses
  /\ rows["code"].status = 1 => redeemed.paid <= redeemed.excuses

\* A reset code is on one node, and once it was used it is about to be deleted.
Resetting(l) == l.pc \in {"reset", "delete"}

ResetCodes ==
  /\ DOMAIN bounds = {"ops", "faults", "family"} /\ bounds.ops \in Nat /\ DOMAIN resets = {"used", "again"}
  /\ \A n \in Nodes : codes[n].reset \in 0..bounds.ops
  /\ \A n, m \in Nodes : codes[n].reset = codes[m].reset => n = m \/ codes[n].reset = 0
  /\ \A x \in Handlers : Resetting(h[x]) => /\ h[x].node \in Nodes /\ h[x].req.to \in 1..bounds.ops
                                            /\ \A n \in Nodes : codes[n].reset = h[x].req.to => n = h[x].node

Used ==
  /\ resets.again = {} /\ resets.used \subseteq 1..bounds.ops
  /\ \A n \in Nodes : codes[n].reset \in resets.used =>
       \E x \in Handlers : h[x].pc = "delete" /\ h[x].req.to = codes[n].reset
  /\ \A x \in Handlers : h[x].pc = "reset" /\ h[x].req.to \in resets.used => h[x].late

\* A handler between its ban, or release, and its write.
Changing(l, u) == l.pc = "write" /\ l.req.on = u /\ SetsBan(l)

Bans ==
  /\ DOMAIN banned = Nodes /\ DOMAIN statusAt = Users
  /\ \A u \in Users : statusAt[u] # "none" => Exists(rows[u])
  /\ \A u \in Users \ shaken :
       /\ (\A x \in Handlers : ~Changing(h[x], u)) =>
            \A n \in Nodes : statusAt[u] = n => (u \in banned[n] <=> rows[u].status \in {2, 3})
       /\ \A x \in Handlers : Changing(h[x], u) => (u \in banned[h[x].node] <=> h[x].new.status # 1)

Handled(x) == Local(h[x]) /\ (h[x].pc \in Writing => Copy(h[x]))

IInv == Tables /\ DOMAIN h = Handlers /\ \A x \in Handlers : Handled(x)

-----------------------------------------------------------------------------
(* What a step leaves of the handlers that do not take it. *)

\* Nothing of the locals changes but the history, and no copy that counts as current is of
\* a row that has changed.
Carried(y) ==
  /\ DOMAIN h'[y] = LocalFields /\ h'[y].stale \in BOOLEAN /\ h'[y].late \in BOOLEAN
  /\ h'[y].pc = h[y].pc /\ h'[y].node = h[y].node /\ h'[y].me = h[y].me
  /\ h'[y].role = h[y].role /\ h'[y].req = h[y].req /\ h'[y].new = h[y].new
  /\ (h[y].stale => h'[y].stale) /\ (h[y].late => h'[y].late)
  /\ h[y].pc \in Writing /\ ~h'[y].stale => rows'[h[y].req.on] = rows[h[y].req.on]

\* Users stay, and keep an identity.
Grows == \A u \in Users : /\ Exists(rows[u]) => Exists(rows'[u])
                          /\ rows[u].identity = 1 => rows'[u].identity = 1

LEMMA CarriedKeeps ==
  ASSUME NEW y \in Handlers, Handled(y), Carried(y), Grows
  PROVE  Handled(y)'
<1>1. Local(h[y]) /\ (h[y].pc \in Writing => Copy(h[y]))
  BY DEF Handled
<1>2. Local(h[y])'
  BY <1>1 DEF Carried, Local, OnRow, Inserting, Asked, AskedOfUser
<1>3. ASSUME h[y].pc \in Writing PROVE Copy(h[y])'
  <2>1. Columns(h[y])' = Columns(h[y]) /\ Own(h[y])' = Own(h[y]) /\ (SetsBan(h[y])' <=> SetsBan(h[y]))
    BY DEF Carried, Columns, Own, SetsBan, NonZero
  <2>2. ~h'[y].stale => Current(h[y])'
    <3> SUFFICES ASSUME ~h'[y].stale PROVE Current(h[y])'
      OBVIOUS
    <3>1. Current(h[y]) /\ rows'[h[y].req.on] = rows[h[y].req.on] /\ h'[y].req = h[y].req /\ h'[y].new = h[y].new
      BY <1>1, <1>3 DEF Carried, Copy
    <3>2. h[y].req.op = "Redeem" => h[y].req.on = "code"
      BY <1>1, <1>3 DEF Local, OnRow, Asked, AskedOfUser, Binding
    <3> QED
      BY <2>1, <3>1, <3>2 DEF Current
  <2>3. Exists(rows[h[y].req.on]) /\ h[y].req.on \in Users => Exists(rows'[h[y].req.on])
    BY DEF Grows
  <2> QED
    BY <1>1, <1>3, <2>1, <2>2, <2>3 DEF Carried, Copy, Grows
<1> QED
  BY <1>2, <1>3 DEF Handled, Carried

LEMMA NoticedIs ==
  ASSUME NEW g, NEW objects, NEW identity \in BOOLEAN, NEW y \in Handlers, Local(g[y])
  PROVE  /\ DOMAIN Noticed(g, objects, identity)[y] = LocalFields
         /\ Noticed(g, objects, identity)[y].pc = g[y].pc /\ Noticed(g, objects, identity)[y].node = g[y].node
         /\ Noticed(g, objects, identity)[y].me = g[y].me /\ Noticed(g, objects, identity)[y].role = g[y].role
         /\ Noticed(g, objects, identity)[y].req = g[y].req /\ Noticed(g, objects, identity)[y].new = g[y].new
         /\ Noticed(g, objects, identity)[y].stale \in BOOLEAN /\ Noticed(g, objects, identity)[y].late \in BOOLEAN
         /\ Noticed(g, objects, identity)[y].stale <=> g[y].stale \/ (g[y].req.on \in objects /\ g[y].pc \in Writing)
         /\ Noticed(g, objects, identity)[y].late <=>
              g[y].late \/ (identity /\ g[y].req.op \in Binding \cup FirstLogin /\ g[y].pc \in {"read", "ban", "write"})
  BY DEF Noticed, Local, LocalFields, Writing

\* What a statement that changes some rows, or the identity, does to the other handlers.
LEMMA NoticedCarries ==
  ASSUME IInv, NEW g, NEW objects, NEW identity \in BOOLEAN, NEW y \in Handlers,
         g[y] = h[y], h'[y] = Noticed(g, objects, identity)[y],
         \A o \in Objects \ objects : rows'[o] = rows[o]
  PROVE  /\ Carried(y)
         /\ identity /\ Claims(h[y]) => h'[y].late
<1>1. Local(h[y])
  BY DEF IInv, Handled
<1>2. h[y].pc \in Writing => h[y].req.on \in Objects
  BY <1>1 DEF Local, OnRow, Asked, AskedOfUser, Objects
<1>3. Local(g[y])
  BY <1>1, Zenon
<1> QED
  BY <1>1, <1>2, <1>3, NoticedIs DEF Carried, Claims

LEMMA UnchangedCarries ==
  ASSUME IInv, NEW y \in Handlers, h'[y] = h[y], UNCHANGED rows
  PROVE  Carried(y)
  BY DEF IInv, Handled, Local, Carried

-----------------------------------------------------------------------------
(* Requests arrive. *)

Start(x) ==
  \/ GenerateAccessToken(x) \/ EmailBind(x) \/ GitHubBind(x) \/ LarkBind(x) \/ OidcBind(x) \/ UpdateSelf(x)
  \/ DeleteSelf(x) \/ UpdateUser(x) \/ ManageUser(x) \/ DeleteUser(x) \/ TopUp(x) \/ UpdateRedemption(x)
  \/ UpdateToken(x) \/ ValidateUserToken(x) \/ Register(x) \/ CreateUser(x)
  \/ GitHubOAuth(x) \/ LarkOAuth(x) \/ OidcAuth(x) \/ ResetPassword(x)

\* What a request finds, and what a handler starts with.
Started(l) ==
  /\ Local(l) /\ ~l.stale /\ l.pc \in {"check", "read", "write", "insert", "reset"}
  /\ l.pc = "write" => Copy(l) /\ l.req.op = "UpdateSelf" /\ l.req.on \in Users
  /\ Claims(l) => l.late \/ Cardinality(Holders("identity")) # 1
  /\ l.pc = "reset" =>
       /\ l.node \in Nodes /\ l.req.to = codes[l.node].reset /\ l.req.to # 0
       /\ l.late <=> \E y \in Handlers : h[y].pc = "delete" /\ h[y].req.to = l.req.to

LEMMA RoleGiven ==
  ASSUME Tables, NEW u \in Users, NEW n, NEW role \in Roles(u, n)
  PROVE  role \in RoleValues
<1>1. role \in {s.role : s \in {s \in {sessions[u]} : s.role # 0 /\ s.status # 2}} \cup
               {r.role : r \in {r \in {rows[u]} : Exists(r) /\ r.status # 2}}
  BY DEF Roles
<1>2. role = sessions[u].role \/ role = rows[u].role
  BY <1>1, Zenon
<1> QED
  BY <1>2 DEF Tables, Kept

\* A request of a user with such a role is one of those there are.
Serves(u, minRole, op, on, set, to, pc) ==
  \A l : (/\ l.req.op = op /\ l.req.on = on /\ l.req.set = set /\ l.req.to = to
          /\ l.me = u /\ l.pc = pc /\ l.role >= minRole) => Asked(l)

LEMMA BeginStarts ==
  ASSUME IInv, NEW x \in Handlers, NEW u \in Users, NEW minRole, NEW pc \in {"read", "write"},
         NEW op, NEW on, NEW set, NEW to, Begin(x, u, minRole, Request(op, on, set, to), pc),
         Serves(u, minRole, op, on, set, to, pc), op \notin Binding \cup FirstLogin,
         pc = "write" => op = "UpdateSelf" /\ on \in Users /\ set = "password" /\ to = 2
  PROVE  \E l : h' = [h EXCEPT ![x] = l] /\ Started(l)
<1>0. PICK n \in Nodes : \E role \in Roles(u, n) :
        /\ role >= minRole
        /\ h' = [h EXCEPT ![x] = [Idle EXCEPT !.pc = pc, !.node = n, !.me = u, !.role = role, !.req = Request(op, on, set, to),
                                             !.new = IF pc = "write" THEN [Absent EXCEPT ![set] = to] ELSE <<>>]]
  BY DEF Begin, Request
<1>1. PICK role \in Roles(u, n) :
        /\ role >= minRole
        /\ h' = [h EXCEPT ![x] = [Idle EXCEPT !.pc = pc, !.node = n, !.me = u, !.role = role, !.req = Request(op, on, set, to),
                                             !.new = IF pc = "write" THEN [Absent EXCEPT ![set] = to] ELSE <<>>]]
  BY <1>0
<1> DEFINE l == [Idle EXCEPT !.pc = pc, !.node = n, !.me = u, !.role = role, !.req = Request(op, on, set, to),
                             !.new = IF pc = "write" THEN [Absent EXCEPT ![set] = to] ELSE <<>>]
<1>2. role \in RoleValues
  BY RoleGiven DEF IInv
<1>3. /\ DOMAIN l = LocalFields /\ l.pc = pc /\ l.node = n /\ l.me = u /\ l.role = role /\ l.stale = FALSE /\ l.late = FALSE
      /\ l.req = Request(op, on, set, to)
      /\ pc = "write" => l.new = [Absent EXCEPT ![set] = to]
  BY DEF Idle, LocalFields
<1>4. /\ l.req.op = op /\ l.req.on = on /\ l.req.set = set /\ l.req.to = to
      /\ DOMAIN l.req = RequestFields
  BY <1>3 DEF Request, RequestFields
<1> HIDE DEF l
<1>5. Asked(l)
  BY <1>1, <1>3, <1>4 DEF Serves
<1>6. Local(l)
  BY <1>2, <1>3, <1>4, <1>5 DEF Local, Inserting
<1>7. pc = "write" => Copy(l)
  <2> SUFFICES ASSUME pc = "write" PROVE Copy(l)
    OBVIOUS
  <2>1. l.new = [c \in UserColumns |-> IF c = "password" THEN 2 ELSE 0]
    BY <1>3 DEF Absent, UserColumns
  <2>2. Columns(l) \subseteq {"password"} /\ Own(l) = {"password"}
    BY <1>4 DEF Columns, Own, WholeRow, Binding
  <2> QED
    BY <1>3, <1>4, <2>1, <2>2 DEF Copy, Current, Width, UserColumns
<1>8. Started(l)
  BY <1>3, <1>4, <1>6, <1>7 DEF Started, Claims
<1>9. h' = [h EXCEPT ![x] = l]
  BY <1>1 DEF l
<1> QED
  BY <1>8, <1>9
\* A request that is none of UserAuth's or AdminAuth's.
LEMMA OtherStarts ==
  ASSUME IInv, NEW x \in Handlers, NEW l, h' = [h EXCEPT ![x] = l],
         DOMAIN l = LocalFields, DOMAIN l.req = RequestFields, l.role \in RoleValues,
         l.stale = FALSE, l.late \in BOOLEAN, l.pc \in {"check", "read", "insert", "reset"},
         OnRow(l) => Asked(l) /\ l.node \in Nodes,
         Inserting(l) => l.req.to \in {0, 1} /\ l.me \in Users \cup {"none"} /\ (l.pc = "insert" => l.req.op \notin FirstLogin),
         Claims(l) => l.late \/ Cardinality(Holders("identity")) # 1,
         l.pc = "reset" =>
           /\ l.node \in Nodes /\ l.req.to = codes[l.node].reset /\ l.req.to # 0
           /\ l.late <=> \E y \in Handlers : h[y].pc = "delete" /\ h[y].req.to = l.req.to
  PROVE  Started(l)
  BY DEF Started, Local

LEMMA StartStarts ==
  ASSUME IInv, NEW x \in Handlers, Start(x)
  PROVE  /\ UNCHANGED <<rows, banned, codes, ghosts>> /\ \E f \in {0, 1} : SpendAnd(f)
         /\ \/ h' = h /\ \E u \in Users : sessions' = [sessions EXCEPT ![u] = Session(rows[u])]
            \/ h' = h /\ UNCHANGED sessions
            \/ UNCHANGED sessions /\ \E l : h' = [h EXCEPT ![x] = l] /\ Started(l)
<1> USE DEF RoleCommonUser, RoleAdminUser, RoleRootUser, RoleBetween
<1>1. CASE \/ GenerateAccessToken(x) \/ EmailBind(x) \/ UpdateSelf(x) \/ DeleteSelf(x)
  <2>1. /\ UNCHANGED <<rows, banned, codes, ghosts, sessions>> /\ SpendAnd(0)
    BY <1>1 DEF GenerateAccessToken, EmailBind, UpdateSelf, DeleteSelf, BeginSelf, Begin, Spend
  <2>2. CASE GenerateAccessToken(x)
    <3>1. PICK u \in Users : Begin(x, u, RoleCommonUser, Request("GenerateAccessToken", u, "none", 0), "read")
      BY <2>2 DEF GenerateAccessToken, BeginSelf
    <3>2. Serves(u, RoleCommonUser, "GenerateAccessToken", u, "none", 0, "read")
      BY <3>1 DEF Serves, Asked, AskedOfUser
    <3>3. \E l : h' = [h EXCEPT ![x] = l] /\ Started(l)
      BY <3>1, <3>2, BeginStarts DEF Binding, FirstLogin
    <3> QED
      BY <2>1, <3>3
  <2>3. CASE EmailBind(x)
    <3>1. PICK u \in Users : Begin(x, u, RoleCommonUser, Request("EmailBind", u, "email", 1), "read")
      BY <2>3 DEF EmailBind, BeginSelf
    <3>2. Serves(u, RoleCommonUser, "EmailBind", u, "email", 1, "read")
      BY <3>1 DEF Serves, Asked, AskedOfUser
    <3>3. \E l : h' = [h EXCEPT ![x] = l] /\ Started(l)
      BY <3>1, <3>2, BeginStarts DEF Binding, FirstLogin
    <3> QED
      BY <2>1, <3>3
  <2>4. CASE UpdateSelf(x)
    <3>1. PICK u \in Users : Begin(x, u, RoleCommonUser, Request("UpdateSelf", u, "password", 2), "write")
      BY <2>4 DEF UpdateSelf, BeginSelf
    <3>2. Serves(u, RoleCommonUser, "UpdateSelf", u, "password", 2, "write")
      BY <3>1 DEF Serves, Asked, AskedOfUser
    <3>3. \E l : h' = [h EXCEPT ![x] = l] /\ Started(l)
      BY <3>1, <3>2, BeginStarts DEF Binding, FirstLogin
    <3> QED
      BY <2>1, <3>3
  <2>5. CASE DeleteSelf(x)
    <3>1. PICK u \in Users : Begin(x, u, RoleCommonUser, Request("DeleteSelf", u, "status", 3), "read")
      BY <2>5 DEF DeleteSelf, BeginSelf
    <3>2. Serves(u, RoleCommonUser, "DeleteSelf", u, "status", 3, "read")
      BY <3>1 DEF Serves, Asked, AskedOfUser
    <3>3. \E l : h' = [h EXCEPT ![x] = l] /\ Started(l)
      BY <3>1, <3>2, BeginStarts DEF Binding, FirstLogin
    <3> QED
      BY <2>1, <3>3
  <2> QED
    BY <1>1, <2>2, <2>3, <2>4, <2>5
<1>2. CASE UpdateUser(x) \/ ManageUser(x) \/ DeleteUser(x)
  <2>1. /\ UNCHANGED <<rows, banned, codes, ghosts, sessions>> /\ SpendAnd(0)
    BY <1>2 DEF UpdateUser, ManageUser, DeleteUser, BeginAdmin, Begin, Spend
  <2>2. CASE UpdateUser(x)
    <3>1. PICK u, on \in Users, set \in {"status", "role", "quota", "password"}, to \in {0, 1, 2, 3, 4, 5, 10} :
            /\ Begin(x, u, RoleAdminUser, Request("UpdateUser", on, set, to), "read")
            /\ \/ set = "status" /\ to \in 1..4
               \/ set = "role" /\ to \in {RoleBetween, RoleAdminUser}
               \/ set = "quota" /\ to \in {0, 3}
               \/ set = "password" /\ to = 3
      <4>1. PICK e \in {<<"status", 1>>, <<"status", 2>>, <<"status", 3>>, <<"status", 4>>, <<"role", RoleBetween>>,
                        <<"role", RoleAdminUser>>, <<"quota", 0>>, <<"quota", 3>>, <<"password", 3>>} :
              \E u, on \in Users : Begin(x, u, RoleAdminUser, Request("UpdateUser", on, e[1], e[2]), "read")
        BY <2>2 DEF UpdateUser, BeginAdmin
      <4>2. /\ e[1] \in {"status", "role", "quota", "password"} /\ e[2] \in {0, 1, 2, 3, 4, 5, 10}
            /\ \/ e[1] = "status" /\ e[2] \in 1..4
               \/ e[1] = "role" /\ e[2] \in {RoleBetween, RoleAdminUser}
               \/ e[1] = "quota" /\ e[2] \in {0, 3}
               \/ e[1] = "password" /\ e[2] = 3
        OBVIOUS
      <4> QED
        BY <4>1, <4>2
    <3>2. Serves(u, RoleAdminUser, "UpdateUser", on, set, to, "read")
      BY <3>1 DEF Serves, Asked, AskedOfUser
    <3>3. "UpdateUser" \notin Binding \cup FirstLogin /\ Begin(x, u, RoleAdminUser, Request("UpdateUser", on, set, to), "read")
      BY <3>1 DEF Binding, FirstLogin
    <3>4. \E l : h' = [h EXCEPT ![x] = l] /\ Started(l)
      BY <3>2, <3>3, BeginStarts
    <3> QED
      BY <2>1, <3>4
  <2>3. CASE ManageUser(x)
    <3>1. PICK u, on \in Users, op \in {"ManageUser", "ManageRole", "ManageDelete"}, set \in {"status", "role"}, to \in {1, 2, 3, 10} :
            /\ Begin(x, u, RoleAdminUser, Request(op, on, set, to), "read")
            /\ \/ op = "ManageUser" /\ set = "status" /\ to \in {1, 2}
               \/ op = "ManageRole" /\ set = "role" /\ to \in {RoleCommonUser, RoleAdminUser}
               \/ op = "ManageDelete" /\ set = "status" /\ to = 3
      <4>1. CASE BeginAdmin(x, "ManageDelete", "status", 3)
        BY <4>1 DEF BeginAdmin
      <4>2. CASE \E status \in {1, 2} : BeginAdmin(x, "ManageUser", "status", status)
        BY <4>2 DEF BeginAdmin
      <4>3. CASE \E role \in {RoleCommonUser, RoleAdminUser} : BeginAdmin(x, "ManageRole", "role", role)
        BY <4>3 DEF BeginAdmin
      <4> QED
        BY <2>3, <4>1, <4>2, <4>3 DEF ManageUser
    <3>2. Serves(u, RoleAdminUser, op, on, set, to, "read")
      BY <3>1 DEF Serves, Asked, AskedOfUser
    <3>3. \E l : h' = [h EXCEPT ![x] = l] /\ Started(l)
      BY <3>1, <3>2, BeginStarts DEF Binding, FirstLogin
    <3> QED
      BY <2>1, <3>3
  <2>4. CASE DeleteUser(x)
    <3>1. PICK u, on \in Users : Begin(x, u, RoleAdminUser, Request("DeleteUser", on, "status", 3), "read")
      BY <2>4 DEF DeleteUser, BeginAdmin
    <3>2. Serves(u, RoleAdminUser, "DeleteUser", on, "status", 3, "read")
      BY <3>1 DEF Serves, Asked, AskedOfUser
    <3>3. \E l : h' = [h EXCEPT ![x] = l] /\ Started(l)
      BY <3>1, <3>2, BeginStarts DEF Binding, FirstLogin
    <3> QED
      BY <2>1, <3>3
  <2> QED
    BY <1>2, <2>2, <2>3, <2>4
<1>3. CASE TopUp(x) \/ UpdateRedemption(x) \/ UpdateToken(x)
  <2>1. /\ UNCHANGED <<rows, banned, codes, ghosts, sessions>> /\ SpendAnd(0)
    BY <1>3 DEF TopUp, UpdateRedemption, UpdateToken, Begin, Spend
  <2>2. CASE TopUp(x)
    <3>1. PICK u \in Users : Begin(x, u, RoleCommonUser, Request("Redeem", "code", "status", 3), "read")
      BY <2>2 DEF TopUp
    <3>2. Serves(u, RoleCommonUser, "Redeem", "code", "status", 3, "read")
      BY <3>1 DEF Serves, Asked, AskedOfUser
    <3>3. \E l : h' = [h EXCEPT ![x] = l] /\ Started(l)
      BY <3>1, <3>2, BeginStarts DEF Binding, FirstLogin
    <3> QED
      BY <2>1, <3>3
  <2>3. CASE UpdateRedemption(x)
    <3>1. PICK u \in Users, set \in {"status", "quota"}, to \in {1, 2} :
            Begin(x, u, RoleAdminUser, Request("UpdateRedemption", "code", set, to), "read")
      BY <2>3 DEF UpdateRedemption
    <3>2. Serves(u, RoleAdminUser, "UpdateRedemption", "code", set, to, "read")
      BY <3>1 DEF Serves, Asked, AskedOfUser
    <3>3. \E l : h' = [h EXCEPT ![x] = l] /\ Started(l)
      BY <3>1, <3>2, BeginStarts DEF Binding, FirstLogin
    <3> QED
      BY <2>1, <3>3
  <2>4. CASE UpdateToken(x)
    <3>1. PICK set \in {"status", "remain"}, to \in {1, 2} :
            Begin(x, Owner, RoleCommonUser, Request("UpdateToken", "token", set, to), "read")
      BY <2>4 DEF UpdateToken
    <3>2. Serves(Owner, RoleCommonUser, "UpdateToken", "token", set, to, "read") /\ Owner \in Users
      BY <3>1, AccountsAssumption DEF Serves, Asked
    <3>3. \E l : h' = [h EXCEPT ![x] = l] /\ Started(l)
      BY <3>1, <3>2, BeginStarts DEF Binding, FirstLogin
    <3> QED
      BY <2>1, <3>3
  <2> QED
    BY <1>3, <2>2, <2>3, <2>4
<1>4. CASE GitHubBind(x) \/ LarkBind(x) \/ OidcBind(x)
  <2>1. PICK op \in Binding, n \in Nodes, u \in Users :
          /\ UNCHANGED <<rows, banned, codes, ghosts, sessions>> /\ SpendAnd(0)
          /\ h' = [h EXCEPT ![x] = [Idle EXCEPT !.pc = "check", !.node = n, !.me = u, !.role = sessions[u].role,
                                                !.req = Request(op, u, "identity", 1)]]
    BY <1>4 DEF GitHubBind, LarkBind, OidcBind, BeginBind, Spend, Binding
  <2> DEFINE l == [Idle EXCEPT !.pc = "check", !.node = n, !.me = u, !.role = sessions[u].role,
                               !.req = Request(op, u, "identity", 1)]
  <2>2. /\ DOMAIN l = LocalFields /\ l.pc = "check" /\ l.node = n /\ l.role = sessions[u].role /\ l.stale = FALSE
        /\ l.late = FALSE /\ DOMAIN l.req = RequestFields
        /\ l.req.op = op /\ l.req.on = u /\ l.req.set = "identity" /\ l.req.to = 1
    BY DEF Idle, LocalFields, Request, RequestFields
  <2>3. h' = [h EXCEPT ![x] = l] /\ sessions[u].role \in RoleValues
    BY <2>1 DEF IInv, Tables, Kept
  <2> HIDE DEF l
  <2>4. Started(l)
    BY <2>2, <2>3, OtherStarts DEF OnRow, Inserting, Asked, AskedOfUser, Claims, FirstLogin
  <2> QED
    BY <2>1, <2>3, <2>4
<1>5. CASE ValidateUserToken(x)
  <2>1. PICK n \in Nodes :
          /\ UNCHANGED <<rows, banned, codes, ghosts, sessions>> /\ SpendAnd(0)
          /\ h' = [h EXCEPT ![x] = [Idle EXCEPT !.pc = "read", !.node = n,
                                                !.req = Request("ValidateUserToken", "token", "status", 4)]]
    BY <1>5 DEF ValidateUserToken, Spend
  <2> DEFINE l == [Idle EXCEPT !.pc = "read", !.node = n, !.req = Request("ValidateUserToken", "token", "status", 4)]
  <2>2. /\ DOMAIN l = LocalFields /\ l.pc = "read" /\ l.node = n /\ l.role = 0 /\ l.stale = FALSE
        /\ l.late = FALSE /\ DOMAIN l.req = RequestFields
        /\ l.req.op = "ValidateUserToken" /\ l.req.on = "token" /\ l.req.set = "status" /\ l.req.to = 4
    BY DEF Idle, LocalFields, Request, RequestFields
  <2>3. h' = [h EXCEPT ![x] = l]
    BY <2>1
  <2> HIDE DEF l
  <2>4. Started(l)
    BY <2>2, <2>3, OtherStarts DEF OnRow, Inserting, Asked, Claims, FirstLogin, Binding, RoleValues
  <2> QED
    BY <2>1, <2>3, <2>4
<1>6. CASE Register(x)
  <2>0. PICK n \in Nodes : \E email \in {0, codes[n].email} : \E inviter \in {"none"} \cup {u \in Users : Exists(rows[u])} :
          h' = [h EXCEPT ![x] = [Idle EXCEPT !.pc = "insert", !.node = n, !.me = inviter,
                                             !.req = Request("Register", "none", "email", email)]]
    BY <1>6 DEF Register
  <2>a. PICK email \in {0, codes[n].email} : \E inviter \in {"none"} \cup {u \in Users : Exists(rows[u])} :
          h' = [h EXCEPT ![x] = [Idle EXCEPT !.pc = "insert", !.node = n, !.me = inviter,
                                             !.req = Request("Register", "none", "email", email)]]
    BY <2>0
  <2>b. PICK me \in {"none"} \cup {u \in Users : Exists(rows[u])} :
          h' = [h EXCEPT ![x] = [Idle EXCEPT !.pc = "insert", !.node = n, !.me = me,
                                             !.req = Request("Register", "none", "email", email)]]
    BY <2>a
  <2>c. email \in {0, 1} /\ me \in Users \cup {"none"}
    BY DEF IInv, Tables, Kept
  <2>1. /\ UNCHANGED <<rows, banned, codes, ghosts, sessions>> /\ SpendAnd(0)
        /\ h' = [h EXCEPT ![x] = [Idle EXCEPT !.pc = "insert", !.node = n, !.me = me,
                                              !.req = Request("Register", "none", "email", email)]]
    BY <1>6, <2>b DEF Register, Spend
  <2> DEFINE l == [Idle EXCEPT !.pc = "insert", !.node = n, !.me = me, !.req = Request("Register", "none", "email", email)]
  <2>2. /\ DOMAIN l = LocalFields /\ l.pc = "insert" /\ l.role = 0 /\ l.stale = FALSE
        /\ l.late = FALSE /\ DOMAIN l.req = RequestFields /\ l.req.op = "Register" /\ l.req.to = email /\ l.me = me
    BY DEF Idle, LocalFields, Request, RequestFields
  <2>3. h' = [h EXCEPT ![x] = l]
    BY <2>1
  <2> HIDE DEF l
  <2>4. Started(l)
    BY <2>c, <2>2, <2>3, OtherStarts DEF OnRow, Inserting, Claims, FirstLogin, Writing, RoleValues
  <2> QED
    BY <2>1, <2>3, <2>4
<1>9. CASE CreateUser(x)
  <2>1. PICK n \in Nodes :
          /\ UNCHANGED <<rows, banned, codes, ghosts, sessions>> /\ SpendAnd(0)
          /\ h' = [h EXCEPT ![x] = [Idle EXCEPT !.pc = "insert", !.node = n, !.req = Request("CreateUser", "none", "email", 0)]]
    BY <1>9 DEF CreateUser, Spend
  <2> DEFINE l == [Idle EXCEPT !.pc = "insert", !.node = n, !.req = Request("CreateUser", "none", "email", 0)]
  <2>2. /\ DOMAIN l = LocalFields /\ l.pc = "insert" /\ l.role = 0 /\ l.stale = FALSE
        /\ l.late = FALSE /\ DOMAIN l.req = RequestFields /\ l.req.op = "CreateUser" /\ l.req.to = 0 /\ l.me = "none"
    BY DEF Idle, LocalFields, Request, RequestFields
  <2>3. h' = [h EXCEPT ![x] = l]
    BY <2>1
  <2> HIDE DEF l
  <2>4. Started(l)
    BY <2>2, <2>3, OtherStarts DEF OnRow, Inserting, Claims, FirstLogin, Writing, RoleValues
  <2> QED
    BY <2>1, <2>3, <2>4
<1>7. CASE GitHubOAuth(x) \/ LarkOAuth(x) \/ OidcAuth(x)
  <2>1. PICK op \in FirstLogin, emails \in {{0}, {0, 1}} : OAuth(x, op, emails)
    BY <1>7 DEF GitHubOAuth, LarkOAuth, OidcAuth, FirstLogin
  <2>2. UNCHANGED <<rows, banned, codes, ghosts>>
    BY <2>1 DEF OAuth
  <2>3. CASE /\ \E u \in Holders("identity") :
                  sessions' = IF rows[u].status = 1 THEN [sessions EXCEPT ![u] = Session(rows[u])] ELSE sessions
             /\ Spend /\ UNCHANGED h
    <3>1. PICK u \in Users : sessions' = IF rows[u].status = 1 THEN [sessions EXCEPT ![u] = Session(rows[u])] ELSE sessions
      BY <2>3 DEF Holders
    <3> QED
      BY <2>2, <2>3, <3>1 DEF Spend
  <2>4. CASE /\ \E f \in {0, 1}, email \in emails :
                  /\ FoundFree("identity", f) /\ SpendAnd(f)
                  /\ h' = [h EXCEPT ![x] = [Idle EXCEPT !.pc = "read", !.late = (f = 1),
                                                     !.req = Request(op, "none", "email", email)]]
             /\ UNCHANGED sessions
    <3>1. PICK f \in {0, 1}, email \in emails :
                  /\ FoundFree("identity", f) /\ SpendAnd(f)
                  /\ h' = [h EXCEPT ![x] = [Idle EXCEPT !.pc = "read", !.late = (f = 1),
                                                     !.req = Request(op, "none", "email", email)]]
      BY <2>4
    <3> DEFINE l == [Idle EXCEPT !.pc = "read", !.late = (f = 1), !.req = Request(op, "none", "email", email)]
    <3>2. (f = 1) \in BOOLEAN /\ (f = 1 \/ Cardinality(Holders("identity")) # 1)
      BY <3>1 DEF FoundFree
    <3>3. /\ DOMAIN l = LocalFields /\ l.pc = "read" /\ l.role = 0 /\ l.stale = FALSE
          /\ l.late = (f = 1) /\ DOMAIN l.req = RequestFields /\ l.req.op = op /\ l.req.to = email /\ l.me = "none"
      BY DEF Idle, LocalFields, Request, RequestFields
    <3>4. h' = [h EXCEPT ![x] = l]
      BY <3>1
    <3> HIDE DEF l
    <3>5. Started(l)
      BY <3>2, <3>3, <3>4, OtherStarts DEF OnRow, Inserting, Writing, RoleValues
    <3> QED
      BY <2>2, <2>4, <3>1, <3>4, <3>5
  <2> QED
    BY <2>1, <2>3, <2>4 DEF OAuth
<1>8. CASE ResetPassword(x)
  <2>1. PICK n \in Nodes :
          /\ UNCHANGED <<rows, banned, codes, ghosts, sessions>> /\ SpendAnd(0)
          /\ codes[n].reset # 0
          /\ h' = [h EXCEPT ![x] = [Idle EXCEPT !.pc = "reset", !.node = n,
                                                !.req = Request("ResetPassword", "none", "password", codes[n].reset),
                                                !.late = \E y \in Handlers : h[y].pc = "delete" /\ h[y].req.to = codes[n].reset]]
    BY <1>8 DEF ResetPassword, Spend
  <2> DEFINE overlaps == \E y \in Handlers : h[y].pc = "delete" /\ h[y].req.to = codes[n].reset
             l == [Idle EXCEPT !.pc = "reset", !.node = n,
                               !.req = Request("ResetPassword", "none", "password", codes[n].reset),
                               !.late = overlaps]
  <2>2. h' = [h EXCEPT ![x] = l] /\ overlaps \in BOOLEAN
    BY <2>1
  <2> HIDE DEF overlaps
  <2>3. /\ DOMAIN l = LocalFields /\ l.pc = "reset" /\ l.node = n /\ l.role = 0 /\ l.stale = FALSE
        /\ l.late = overlaps /\ DOMAIN l.req = RequestFields /\ l.req.op = "ResetPassword" /\ l.req.to = codes[n].reset
    BY DEF Idle, LocalFields, Request, RequestFields
  <2> HIDE DEF l
  <2>4. l.late <=> \E y \in Handlers : h[y].pc = "delete" /\ h[y].req.to = l.req.to
    BY <2>3 DEF overlaps
  <2>5. Started(l)
    BY <2>1, <2>2, <2>3, <2>4, OtherStarts DEF OnRow, Inserting, Claims, FirstLogin, Writing, RoleValues
  <2> QED
    BY <2>1, <2>2, <2>5
<1> QED
  BY <1>1, <1>2, <1>3, <1>4, <1>5, <1>6, <1>7, <1>8, <1>9 DEF Start

-----------------------------------------------------------------------------
(* Each step keeps the invariant. *)

LEMMA IdleLocal == Local(Idle) /\ Idle.pc = "idle"
  BY DEF Local, Idle, LocalFields, RequestFields, Request, RoleValues, OnRow, Inserting, FirstLogin, Writing

LEMMA Keeps ==
  ASSUME IInv, NEW x \in Handlers, Tables', Grows, DOMAIN h' = Handlers, Handled(x)',
         \A y \in Handlers \ {x} : Carried(y)
  PROVE  IInv'
<1>1. \A y \in Handlers \ {x} : Handled(y)'
  BY CarriedKeeps DEF IInv
<1> QED
  BY <1>1 DEF IInv

\* A step of a handler that touches no row.
LEMMA KeepsAlone ==
  ASSUME IInv, NEW x \in Handlers, NEW l, h' = [h EXCEPT ![x] = l], UNCHANGED rows,
         DOMAIN meant' = DOMAIN meant,
         Kept',
         Local(l), l.pc \in Writing => Copy(l)
  PROVE  /\ IInv' /\ Grows
         /\ \A y \in Handlers \ {x} : h'[y] = h[y] /\ Carried(y)
<1>1. h'[x] = l /\ DOMAIN h' = Handlers /\ \A y \in Handlers \ {x} : h'[y] = h[y]
  BY DEF IInv
<1>2. Tables' /\ Grows
  BY DEF IInv, Tables, Grows
<1>3. \A y \in Handlers \ {x} : Carried(y)
  BY <1>1, UnchangedCarries
<1>4. Handled(x)'
  <2>1. Local(h[x])' /\ (h'[x].pc \in Writing => Copy(l))
    BY <1>1
  <2>2. Copy(l) => Copy(l)'
    BY DEF Copy, Current
  <2> QED
    BY <1>1, <2>1, <2>2 DEF Handled, Copy, Current
<1> QED
  BY <1>1, <1>2, <1>3, <1>4, Keeps

\* A step that is none of the handlers'.
LEMMA KeepsStill ==
  ASSUME IInv, UNCHANGED <<rows, h>>, DOMAIN meant' = DOMAIN meant, Kept'
  PROVE  IInv' /\ Grows /\ \A y \in Handlers : h'[y] = h[y] /\ Carried(y)
<1>1. \A y \in Handlers : Carried(y)
  BY UnchangedCarries
<1>2. Tables' /\ Grows
  BY DEF IInv, Tables, Grows
<1>3. \A y \in Handlers : Handled(y)'
  BY <1>1, <1>2, CarriedKeeps DEF IInv
<1> QED
  BY <1>1, <1>2, <1>3 DEF IInv

LEMMA StartKeeps ==
  ASSUME IInv, NEW x \in Handlers, Start(x)
  PROVE  IInv' /\ Grows /\ \A y \in Handlers \ {x} : h'[y] = h[y] /\ Carried(y)
<1>1. UNCHANGED <<rows, codes, meant>>
  BY StartStarts DEF ghosts
<1>2. Kept'
  <2>1. CASE UNCHANGED sessions
    BY <2>1, <1>1 DEF IInv, Tables, Kept
  <2>2. CASE \E u \in Users : sessions' = [sessions EXCEPT ![u] = Session(rows[u])]
    BY <1>1, <2>2 DEF IInv, Tables, Kept, Session
  <2> QED
    BY <2>1, <2>2, StartStarts
<1>3. CASE h' = h
  BY <1>1, <1>2, <1>3, KeepsStill
<1>4. CASE \E l : h' = [h EXCEPT ![x] = l] /\ Started(l)
  <2>1. PICK l : h' = [h EXCEPT ![x] = l] /\ Local(l) /\ (l.pc \in Writing => Copy(l))
    BY <1>4 DEF Started, Writing
  <2> QED
    BY <1>1, <1>2, <2>1, KeepsAlone
<1> QED
  BY <1>3, <1>4, StartStarts

LEMMA KeptStays ==
  ASSUME Tables, UNCHANGED <<sessions, codes>>
  PROVE  Kept'
  BY DEF Tables, Kept

\* A handler that answers.
LEMMA ReplyKeeps ==
  ASSUME IInv, NEW x \in Handlers, Reply(x), UNCHANGED <<rows, meant>>, Kept'
  PROVE  IInv' /\ Grows /\ \A y \in Handlers \ {x} : h'[y] = h[y] /\ Carried(y)
<1>1. Local(Idle) /\ Idle.pc \notin Writing
  BY IdleLocal DEF Writing
<1>3. h' = [h EXCEPT ![x] = Idle]
  BY DEF Reply
<1> QED
  BY <1>1, <1>3, KeepsAlone

LEMMA CheckKeeps ==
  ASSUME IInv, NEW x \in Handlers, Check(x)
  PROVE  IInv' /\ Grows /\ \A y \in Handlers \ {x} : h'[y] = h[y] /\ Carried(y)
<1>1. UNCHANGED <<rows, sessions, codes, meant>> /\ h[x].pc = "check" /\ Kept'
  BY KeptStays DEF Check, ghosts, IInv
<1>2. CASE Reply(x)
  BY <1>1, <1>2, ReplyKeeps
<1>3. CASE \E f \in {0, 1} : h' = [h EXCEPT ![x].pc = "read", ![x].late = (f = 1)]
  <2>0. PICK late \in BOOLEAN : h' = [h EXCEPT ![x].pc = "read", ![x].late = late]
    BY <1>3
  <2> DEFINE l == [h[x] EXCEPT !.pc = "read", !.late = late]
  <2>1. h' = [h EXCEPT ![x] = l]
    BY <2>0 DEF IInv
  <2>2. Local(h[x])
    BY DEF IInv, Handled
  <2>3. Local(l) /\ l.pc \notin Writing
    BY <1>1, <2>2 DEF Local, LocalFields, OnRow, Inserting, FirstLogin, Binding, Asked, AskedOfUser, Writing
  <2> HIDE DEF l
  <2>4. Kept'
    BY <1>1 DEF IInv, Tables, Kept
  <2> QED
    BY <1>1, <2>1, <2>3, <2>4, KeepsAlone
<1> QED
  BY <1>2, <1>3 DEF Check

\* A handler goes on with the row it has read, or with nothing, if the query failed and
\* it does not look.
LEMMA GoesOn ==
  ASSUME IInv, NEW x \in Handlers, NEW source, h[x].pc = "read", h[x].req.op \notin FirstLogin,
         GoOn(x, Altered(h[x], source)), UNCHANGED <<rows, sessions, codes, meant>>,
         Exists(rows[h[x].req.on]),
         \/ source = rows[h[x].req.on] /\ Permitted(h[x], source)
         \/ source = Absent /\ h[x].req.op \in Unread
  PROVE  IInv' /\ Grows /\ \A y \in Handlers \ {x} : h'[y] = h[y] /\ Carried(y)
<1> DEFINE l == h[x]
           o == l.req.on
           row == rows[o]
           set == l.req.set
           to == l.req.to
           new == Altered(l, source)
           next == [l EXCEPT !.new = new]
           step == IF SetsBan(next) THEN "ban" ELSE "write"
           last == [next EXCEPT !.pc = step]
<1>1. Kept' /\ l.pc = "read" /\ l.req.op \notin FirstLogin /\ h' = [h EXCEPT ![x] = last]
  BY KeptStays DEF GoOn, IInv
<1>2. Local(l) /\ Asked(l)
  BY <1>1 DEF IInv, Handled, Local, OnRow
<1>3. o \in Objects /\ row \in [Width(o) -> Int] /\ (set # "none" => set \in Width(o) /\ to \in Int)
  <2>1. CASE o \in Users /\ AskedOfUser(l)
    BY <2>1 DEF IInv, Tables, AskedOfUser, Objects, Width, UserColumns, RoleCommonUser, RoleAdminUser, RoleBetween
  <2>2. CASE ~(o \in Users /\ AskedOfUser(l))
    BY <1>2, <2>2, AccountsAssumption DEF IInv, Tables, Asked, Objects, Width
  <2> QED
    BY <2>1, <2>2
<1>4. l.req.op \in Unread => /\ o \in Users /\ AskedOfUser(l) /\ set # "role" /\ set # "none" /\ to # 0
                             /\ l.req.op \in WholeRow \/ l.req.op = "DeleteSelf"
  BY <1>2, AccountsAssumption DEF Asked, AskedOfUser, Unread, Binding, WholeRow
<1>5. source \in [Width(o) -> Int]
  BY <1>3, <1>4 DEF Absent, Width, UserColumns
<1>6. /\ new \in [Width(o) -> Int] /\ (set # "none" => new[set] = to) /\ \A c \in Width(o) \ {set} : new[c] = source[c]
      /\ set = "none" => new = source
  BY <1>3, <1>5 DEF Altered
<1>7. /\ DOMAIN next = LocalFields /\ next.pc = "read" /\ next.node = l.node /\ next.me = l.me /\ next.role = l.role
      /\ next.req = l.req /\ next.new = new /\ next.stale = l.stale /\ next.late = l.late
  BY <1>1, <1>2 DEF Local, LocalFields
<1>8. /\ DOMAIN last = LocalFields /\ last.pc = step /\ last.node = l.node /\ last.me = l.me /\ last.role = l.role
      /\ last.req = l.req /\ last.new = new /\ last.stale = l.stale /\ last.late = l.late
  BY <1>7 DEF LocalFields
<1> HIDE DEF new, next, last
<1>9. step \in Writing /\ (step = "ban" <=> SetsBan(next))
  BY DEF Writing
<1>10. /\ Columns(last) = Columns(next) /\ Own(last) = Own(next)
       /\ SetsBan(last) <=> SetsBan(next)
  BY <1>7, <1>8 DEF Columns, Own, SetsBan
<1> HIDE DEF row, step
<1>11. Local(last)
  BY <1>1, <1>2, <1>8, <1>9 DEF Local, OnRow, Inserting, Asked, AskedOfUser, Writing
<1>12. set = "role" => l.role = RoleRootUser \/ to < l.role
  <2> SUFFICES ASSUME set = "role" PROVE l.role = RoleRootUser \/ to < l.role
    OBVIOUS
  <2>1. Permitted(l, source) /\ source = row /\ o \in Users /\ AskedOfUser(l)
    BY <1>2, <1>4, AccountsAssumption DEF Asked, row
  <2>2. \/ l.req.op = "UpdateUser" /\ to \in {RoleBetween, RoleAdminUser}
        \/ l.req.op = "ManageRole" /\ to \in {RoleCommonUser, RoleAdminUser}
    BY <2>1 DEF AskedOfUser
  <2>3. l.role \in RoleValues /\ l.role >= RoleAdminUser
    BY <1>2, <2>1 DEF AskedOfUser, Local
  <2>4. CASE l.req.op = "UpdateUser"
    BY <2>1, <2>2, <2>3, <2>4 DEF Permitted, UpdateUserAllowed, RoleValues, RoleCommonUser, RoleBetween, RoleAdminUser, RoleRootUser
  <2>5. CASE l.req.op = "ManageRole"
    <3>1. ManageUserAllowed(l.role, l.req, source)
      BY <2>1, <2>5 DEF Permitted
    <3>2. to = RoleAdminUser => l.role = RoleRootUser
      BY <3>1 DEF ManageUserAllowed
    <3> QED
      BY <2>2, <2>3, <2>5, <3>2 DEF RoleValues, RoleCommonUser, RoleBetween, RoleAdminUser, RoleRootUser
  <2> QED
    BY <2>2, <2>4, <2>5
<1>13. o \in Users => /\ new.status \in 0..4 /\ new.role \in RoleValues /\ new.identity \in {0, 1}
                      /\ new.identity = 1 => l.req.op \in Binding \/ row.identity = 1
  <2> SUFFICES ASSUME o \in Users
               PROVE  /\ new.status \in 0..4 /\ new.role \in RoleValues /\ new.identity \in {0, 1}
                      /\ new.identity = 1 => l.req.op \in Binding \/ row.identity = 1
    OBVIOUS
  <2>1. /\ row.status \in 0..4 /\ row.role \in RoleValues /\ row.identity \in {0, 1}
        /\ Width(o) = UserColumns
    BY DEF row, IInv, Tables, Width
  <2>2. AskedOfUser(l)
    BY <1>2, AccountsAssumption DEF Asked
  <2>3. /\ source.status \in 0..4 /\ source.role \in RoleValues /\ source.identity \in {0, 1}
        /\ source.identity = 1 => row.identity = 1
    BY <2>1 DEF Absent, RoleValues, row
  <2>4. CASE set = "status"
    BY <1>6, <2>1, <2>2, <2>3, <2>4 DEF UserColumns, AskedOfUser
  <2>5. CASE set = "role"
    BY <1>6, <2>1, <2>2, <2>3, <2>5 DEF UserColumns, AskedOfUser, RoleValues
  <2>6. CASE set = "identity"
    BY <1>6, <2>1, <2>2, <2>3, <2>6 DEF UserColumns, AskedOfUser
  <2>7. CASE set \notin {"status", "role", "identity"}
    BY <1>6, <2>1, <2>3, <2>7 DEF UserColumns
  <2> QED
    BY <2>4, <2>5, <2>6, <2>7
<1>14. \A c \in Width(o) : c \in Columns(last) \ Own(last) => new[c] = row[c]
  <2>1. CASE source = row
    BY <1>6, <1>8, <2>1 DEF Own
  <2>2. CASE source = Absent /\ l.req.op \in Unread
    <3>1. \A c \in Width(o) \ {set} : new[c] = 0
      BY <1>4, <1>6, <2>2 DEF Absent, Width, UserColumns
    <3>2. Own(last) = {set} /\ Columns(last) \in {NonZero(new), {set} \cap NonZero(new)}
      BY <1>4, <1>8, <2>2 DEF Own, Columns, WholeRow, Binding
    <3> QED
      BY <1>6, <3>1, <3>2 DEF NonZero
  <2> QED
    BY <2>1, <2>2 DEF row
<1>15. Current(last)
  <2>1. l.req.op = "Redeem" => rows["code"].status = 1
    <3>1. l.req.op = "Redeem" => o = "code" /\ l.req.op \notin Unread
      BY <1>2 DEF Asked, AskedOfUser, Binding, Unread
    <3> QED
      BY <3>1 DEF Permitted, RedeemAllowed
  <2>2. o \in Users /\ "status" \in Columns(last) /\ ~SetsBan(last) /\ l.req.op # "UpdateUser" => new.status = row.status
    <3> SUFFICES ASSUME o \in Users, "status" \in Columns(last), ~SetsBan(last), l.req.op # "UpdateUser"
                 PROVE  new.status = row.status
      OBVIOUS
    <3>1. new.status \notin {1, 2} /\ l.req.op \notin Deleting
      BY <1>8 DEF SetsBan
    <3>2. AskedOfUser(l)
      BY <1>2, AccountsAssumption DEF Asked
    <3>3. set # "status"
      BY <1>1, <1>6, <3>1, <3>2 DEF AskedOfUser, Deleting
    <3> QED
      BY <1>8, <1>14, <3>3 DEF Own, Width, UserColumns
  <2> QED
    BY <1>8, <1>14, <2>1, <2>2 DEF Current, row
<1>16. Copy(last)
  BY <1>1, <1>2, <1>6, <1>8, <1>9, <1>10, <1>12, <1>13, <1>15 DEF Copy, row
<1>17. Kept'
  BY <1>1 DEF IInv, Tables, Kept
<1> QED
  BY <1>1, <1>11, <1>16, <1>17, KeepsAlone

LEMMA ReadKeeps ==
  ASSUME IInv, NEW x \in Handlers, Read(x) \/ ReadFails(x)
  PROVE  IInv' /\ Grows /\ \A y \in Handlers \ {x} : h'[y] = h[y] /\ Carried(y)
<1>1. UNCHANGED <<rows, sessions, codes, meant>> /\ h[x].pc = "read" /\ h[x].req.op \notin FirstLogin /\ Kept'
  BY KeptStays DEF Read, ReadFails, ghosts, IInv, Unread, Binding, FirstLogin
<1>2. CASE Reply(x)
  BY <1>1, <1>2, ReplyKeeps
<1>3. CASE Allowed(h[x], rows[h[x].req.on]) /\ GoOn(x, Altered(h[x], rows[h[x].req.on]))
  BY <1>1, <1>3, GoesOn DEF Allowed
<1>4. CASE ReadFails(x)
  BY <1>1, <1>4, GoesOn DEF ReadFails
<1> QED
  BY <1>2, <1>3, <1>4 DEF Read

LEMMA BanKeeps ==
  ASSUME IInv, NEW x \in Handlers, BanStep(x)
  PROVE  IInv' /\ Grows /\ \A y \in Handlers \ {x} : h'[y] = h[y] /\ Carried(y)
<1> DEFINE l == [h[x] EXCEPT !.pc = "write"]
<1>1. UNCHANGED <<rows, sessions, codes, meant>> /\ h[x].pc = "ban" /\ h' = [h EXCEPT ![x] = l]
  BY DEF BanStep, IInv
<1>2. Local(h[x]) /\ Copy(h[x])
  BY <1>1 DEF IInv, Handled, Writing
<1>3. /\ DOMAIN l = LocalFields /\ l.pc = "write" /\ l.node = h[x].node /\ l.me = h[x].me /\ l.role = h[x].role
      /\ l.req = h[x].req /\ l.new = h[x].new /\ l.stale = h[x].stale /\ l.late = h[x].late
  BY <1>2 DEF Local, LocalFields
<1> HIDE DEF l
<1>4. Local(l)
  BY <1>1, <1>2, <1>3 DEF Local, OnRow, Inserting, Asked, AskedOfUser, Writing
<1>5. Columns(l) = Columns(h[x]) /\ Own(l) = Own(h[x]) /\ (SetsBan(l) <=> SetsBan(h[x]))
  BY <1>3 DEF Columns, Own, SetsBan
<1>6. Copy(l)
  BY <1>2, <1>3, <1>5 DEF Copy, Current
<1>7. Kept'
  BY <1>1 DEF IInv, Tables, Kept
<1> QED
  BY <1>1, <1>4, <1>6, <1>7, KeepsAlone

\* What a write does to the tables.
LEMMA WriteIs ==
  ASSUME IInv, NEW x \in Handlers, Write(x)
  PROVE  LET l == h[x]
             o == h[x].req.on
             objects == IF l.req.op = "Redeem" THEN {o, l.me} ELSE {o}
         IN  /\ Local(l) /\ Asked(l) /\ Copy(l) /\ o \in Objects
             /\ DOMAIN rows' = Objects /\ DOMAIN meant' = Objects
             /\ \A p \in Objects \ objects : rows'[p] = rows[p] /\ meant'[p] = meant[p]
             /\ l.req.op # "Redeem" =>
                  /\ rows'[o] = IF Exists(rows[o]) THEN Put(rows[o], l.new, Columns(l)) ELSE rows[o]
                  /\ meant'[o] = IF Exists(meant[o]) THEN Put(meant[o], l.new, Own(l)) ELSE meant[o]
             /\ l.req.op = "Redeem" =>
                  /\ o = "code" /\ l.me \in Users
                  /\ rows'["code"] = Put(rows["code"], l.new, Columns(l))
                  /\ meant'["code"] = Put(meant["code"], l.new, Own(l))
                  /\ rows'[l.me] = [rows[l.me] EXCEPT !["quota"] = @ + l.new.quota]
                  /\ meant'[l.me] = [meant[l.me] EXCEPT !["quota"] = @ + l.new.quota]
             /\ DOMAIN h' = Handlers
             /\ h'[x] = IF l.req.op = "ManageDelete" THEN [l EXCEPT !.req.op = "ManageUser", !.stale = FALSE] ELSE Idle
             /\ \A y \in Handlers \ {x} : h'[y] = Noticed(h, objects, l.req.op \in Binding)[y]
<1> DEFINE l == h[x]
           o == l.req.on
           objects == IF l.req.op = "Redeem" THEN {o, l.me} ELSE {o}
           put(row, cols) == IF Exists(row) \/ l.req.op = "Redeem" THEN Put(row, l.new, cols) ELSE row
           pay(table) == IF l.req.op = "Redeem" THEN Credit(table, l.me, "quota", l.new.quota) ELSE table
           after == IF l.req.op = "ManageDelete" THEN [l EXCEPT !.req.op = "ManageUser", !.stale = FALSE] ELSE Idle
<1>1. /\ l.pc = "write"
      /\ rows' = pay([rows EXCEPT ![o] = put(@, Columns(l))])
      /\ meant' = pay([meant EXCEPT ![o] = put(@, Own(l))])
      /\ h' = [Noticed(h, objects, l.req.op \in Binding) EXCEPT ![x] = after]
  BY DEF Write
<1>2. Local(l) /\ Asked(l) /\ Copy(l)
  BY <1>1 DEF IInv, Handled, Local, OnRow, Writing
<1>3. o \in Objects /\ (l.req.op = "Redeem" => o = "code" /\ l.me \in Users)
  BY <1>2 DEF Asked, AskedOfUser, Binding, Objects
<1>4. DOMAIN rows = Objects /\ DOMAIN meant = Objects
  BY DEF IInv, Tables
<1>5. /\ DOMAIN h' = Handlers /\ h'[x] = after
      /\ \A y \in Handlers \ {x} : h'[y] = Noticed(h, objects, l.req.op \in Binding)[y]
  BY <1>1 DEF Noticed
<1> DEFINE Result(before, now, cols) ==
      /\ DOMAIN now = Objects
      /\ \A p \in Objects \ objects : now[p] = before[p]
      /\ l.req.op # "Redeem" => now[o] = IF Exists(before[o]) THEN Put(before[o], l.new, cols) ELSE before[o]
      /\ l.req.op = "Redeem" => /\ now["code"] = Put(before["code"], l.new, cols)
                                /\ now[l.me] = [before[l.me] EXCEPT !["quota"] = @ + l.new.quota]
<1>6. ASSUME NEW before, NEW now, NEW cols, DOMAIN before = Objects, now = pay([before EXCEPT ![o] = put(@, cols)])
      PROVE  Result(before, now, cols)
  <2> DEFINE half == [before EXCEPT ![o] = put(@, cols)]
             amount == l.new.quota
  <2>1. DOMAIN half = Objects /\ half[o] = put(before[o], cols) /\ \A p \in Objects \ {o} : half[p] = before[p]
    BY <1>3, <1>6
  <2> HIDE DEF half, amount
  <2>2. now = pay(half)
    BY <1>6 DEF half
  <2>3. CASE l.req.op # "Redeem"
    BY <2>1, <2>2, <2>3
  <2>4. CASE l.req.op = "Redeem"
    <3>1. now = [half EXCEPT ![l.me]["quota"] = @ + amount]
      BY <2>2, <2>4 DEF Credit, amount
    <3>2. l.me \in Objects \ {"code"} /\ o = "code"
      BY <1>3, <2>4, AccountsAssumption DEF Objects
    <3>3. DOMAIN now = Objects /\ now[l.me] = [half[l.me] EXCEPT !["quota"] = @ + amount]
          /\ \A p \in Objects \ {l.me} : now[p] = half[p]
      BY <2>1, <3>1, <3>2
    <3>4. half["code"] = Put(before["code"], l.new, cols)
      BY <2>1, <2>4, <3>2
    <3>5. objects = {"code", l.me}
      BY <2>4, <3>2
    <3> HIDE DEF o, objects, put
    <3>6. half[l.me] = before[l.me] /\ now["code"] = half["code"]
      BY <2>1, <3>2, <3>3 DEF Objects
    <3>7. \A p \in Objects \ objects : now[p] = before[p]
      BY <2>1, <3>2, <3>3, <3>5
    <3>8. now[l.me] = [before[l.me] EXCEPT !["quota"] = @ + amount]
      BY <3>3, <3>6
    <3> QED
      BY <2>4, <3>3, <3>4, <3>6, <3>7, <3>8 DEF amount
  <2> QED
    BY <2>3, <2>4
<1> HIDE DEF Result, put, pay, l, o, objects
<1>7. Result(rows, rows', Columns(l)) /\ Result(meant, meant', Own(l))
  <2>1. rows' = pay([rows EXCEPT ![o] = put(@, Columns(l))])
    BY <1>1
  <2>2. meant' = pay([meant EXCEPT ![o] = put(@, Own(l))])
    BY <1>1
  <2> QED
    BY <2>1, <2>2, <1>4, <1>6
<1> USE DEF Result, l, o, objects
<1> QED
  BY <1>2, <1>3, <1>5, <1>7

LEMMA WriteCarries ==
  ASSUME IInv, NEW x \in Handlers, Write(x)
  PROVE  \A y \in Handlers \ {x} : Carried(y) /\ (h[x].req.op \in Binding /\ Claims(h[y]) => h'[y].late)
<1> DEFINE objects == IF h[x].req.op = "Redeem" THEN {h[x].req.on, h[x].me} ELSE {h[x].req.on}
<1>1. /\ \A o \in Objects \ objects : rows'[o] = rows[o]
      /\ \A y \in Handlers \ {x} : h'[y] = Noticed(h, objects, h[x].req.op \in Binding)[y]
  BY WriteIs
<1> HIDE DEF objects
<1>2. (h[x].req.op \in Binding) \in BOOLEAN
  BY DEF Binding
<1> QED
  BY <1>1, <1>2, NoticedCarries

\* A write leaves a user's row one, and does not take its status or identity away.
LEMMA WriteOfUser ==
  ASSUME IInv, NEW x \in Handlers, Write(x), NEW u \in Users
  PROVE  /\ rows'[u] \in [UserColumns -> Int]
         /\ rows'[u].role \in RoleValues /\ rows'[u].status \in 0..4 /\ rows'[u].identity \in {0, 1}
         /\ Exists(rows[u]) => Exists(rows'[u])
         /\ rows[u].identity = 1 => rows'[u].identity = 1
         /\ ~Exists(rows[u]) => ~Exists(rows'[u]) /\ rows'[u].identity = rows[u].identity
<1> DEFINE l == h[x]
<1>1. /\ rows[u] \in [UserColumns -> Int] /\ rows[u].role \in RoleValues /\ rows[u].status \in 0..4
      /\ rows[u].identity \in {0, 1} /\ u \in Objects /\ u # "code"
  BY AccountsAssumption DEF IInv, Tables, Width, Objects
<1>2. CASE l.req.op = "Redeem"
  <2>1. CASE u = l.me
    <3>1. rows'[u] = [rows[u] EXCEPT !["quota"] = @ + l.new.quota] /\ l.new \in [{"status", "quota"} -> Int]
      BY <1>2, <2>1, WriteIs, AccountsAssumption DEF Copy, Width
    <3> QED
      BY <1>1, <3>1 DEF UserColumns, Exists
  <2>2. CASE u # l.me
    BY <1>1, <1>2, <2>2, WriteIs
  <2> QED
    BY <2>1, <2>2
<1>3. CASE l.req.op # "Redeem" /\ (l.req.on # u \/ ~Exists(rows[u]))
  <2>1. rows'[u] = rows[u]
    BY <1>1, <1>3, WriteIs
  <2> QED
    BY <1>1, <2>1
<1>4. CASE l.req.op # "Redeem" /\ l.req.on = u /\ Exists(rows[u])
  <2>1. rows'[u] = Put(rows[u], l.new, Columns(l)) /\ Copy(l) /\ Asked(l)
    BY <1>4, WriteIs
  <2>2. l.new \in [UserColumns -> Int]
    BY <1>4, <2>1 DEF Copy, Width
  <2>3. rows'[u] = [c \in UserColumns |-> IF c \in Columns(l) THEN l.new[c] ELSE rows[u][c]]
    BY <1>1, <2>1 DEF Put
  <2>4. CASE l.req.op = "UpdateSelf"
    <3>1. Columns(l) \subseteq {"password"}
      BY <1>4, <2>1, <2>4, AccountsAssumption DEF Columns, WholeRow, Binding, Asked, AskedOfUser
    <3>2. \A c \in UserColumns \ {"password"} : rows'[u][c] = rows[u][c]
      BY <2>3, <3>1
    <3>3. rows'[u] \in [UserColumns -> Int]
      BY <1>1, <2>2, <2>3
    <3> QED
      BY <1>1, <1>4, <3>2, <3>3 DEF UserColumns, Exists
  <2>5. CASE l.req.op # "UpdateSelf"
    <3>1. l.new.status \in 0..4 /\ l.new.role \in RoleValues /\ l.new.identity \in {0, 1}
      BY <1>4, <2>1, <2>5 DEF Copy
    <3>2. "identity" \in Columns(l) => l.new.identity = 1
      <4>1. CASE l.req.op \in WholeRow
        <5>1. Columns(l) = NonZero(l.new)
          BY <4>1 DEF Columns, WholeRow, Binding
        <5> QED
          BY <2>2, <3>1, <5>1 DEF NonZero
      <4>2. CASE l.req.op \notin WholeRow
        <5>1. u # "code" /\ u # "token" /\ l.req.on = u
          BY <1>4, AccountsAssumption
        <5>2. AskedOfUser(l)
          BY <2>1, <5>1 DEF Asked
        <5>3. l.req.op \in {"UpdateSelf", "DeleteSelf", "DeleteUser", "UpdateUser"} /\ l.req.set # "identity"
          BY <4>2, <5>2 DEF AskedOfUser, WholeRow
        <5>4. Columns(l) \subseteq {l.req.set}
          BY <4>2, <5>3 DEF Columns
        <5> QED
          BY <5>3, <5>4
      <4> QED
        BY <4>1, <4>2
    <3>3. rows'[u] \in [UserColumns -> Int]
      BY <1>1, <2>2, <2>3
    <3>4. rows'[u].role \in RoleValues /\ rows'[u].status \in 0..4 /\ Exists(rows'[u])
      <4>1. \A c \in Columns(l) : c \in UserColumns => l.new[c] # 0
        <5>1. l.req.op \notin {"Redeem", "UpdateRedemption", "UpdateToken"}
          BY <1>4, <2>1, AccountsAssumption DEF Asked, AskedOfUser, Binding
        <5>2. Columns(l) \subseteq NonZero(l.new)
          BY <5>1 DEF Columns
        <5> QED
          BY <5>2 DEF NonZero
      <4> QED
        BY <1>1, <1>4, <2>3, <3>1, <4>1 DEF UserColumns, Exists
    <3>5. rows'[u].identity = IF "identity" \in Columns(l) THEN 1 ELSE rows[u].identity
      BY <2>3, <3>2 DEF UserColumns
    <3> QED
      BY <1>1, <1>4, <3>3, <3>4, <3>5
  <2> QED
    BY <2>4, <2>5
<1> QED
  BY <1>2, <1>3, <1>4

LEMMA WriteKeeps ==
  ASSUME IInv, NEW x \in Handlers, Write(x)
  PROVE  IInv' /\ Grows
<1> DEFINE l == h[x]
           o == h[x].req.on
<1>1. Grows
  BY WriteOfUser DEF Grows
<1>2. Tables'
  <2>1. DOMAIN rows' = Objects /\ DOMAIN meant' = Objects
    BY WriteIs
  <2>2. Kept'
    BY DEF IInv, Tables, Kept, Write
  <2>3. \A u \in Users : rows'[u] \in [Width(u) -> Int]
    BY WriteOfUser DEF Width
  <2>4. ASSUME NEW p \in {"code", "token"} PROVE rows'[p] \in [Width(p) -> Int]
    <3>1. rows[p] \in [Width(p) -> Int] /\ p \notin Users /\ p \in Objects
      BY AccountsAssumption DEF IInv, Tables, Objects
    <3>2. CASE p # o
      <4>1. \A q \in Objects \ (IF l.req.op = "Redeem" THEN {o, l.me} ELSE {o}) : rows'[q] = rows[q]
        BY WriteIs, Zenon
      <4>2. l.req.op = "Redeem" => l.me \in Users
        BY WriteIs, Zenon
      <4>3. rows'[p] = rows[p]
        BY <3>1, <3>2, <4>1, <4>2
      <4> QED
        BY <3>1, <4>3
    <3>3. CASE p = o
      <4>1. l.new \in [Width(p) -> Int]
        BY <3>3, WriteIs DEF Copy
      <4>2. rows'[p] = rows[p] \/ rows'[p] = Put(rows[p], l.new, Columns(l))
        BY <3>3, WriteIs
      <4>3. Put(rows[p], l.new, Columns(l)) \in [Width(p) -> Int]
        BY <3>1, <4>1 DEF Put
      <4> QED
        BY <3>1, <4>2, <4>3
    <3> QED
      BY <3>2, <3>3
  <2>5. \A u \in Users : rows'[u].role \in RoleValues /\ rows'[u].status \in 0..4 /\ rows'[u].identity \in {0, 1}
    BY WriteOfUser
  <2>6. \A p \in Objects : rows'[p] \in [Width(p) -> Int]
    BY <2>3, <2>4 DEF Objects
  <2> QED
    BY <2>1, <2>2, <2>5, <2>6 DEF Tables
<1>3. Handled(x)'
  <2>1. CASE l.req.op # "ManageDelete"
    <3>1. h'[x] = Idle
      BY <2>1, WriteIs
    <3> QED
      BY <3>1, IdleLocal DEF Handled, Writing
  <2>2. CASE l.req.op = "ManageDelete"
    <3> DEFINE m == [l EXCEPT !.req.op = "ManageUser", !.stale = FALSE]
    <3>1. h'[x] = m /\ Local(l) /\ Asked(l) /\ Copy(l) /\ l.pc = "write" /\ l.req.op = "ManageDelete"
      BY <2>2, WriteIs DEF Write
    <3>2. /\ DOMAIN m = LocalFields /\ m.pc = "write" /\ m.node = l.node /\ m.me = l.me /\ m.role = l.role
          /\ m.new = l.new /\ m.stale = FALSE /\ m.late = l.late
          /\ DOMAIN m.req = RequestFields /\ m.req.op = "ManageUser" /\ m.req.on = o /\ m.req.set = l.req.set /\ m.req.to = l.req.to
      BY <3>1 DEF Local, LocalFields, RequestFields
    <3> HIDE DEF m
    <3>3. o \in Users /\ l.req.set = "status" /\ l.req.to = 3 /\ l.role >= RoleAdminUser
      BY <3>1, AccountsAssumption DEF Asked, AskedOfUser, Binding
    <3>4. Local(m)
      BY <3>1, <3>2, <3>3 DEF Local, OnRow, Inserting, Asked, AskedOfUser, Writing
    <3>5. /\ l.new \in [UserColumns -> Int] /\ Width(o) = UserColumns /\ l.new.status = 3 /\ l.new.role \in RoleValues
          /\ l.new.identity \in {0, 1} /\ Exists(rows[o])
          /\ l.new.identity = 1 => rows[o].identity = 1
      BY <3>1, <3>3 DEF Copy, Width, Binding
    <3>6. Columns(l) = NonZero(l.new) /\ Columns(m) = NonZero(l.new)
      BY <3>1, <3>2 DEF Columns, WholeRow
    <3>7. rows'[o] = Put(rows[o], l.new, NonZero(l.new))
      BY <2>2, <3>1, <3>5, <3>6, WriteIs
    <3>8. rows[o] \in [UserColumns -> Int]
      BY <3>3 DEF IInv, Tables, Width, Objects
    <3>9. rows'[o] = [c \in UserColumns |-> IF c \in NonZero(l.new) THEN l.new[c] ELSE rows[o][c]]
      BY <3>7, <3>8 DEF Put
    <3>10. rows'[o].status = 3 /\ (l.new.identity = 1 => rows'[o].identity = 1)
      BY <3>5, <3>9 DEF NonZero, UserColumns
    <3>11. /\ Columns(h[x])' = NonZero(l.new) /\ Own(h[x])' = {"status"}
           /\ ~SetsBan(h[x])'
      BY <3>1, <3>2, <3>3, <3>5 DEF Columns, Own, SetsBan, WholeRow, NonZero, Deleting
    <3>12. Current(h[x])'
      <4>1. \A c \in UserColumns : c \in NonZero(l.new) => l.new[c] = rows'[o][c]
        BY <3>9
      <4> QED
        BY <3>1, <3>2, <3>3, <3>5, <3>10, <3>11, <4>1 DEF Current, Width
    <3>13. Copy(h[x])'
      BY <3>1, <3>2, <3>3, <3>5, <3>10, <3>12 DEF Copy, Exists, Width
    <3>14. Local(h[x])'
      BY <3>1, <3>4
    <3> QED
      BY <3>13, <3>14 DEF Handled
  <2> QED
    BY <2>1, <2>2
<1>4. DOMAIN h' = Handlers
  BY WriteIs
<1> QED
  BY <1>1, <1>2, <1>3, <1>4, WriteCarries, Keeps

\* Handlers that give up, and the last step of a reset.
LEMMA AnswerKeeps ==
  ASSUME IInv, NEW x \in Handlers, WriteFails(x) \/ InsertFails(x) \/ DeleteKey(x)
  PROVE  IInv' /\ Grows /\ \A y \in Handlers \ {x} : h'[y] = h[y] /\ Carried(y)
<1>1. Reply(x) /\ UNCHANGED <<rows, meant, sessions>>
  BY DEF WriteFails, InsertFails, DeleteKey, ghosts
<1>2. CASE WriteFails(x) \/ InsertFails(x)
  <2>1. Kept'
    BY <1>2, KeptStays DEF WriteFails, InsertFails, IInv
  <2> QED
    BY <1>1, <2>1, ReplyKeeps
<1>3. CASE DeleteKey(x)
  <2>1. codes' = [codes EXCEPT ![h[x].node].reset = 0]
    BY <1>3 DEF DeleteKey
  <2>2. Kept'
    BY <1>1, <2>1 DEF IInv, Tables, Kept
  <2> QED
    BY <1>1, <2>2, ReplyKeeps
<1> QED
  BY <1>2, <1>3

LEMMA KeepsAll ==
  ASSUME IInv, Tables', Grows, DOMAIN h' = Handlers, \A y \in Handlers : Carried(y)
  PROVE  IInv'
<1>1. \A y \in Handlers : Handled(y)'
  BY CarriedKeeps DEF IInv
<1> QED
  BY <1>1 DEF IInv

\* A handler that is not about to write and that a statement passes by.
LEMMA NoticedLocal ==
  ASSUME NEW g, NEW objects, NEW identity \in BOOLEAN, NEW y \in Handlers, Local(g[y])
  PROVE  Local(Noticed(g, objects, identity)[y])
<1> DEFINE l == Noticed(g, objects, identity)[y]
<1>1. /\ DOMAIN l = LocalFields /\ l.pc = g[y].pc /\ l.node = g[y].node /\ l.me = g[y].me /\ l.role = g[y].role
      /\ l.req = g[y].req /\ l.new = g[y].new /\ l.stale \in BOOLEAN /\ l.late \in BOOLEAN
  BY NoticedIs
<1> HIDE DEF l
<1>2. Local(l)
  <2>1. DOMAIN l.req = RequestFields /\ l.role \in RoleValues /\ (Asked(g[y]) => Asked(l))
    BY <1>1 DEF Local, Asked, AskedOfUser
  <2> QED
    BY <1>1, <2>1 DEF Local, OnRow, Inserting
<1> QED
  BY <1>2 DEF l

\* A column that is added to.
LEMMA CreditKeeps ==
  ASSUME IInv, NEW o \in Objects, NEW column \in Width(o) \ {"role", "status", "identity"}, NEW amount \in Int,
         rows' = Credit(rows, o, column, amount), meant' = Credit(meant, o, column, amount), UNCHANGED <<sessions, codes>>
  PROVE  /\ Tables' /\ Grows
         /\ \A p \in Objects \ {o} : rows'[p] = rows[p] /\ meant'[p] = meant[p]
         /\ rows'[o] = [rows[o] EXCEPT ![column] = @ + amount] /\ meant'[o] = [meant[o] EXCEPT ![column] = @ + amount]
<1>1. DOMAIN rows = Objects /\ DOMAIN meant = Objects /\ \A p \in Objects : rows[p] \in [Width(p) -> Int]
  BY DEF IInv, Tables
<1>2. /\ DOMAIN rows' = Objects /\ DOMAIN meant' = Objects
      /\ \A p \in Objects \ {o} : rows'[p] = rows[p] /\ meant'[p] = meant[p]
      /\ rows'[o] = [rows[o] EXCEPT ![column] = @ + amount] /\ meant'[o] = [meant[o] EXCEPT ![column] = @ + amount]
  BY <1>1 DEF Credit
<1>3. \A p \in Objects : rows'[p] \in [Width(p) -> Int]
  BY <1>1, <1>2
<1>4. \A u \in Users : /\ rows'[u].role = rows[u].role /\ rows'[u].status = rows[u].status
                       /\ rows'[u].identity = rows[u].identity
  <2> SUFFICES ASSUME NEW u \in Users
               PROVE  /\ rows'[u].role = rows[u].role /\ rows'[u].status = rows[u].status
                      /\ rows'[u].identity = rows[u].identity
    OBVIOUS
  <2>1. u \in Objects /\ rows[u] \in [UserColumns -> Int] /\ {"role", "status", "identity"} \subseteq UserColumns
    BY <1>1 DEF Objects, Width, UserColumns
  <2>2. CASE u = o
    BY <1>2, <2>1, <2>2
  <2>3. CASE u # o
    BY <1>2, <2>1, <2>3
  <2> QED
    BY <2>2, <2>3
<1>5. Grows
  BY <1>4 DEF Grows, Exists
<1>6. Tables'
  BY <1>2, <1>3, <1>4, KeptStays DEF IInv, Tables
<1> QED
  BY <1>2, <1>5, <1>6

LEMMA AddKeeps ==
  ASSUME IInv, NEW o \in Objects, NEW column \in Width(o) \ {"role", "status", "identity"}, NEW amount \in Int,
         Add(o, column, amount, h)
  PROVE  IInv' /\ Grows /\ \A y \in Handlers : Carried(y)
<1>1. Tables' /\ Grows /\ \A p \in Objects \ {o} : rows'[p] = rows[p]
  BY CreditKeeps DEF Add
<1>2. DOMAIN h' = Handlers /\ \A y \in Handlers : h'[y] = Noticed(h, {o}, FALSE)[y]
  BY DEF Add, Noticed
<1>3. \A y \in Handlers : Carried(y)
  BY <1>1, <1>2, NoticedCarries
<1> QED
  BY <1>1, <1>2, <1>3, KeepsAll

LEMMA RelayKeeps ==
  ASSUME IInv, AdminTopUp \/ Consume
  PROVE  /\ IInv' /\ Grows /\ \A y \in Handlers : Carried(y)
         /\ \E o \in Objects : \E column \in Width(o) \ {"role", "status", "identity"} : \E amount \in Int :
              Add(o, column, amount, h)
<1>1. PICK o, column, amount : /\ o \in Objects /\ column \in Width(o) \ {"role", "status", "identity"} /\ amount \in Int
                               /\ Add(o, column, amount, h)
  <2>1. CASE \E u \in Users : Add(u, "quota", 1, h)
    BY <2>1 DEF Objects, Width, UserColumns
  <2>2. CASE \E u \in Users : Add(u, "quota", -1, h)
    BY <2>2 DEF Objects, Width, UserColumns
  <2>3. CASE Add("token", "remain", -1, h)
    BY <2>3, AccountsAssumption DEF Objects, Width
  <2> QED
    BY <2>1, <2>2, <2>3 DEF AdminTopUp, Consume
<1> QED
  BY <1>1, AddKeeps

LEMMA BonusKeeps ==
  ASSUME IInv, NEW x \in Handlers, Bonus(x)
  PROVE  /\ IInv' /\ Grows /\ \A y \in Handlers \ {x} : Carried(y)
         /\ \E u \in Users : \E g : Add(u, "quota", 1, g)
         /\ ~Claims(h'[x]) /\ ~Resetting(h'[x]) /\ h'[x].pc \notin Writing
<1>1. Local(h[x])
  BY DEF IInv, Handled
<1> DEFINE last == IF h[x].pc = "invitee" THEN [h[x] EXCEPT !.pc = "inviter"] ELSE Idle
           g == [h EXCEPT ![x] = last]
<1>2. PICK u \in Users : Add(u, "quota", 1, g)
  <2>1. CASE h[x].pc = "invitee" /\ Add(h[x].req.on, "quota", 1, [h EXCEPT ![x].pc = "inviter"])
    <3>1. g = [h EXCEPT ![x].pc = "inviter"]
      BY <2>1 DEF IInv
    <3> QED
      BY <1>1, <2>1, <3>1 DEF Local
  <2>2. CASE h[x].pc = "inviter" /\ Add(h[x].me, "quota", 1, [h EXCEPT ![x] = Idle])
    BY <1>1, <2>2 DEF Local
  <2> QED
    BY <2>1, <2>2 DEF Bonus
<1>3. Local(last) /\ last.pc \in {"inviter", "idle"}
  <2>1. CASE h[x].pc = "invitee"
    BY <1>1, <2>1 DEF Local, LocalFields, OnRow, Inserting, Writing
  <2>2. CASE h[x].pc # "invitee"
    BY <2>2, IdleLocal
  <2> QED
    BY <2>1, <2>2
<1> HIDE DEF last
<1>4. g[x] = last /\ \A y \in Handlers \ {x} : g[y] = h[y]
  BY DEF IInv
<1> HIDE DEF g
<1>5. u \in Objects /\ "quota" \in Width(u)
  BY DEF Objects, Width, UserColumns
<1>6. Tables' /\ Grows /\ \A p \in Objects \ {u} : rows'[p] = rows[p]
  <2>1. rows' = Credit(rows, u, "quota", 1) /\ meant' = Credit(meant, u, "quota", 1) /\ UNCHANGED <<sessions, codes>>
    BY <1>2 DEF Add
  <2>2. "quota" \in Width(u) \ {"role", "status", "identity"} /\ 1 \in Int
    BY <1>5
  <2> QED
    BY <1>5, <2>1, <2>2, CreditKeeps
<1>7. DOMAIN h' = Handlers /\ \A y \in Handlers : h'[y] = Noticed(g, {u}, FALSE)[y]
  BY <1>2 DEF Add, Noticed
<1>8. \A y \in Handlers \ {x} : Carried(y)
  BY <1>4, <1>6, <1>7, NoticedCarries
<1>9. Local(h'[x]) /\ h'[x].pc \in {"inviter", "idle"}
  <2>1. FALSE \in BOOLEAN /\ Local(g[x])
    BY <1>3, <1>4
  <2>2. Local(Noticed(g, {u}, FALSE)[x]) /\ Noticed(g, {u}, FALSE)[x].pc = g[x].pc
    <3>1. Local(Noticed(g, {u}, FALSE)[x])
      BY <2>1, NoticedLocal
    <3>2. Noticed(g, {u}, FALSE)[x].pc = g[x].pc
      BY <2>1 DEF Noticed, Local, LocalFields
    <3> QED
      BY <3>1, <3>2
  <2> QED
    BY <1>3, <1>4, <1>7, <2>2
<1>10. Handled(x)'
  BY <1>9 DEF Handled, Local, OnRow, Inserting, Asked, AskedOfUser, Writing
<1>11. IInv'
  BY <1>6, <1>7, <1>8, <1>10, Keeps
<1> QED
  BY <1>2, <1>6, <1>8, <1>9, <1>11 DEF Claims, Resetting, Writing

\* A bonus that is not written touches no row.
LEMMA MissedKeeps ==
  ASSUME IInv, NEW x \in Handlers, BonusFails(x)
  PROVE  /\ IInv' /\ Grows /\ \A y \in Handlers \ {x} : h'[y] = h[y] /\ Carried(y)
         /\ \E u \in Users : meant' = Credit(meant, u, "quota", 1) /\ unwritten' = unwritten \cup {<<u, "quota">>}
         /\ h[x].pc \in {"invitee", "inviter"} /\ h'[x].pc \in {"inviter", "idle"}
         /\ UNCHANGED <<rows, sessions, banned, codes, raced, shaken, statusAt, shared, redeemed, resets>>
<1>1. Local(h[x]) /\ h[x].pc \in {"invitee", "inviter"}
  BY DEF IInv, Handled, BonusFails
<1> DEFINE last == IF h[x].pc = "invitee" THEN [h[x] EXCEPT !.pc = "inviter"] ELSE Idle
<1>2. PICK u \in Users : /\ h' = [h EXCEPT ![x] = last]
                         /\ meant' = Credit(meant, u, "quota", 1) /\ unwritten' = unwritten \cup {<<u, "quota">>}
  <2>1. CASE h[x].pc = "invitee"
    BY <1>1, <2>1 DEF Local, BonusFails
  <2>2. CASE h[x].pc = "inviter"
    BY <1>1, <2>2 DEF Local, BonusFails
  <2> QED
    BY <1>1, <2>1, <2>2
<1>3. Local(last) /\ last.pc \in {"inviter", "idle"}
  <2>1. CASE h[x].pc = "invitee"
    BY <1>1, <2>1 DEF Local, LocalFields, OnRow, Inserting, Writing
  <2>2. CASE h[x].pc # "invitee"
    BY <2>2, IdleLocal
  <2> QED
    BY <2>1, <2>2
<1> HIDE DEF last
<1>4. UNCHANGED <<rows, sessions, banned, codes, raced, shaken, statusAt, shared, redeemed, resets>>
  BY DEF BonusFails
<1>5. DOMAIN meant' = DOMAIN meant /\ Kept'
  BY <1>2, <1>4, KeptStays DEF Credit, IInv
<1>6. h'[x] = last
  BY <1>2 DEF IInv
<1>7. last.pc \notin Writing
  BY <1>3 DEF Writing
<1>8. IInv' /\ Grows /\ \A y \in Handlers \ {x} : h'[y] = h[y] /\ Carried(y)
  BY <1>2, <1>3, <1>4, <1>5, <1>7, KeepsAlone
<1> QED
  BY <1>1, <1>2, <1>3, <1>4, <1>6, <1>8

\* A new row, and a handler that goes on for the inviter or answers.
LEMMA InsertKeeps ==
  ASSUME IInv, NEW x \in Handlers, Insert(x)
  PROVE  /\ IInv' /\ Grows /\ Inserting(h[x])
         /\ \A y \in Handlers \ {x} : Carried(y) /\ (h[x].req.op \in FirstLogin /\ Claims(h[y]) => h'[y].late)
         /\ ~Claims(h'[x]) /\ ~Resetting(h'[x]) /\ h'[x].pc \notin Writing
         /\ \E u \in Users :
              /\ rows[u] = Absent /\ rows'[u].role = RoleCommonUser /\ rows'[u].status = 1
              /\ rows'[u].identity = (IF h[x].req.op \in FirstLogin THEN 1 ELSE 0) /\ meant'[u] = rows'[u]
              /\ \A o \in Objects \ {u} : rows'[o] = rows[o] /\ meant'[o] = meant[o]
<1> DEFINE l == h[x]
           oauth == l.req.op \in FirstLogin
<1>1. Local(l) /\ Inserting(l)
  BY DEF IInv, Handled, Insert, Inserting
<1>2. PICK u \in Users :
        LET row == UserRow(RoleCommonUser, l.req.to, IF oauth THEN 1 ELSE 0)
        IN  /\ rows[u] = Absent
            /\ rows' = [rows EXCEPT ![u] = row] /\ meant' = [meant EXCEPT ![u] = row]
            /\ sessions' = IF oauth THEN [sessions EXCEPT ![u] = Session(row)] ELSE sessions
            /\ h' = Noticed([h EXCEPT ![x] = IF l.me = "none" THEN Idle
                                             ELSE [l EXCEPT !.pc = "invitee", !.req.on = u]], {u}, oauth)
  BY DEF Insert
<1> DEFINE row == UserRow(RoleCommonUser, l.req.to, IF oauth THEN 1 ELSE 0)
           last == IF l.me = "none" THEN Idle ELSE [l EXCEPT !.pc = "invitee", !.req.on = u]
           g == [h EXCEPT ![x] = last]
<1>3. row \in [UserColumns -> Int] /\ row.role = RoleCommonUser /\ row.status = 1 /\ row.identity = IF oauth THEN 1 ELSE 0
  BY <1>1 DEF UserRow, UserColumns, RoleCommonUser, Local
<1>4. u \in Objects /\ Width(u) = UserColumns /\ DOMAIN rows = Objects /\ DOMAIN meant = Objects
  BY DEF Objects, Width, IInv, Tables
<1>5. /\ DOMAIN rows' = Objects /\ DOMAIN meant' = Objects
      /\ rows'[u] = row /\ meant'[u] = row /\ \A o \in Objects \ {u} : rows'[o] = rows[o] /\ meant'[o] = meant[o]
  BY <1>2, <1>4
<1>6. sessions' = sessions \/ sessions' = [sessions EXCEPT ![u] = Session(row)]
  BY <1>2
<1>7. h' = Noticed(g, {u}, oauth) /\ rows[u] = Absent
  BY <1>2
<1> HIDE DEF row
<1>8. Kept'
  <2>1. UNCHANGED codes
    BY DEF Insert
  <2> QED
    BY <1>3, <1>6, <2>1 DEF IInv, Tables, Kept, Session, RoleValues
<1>9. Tables'
  <2>1. \A o \in Objects : rows'[o] \in [Width(o) -> Int]
    BY <1>3, <1>4, <1>5 DEF IInv, Tables
  <2>2. \A v \in Users : rows'[v].role \in RoleValues /\ rows'[v].status \in 0..4 /\ rows'[v].identity \in {0, 1}
    BY <1>3, <1>5 DEF IInv, Tables, Objects, RoleValues
  <2> QED
    BY <1>5, <1>8, <2>1, <2>2 DEF Tables
<1>10. Grows
  <2>1. rows[u].identity = 0 /\ ~Exists(rows[u])
    BY <1>7 DEF Absent, Exists
  <2> QED
    BY <1>5, <2>1 DEF Grows, Objects
<1>11. Local(last) /\ last.pc \in {"invitee", "idle"}
  <2>1. CASE l.me = "none"
    BY <2>1, IdleLocal
  <2>2. CASE l.me # "none"
    <3>1. l.me \in Users
      BY <1>1, <2>2 DEF Local
    <3>2. /\ DOMAIN last = LocalFields /\ last.pc = "invitee" /\ last.node = l.node /\ last.me = l.me /\ last.role = l.role
          /\ last.new = l.new /\ last.stale = l.stale /\ last.late = l.late
          /\ DOMAIN last.req = RequestFields /\ last.req.on = u
      BY <1>1, <2>2 DEF Local, LocalFields, RequestFields
    <3> QED
      BY <1>1, <3>1, <3>2 DEF Local, OnRow, Inserting, Writing
  <2> QED
    BY <2>1, <2>2
<1> HIDE DEF last
<1>12. g[x] = last /\ \A y \in Handlers \ {x} : g[y] = h[y]
  BY DEF IInv
<1>13. oauth \in BOOLEAN
  OBVIOUS
<1> HIDE DEF g
<1>14. DOMAIN h' = Handlers /\ \A y \in Handlers : h'[y] = Noticed(g, {u}, oauth)[y]
  BY <1>7 DEF Noticed
<1> HIDE DEF oauth
<1>15. \A y \in Handlers \ {x} : Carried(y) /\ (oauth /\ Claims(h[y]) => h'[y].late)
  BY <1>5, <1>12, <1>13, <1>14, NoticedCarries
<1>16. Local(h'[x]) /\ h'[x].pc \in {"invitee", "idle"}
  <2>1. Local(Noticed(g, {u}, oauth)[x])
    BY <1>11, <1>12, <1>13, NoticedLocal
  <2>2. Noticed(g, {u}, oauth)[x].pc = g[x].pc
    BY <1>11, <1>12 DEF Noticed, Local, LocalFields
  <2> QED
    BY <1>11, <1>12, <1>14, <2>1, <2>2
<1>17. Handled(x)'
  BY <1>16 DEF Handled, Local, OnRow, Inserting, Asked, AskedOfUser, Writing
<1>18. IInv'
  BY <1>9, <1>10, <1>14, <1>15, <1>17, Keeps
<1>19. ~Claims(h'[x]) /\ ~Resetting(h'[x]) /\ h'[x].pc \notin Writing
  BY <1>16 DEF Claims, Resetting, Writing
<1>20. \A y \in Handlers \ {x} : Carried(y) /\ (h[x].req.op \in FirstLogin /\ Claims(h[y]) => h'[y].late)
  BY <1>15 DEF oauth
<1>21. rows'[u].identity = (IF h[x].req.op \in FirstLogin THEN 1 ELSE 0)
  BY <1>3, <1>5 DEF oauth
<1> QED
  BY <1>1, <1>3, <1>5, <1>7, <1>10, <1>18, <1>19, <1>20, <1>21

LEMMA DeleteRowKeeps ==
  ASSUME IInv, DeleteToken \/ DeleteRedemption
  PROVE  /\ IInv' /\ Grows /\ \A y \in Handlers : Carried(y)
         /\ \E o \in {"code", "token"} :
              /\ rows'[o] = [c \in DOMAIN rows[o] |-> 0] /\ meant'[o] = [c \in DOMAIN meant[o] |-> 0]
              /\ \A p \in Objects \ {o} : rows'[p] = rows[p] /\ meant'[p] = meant[p]
<1>1. PICK o \in {"code", "token"} : DeleteRow("DeleteToken", o) \/ DeleteRow("DeleteRedemption", o)
  BY DEF DeleteToken, DeleteRedemption
<1>2. /\ rows' = [rows EXCEPT ![o] = [c \in DOMAIN @ |-> 0]] /\ meant' = [meant EXCEPT ![o] = [c \in DOMAIN @ |-> 0]]
      /\ h' = Noticed(h, {o}, FALSE) /\ UNCHANGED <<sessions, codes>>
  BY <1>1 DEF DeleteRow
<1>3. /\ o \in Objects \ Users /\ DOMAIN rows = Objects /\ DOMAIN meant = Objects /\ rows[o] \in [Width(o) -> Int]
  BY AccountsAssumption DEF Objects, IInv, Tables
<1>4. /\ DOMAIN rows' = Objects /\ DOMAIN meant' = Objects
      /\ rows'[o] = [c \in DOMAIN rows[o] |-> 0] /\ meant'[o] = [c \in DOMAIN meant[o] |-> 0]
      /\ \A p \in Objects \ {o} : rows'[p] = rows[p] /\ meant'[p] = meant[p]
  BY <1>2, <1>3
<1>5. \A u \in Users : rows'[u] = rows[u]
  BY <1>3, <1>4 DEF Objects
<1>6. Grows
  BY <1>5 DEF Grows
<1>7. Tables'
  <2>1. \A p \in Objects : rows'[p] \in [Width(p) -> Int]
    BY <1>3, <1>4 DEF IInv, Tables
  <2> QED
    BY <1>2, <1>4, <1>5, <2>1, KeptStays DEF IInv, Tables
<1>8. DOMAIN h' = Handlers /\ \A y \in Handlers : h'[y] = Noticed(h, {o}, FALSE)[y]
  BY <1>2 DEF Noticed
<1>9. \A y \in Handlers : Carried(y)
  <2> SUFFICES ASSUME NEW y \in Handlers PROVE Carried(y)
    OBVIOUS
  <2>1. h'[y] = Noticed(h, {o}, FALSE)[y] /\ \A p \in Objects \ {o} : rows'[p] = rows[p]
    BY <1>4, <1>8
  <2> QED
    BY <2>1, NoticedCarries, ZenonT(30)
<1>10. IInv'
  BY <1>6, <1>7, <1>8, <1>9, KeepsAll
<1> QED
  BY <1>4, <1>6, <1>9, <1>10, Zenon

\* The passwords of all rows with the address are set; requests with the same code that
\* are still to set theirs know that they overlap.
LEMMA ResetKeeps ==
  ASSUME IInv, NEW x \in Handlers, ResetRows(x)
  PROVE  /\ IInv' /\ Grows /\ \A y \in Handlers \ {x} : Carried(y)
         /\ h[x].pc = "reset" /\ h'[x].pc = "delete" /\ h'[x].node = h[x].node /\ h'[x].req = h[x].req
         /\ \A y \in Handlers \ {x} : h[y].pc = "reset" /\ h[y].req.to = h[x].req.to => h'[y].late
         /\ \E owners \in SUBSET Users :
              /\ \A o \in owners : /\ rows'[o] = [rows[o] EXCEPT !.password = 4]
                                   /\ meant'[o] = [meant[o] EXCEPT !.password = 4]
              /\ \A o \in Objects \ owners : rows'[o] = rows[o] /\ meant'[o] = meant[o]
<1> DEFINE k == h[x].req.to
           owners == {u \in Users : rows[u].email = 1}
           others == [h EXCEPT ![x].pc = "delete"]
           g == [y \in Handlers |-> IF others[y].pc = "reset" /\ others[y].req.to = k
                                    THEN [others[y] EXCEPT !.late = TRUE] ELSE others[y]]
<1>1. /\ rows' = [o \in Objects |-> IF o \in owners THEN [rows[o] EXCEPT !.password = 4] ELSE rows[o]]
      /\ meant' = [o \in Objects |-> IF o \in owners THEN [meant[o] EXCEPT !.password = 4] ELSE meant[o]]
      /\ h[x].pc = "reset" /\ h' = Noticed(g, owners, FALSE) /\ UNCHANGED <<sessions, codes>>
  BY DEF ResetRows
<1>2. owners \in SUBSET Users /\ owners \subseteq Objects
  BY DEF Objects
<1> HIDE DEF owners
<1>3. /\ DOMAIN rows' = Objects /\ DOMAIN meant' = Objects
      /\ \A o \in owners : rows'[o] = [rows[o] EXCEPT !.password = 4] /\ meant'[o] = [meant[o] EXCEPT !.password = 4]
      /\ \A o \in Objects \ owners : rows'[o] = rows[o] /\ meant'[o] = meant[o]
  BY <1>1, <1>2
<1>4. \A u \in Users : /\ rows'[u] \in [UserColumns -> Int] /\ rows'[u].role = rows[u].role
                       /\ rows'[u].status = rows[u].status /\ rows'[u].identity = rows[u].identity
  <2> SUFFICES ASSUME NEW u \in Users
               PROVE  /\ rows'[u] \in [UserColumns -> Int] /\ rows'[u].role = rows[u].role
                      /\ rows'[u].status = rows[u].status /\ rows'[u].identity = rows[u].identity
    OBVIOUS
  <2>1. rows[u] \in [UserColumns -> Int] /\ u \in Objects
    BY DEF IInv, Tables, Objects, Width
  <2>2. CASE u \in owners
    <3>1. rows'[u] = [rows[u] EXCEPT !.password = 4]
      BY <1>3, <2>2
    <3> QED
      BY <2>1, <3>1 DEF UserColumns
  <2>3. CASE u \notin owners
    BY <1>3, <2>1, <2>3
  <2> QED
    BY <2>2, <2>3
<1>5. Grows
  BY <1>4 DEF Grows, Exists
<1>6. Tables'
  <2>1. \A p \in {"code", "token"} : p \in Objects \ owners
    BY <1>2, AccountsAssumption DEF Objects
  <2>2. \A p \in Objects : rows'[p] \in [Width(p) -> Int]
    BY <1>3, <1>4, <2>1 DEF IInv, Tables, Objects, Width
  <2> QED
    BY <1>1, <1>3, <1>4, <2>2, KeptStays DEF IInv, Tables
<1>7. \A y \in Handlers : Local(h[y])
  BY DEF IInv, Handled
<1>8. ASSUME NEW y \in Handlers \ {x}
      PROVE  /\ g[y].pc = h[y].pc /\ g[y].node = h[y].node /\ g[y].me = h[y].me /\ g[y].role = h[y].role
             /\ g[y].req = h[y].req /\ g[y].new = h[y].new /\ g[y].stale = h[y].stale /\ DOMAIN g[y] = LocalFields
             /\ g[y].late \in BOOLEAN /\ (h[y].late => g[y].late)
             /\ (h[y].pc = "reset" /\ h[y].req.to = k => g[y].late)
  BY <1>7 DEF IInv, Local, LocalFields
<1>9. /\ DOMAIN g[x] = LocalFields /\ g[x].pc = "delete" /\ g[x].node = h[x].node /\ g[x].me = h[x].me /\ g[x].role = h[x].role
      /\ g[x].req = h[x].req /\ g[x].new = h[x].new /\ g[x].stale = h[x].stale /\ g[x].late = h[x].late
  <2>1. others[x] = [h[x] EXCEPT !.pc = "delete"]
    BY DEF IInv
  <2>2. Local(h[x]) /\ others[x].pc = "delete"
    BY <1>7, <2>1 DEF Local, LocalFields
  <2>3. g[x] = [h[x] EXCEPT !.pc = "delete"]
    <3> HIDE DEF others
    <3>1. g[x] = others[x]
      BY <2>2
    <3> QED
      BY <2>1, <3>1
  <2> HIDE DEF g
  <2> QED
    BY <2>2, <2>3 DEF Local, LocalFields
<1> HIDE DEF g
<1>10. \A y \in Handlers \ {x} : Local(g[y])
  <2> SUFFICES ASSUME NEW y \in Handlers \ {x} PROVE Local(g[y])
    OBVIOUS
  <2>1. Local(h[y]) /\ (Asked(h[y]) => Asked(g[y]))
    BY <1>7, <1>8 DEF Asked, AskedOfUser
  <2> QED
    BY <1>8, <2>1 DEF Local, OnRow, Inserting
<1>11. Local(g[x])
  BY <1>7, <1>9 DEF Local, OnRow, Inserting, Writing
<1>12. DOMAIN h' = Handlers /\ \A y \in Handlers : h'[y] = Noticed(g, owners, FALSE)[y]
  BY <1>1 DEF Noticed
<1>13. \A y \in Handlers \ {x} : Carried(y) /\ (g[y].late => h'[y].late)
  <2> SUFFICES ASSUME NEW y \in Handlers \ {x} PROVE Carried(y) /\ (g[y].late => h'[y].late)
    OBVIOUS
  <2> DEFINE l == Noticed(g, owners, FALSE)[y]
  <2>1. /\ DOMAIN l = LocalFields /\ l.pc = g[y].pc /\ l.node = g[y].node /\ l.me = g[y].me /\ l.role = g[y].role
        /\ l.req = g[y].req /\ l.new = g[y].new /\ l.stale \in BOOLEAN /\ l.late \in BOOLEAN
        /\ l.stale <=> g[y].stale \/ (g[y].req.on \in owners /\ g[y].pc \in Writing)
        /\ g[y].late => l.late
    <3>1. Local(g[y]) /\ FALSE \in BOOLEAN
      BY <1>10
    <3> QED
      BY <3>1 DEF Noticed, Local, LocalFields, Writing
  <2>2. h'[y] = l
    BY <1>12
  <2> HIDE DEF l
  <2>3. h[y].pc \in Writing => h[y].req.on \in Objects
    BY <1>7 DEF Local, OnRow, Asked, AskedOfUser, Objects
  <2> QED
    BY <1>3, <1>8, <2>1, <2>2, <2>3 DEF Carried
<1>14. Local(h'[x]) /\ h'[x].pc = "delete" /\ h'[x].node = h[x].node /\ h'[x].req = h[x].req
  <2>1. Local(g[x]) /\ FALSE \in BOOLEAN
    BY <1>11
  <2>2. Local(Noticed(g, owners, FALSE)[x])
    BY <2>1, NoticedLocal
  <2>3. /\ Noticed(g, owners, FALSE)[x].pc = g[x].pc /\ Noticed(g, owners, FALSE)[x].node = g[x].node
        /\ Noticed(g, owners, FALSE)[x].req = g[x].req
    BY <2>1 DEF Noticed, Local, LocalFields
  <2> QED
    BY <1>9, <1>12, <2>2, <2>3
<1>15. Handled(x)'
  BY <1>14 DEF Handled, Local, OnRow, Inserting, Asked, AskedOfUser, Writing
<1>16. IInv'
  BY <1>5, <1>6, <1>12, <1>13, <1>15, Keeps
<1>17. \A y \in Handlers \ {x} : h[y].pc = "reset" /\ h[y].req.to = h[x].req.to => h'[y].late
  BY <1>8, <1>13
<1> QED
  BY <1>1, <1>2, <1>3, <1>5, <1>13, <1>14, <1>16, <1>17

\* Log-ins, log-outs and codes touch no row and no handler.
Elsewhere == Login \/ Logout \/ SendEmailVerification \/ SendPasswordResetEmail \/ CodesExpire

LEMMA ElsewhereKeeps ==
  ASSUME IInv, Elsewhere
  PROVE  /\ UNCHANGED <<rows, h, banned, ghosts>> /\ IInv' /\ Grows /\ \A y \in Handlers : h'[y] = h[y] /\ Carried(y)
<1>1. UNCHANGED <<rows, h, banned, ghosts>>
  BY DEF Elsewhere, Login, Logout, SendEmailVerification, SendPasswordResetEmail, CodesExpire
<1>2. /\ sessions' = sessions \/ \E u \in Users : \/ sessions' = [sessions EXCEPT ![u] = Session(rows[u])]
                                                  \/ sessions' = [sessions EXCEPT ![u] = NoSession]
      /\ codes' = codes \/ \E n \in Nodes : \/ codes' = [codes EXCEPT ![n].email = 1]
                                            \/ codes' = [codes EXCEPT ![n].reset = bounds.ops + 1]
                                            \/ codes' = [codes EXCEPT ![n] = [email |-> 0, reset |-> 0]]
  BY DEF Elsewhere, Login, Logout, SendEmailVerification, SendPasswordResetEmail, CodesExpire
<1>3. DOMAIN sessions' = Users /\ \A u \in Users : sessions'[u].role \in RoleValues
  BY <1>2 DEF IInv, Tables, Kept, Session, NoSession, RoleValues
<1>4. DOMAIN codes' = Nodes /\ \A n \in Nodes : DOMAIN codes'[n] = {"email", "reset"} /\ codes'[n].email \in {0, 1}
  BY <1>2 DEF IInv, Tables, Kept
<1>5. Kept' /\ UNCHANGED meant
  BY <1>1, <1>3, <1>4 DEF Kept, ghosts
<1> QED
  BY <1>1, <1>5, KeepsStill

LEMMA RestartKeeps ==
  ASSUME IInv, Restart
  PROVE  /\ UNCHANGED rows /\ IInv' /\ Grows /\ \A y \in Handlers : h'[y] = Idle \/ (h'[y] = h[y] /\ Carried(y))
<1>1. PICK n \in Nodes :
        /\ codes' = [codes EXCEPT ![n] = [email |-> 0, reset |-> 0]]
        /\ h' = [x \in Handlers |-> IF h[x].node = n THEN Idle ELSE h[x]]
  BY DEF Restart
<1>2. UNCHANGED <<rows, sessions, meant>>
  BY DEF Restart
<1>3. Kept'
  BY <1>1, <1>2 DEF IInv, Tables, Kept
<1>4. Tables' /\ Grows
  BY <1>2, <1>3 DEF IInv, Tables, Grows
<1>5. \A y \in Handlers : h'[y] = Idle \/ (h'[y] = h[y] /\ Carried(y))
  BY <1>1, <1>2, UnchangedCarries
<1>6. \A y \in Handlers : Handled(y)'
  <2> SUFFICES ASSUME NEW y \in Handlers PROVE Handled(y)'
    OBVIOUS
  <2>1. CASE h'[y] = Idle
    BY <2>1, IdleLocal DEF Handled, Writing
  <2>2. CASE Carried(y)
    BY <1>4, <2>2, CarriedKeeps DEF IInv
  <2> QED
    BY <1>5, <2>1, <2>2
<1> QED
  BY <1>1, <1>2, <1>4, <1>5, <1>6 DEF IInv

LEMMA StutterKeeps ==
  ASSUME IInv, UNCHANGED vars
  PROVE  IInv' /\ \A y \in Handlers : h'[y] = h[y] /\ Carried(y)
<1>1. UNCHANGED <<rows, h, meant, sessions, codes>>
  BY DEF vars, ghosts
<1>2. Kept'
  BY <1>1, KeptStays DEF IInv
<1> QED
  BY <1>1, <1>2, KeepsStill

LEMMA InitInvariant == Init => IInv
<1> SUFFICES ASSUME Init PROVE IInv
  OBVIOUS
<1>1. rows = [o \in Objects |-> CASE o = "code" -> CodeRow
                                  [] o = "token" -> TokenRow
                                  [] o \in Users -> IF InitialRole[o] = 0 THEN Absent ELSE UserRow(InitialRole[o], 0, 0)] /\ meant = rows
  BY DEF Init
<1>2. \A u \in Users : u \in Objects /\ rows[u] \in {Absent, UserRow(InitialRole[u], 0, 0)} /\ InitialRole[u] \in RoleValues
  BY <1>1, AccountsAssumption DEF Objects, RoleValues
<1>3. rows["code"] = CodeRow /\ rows["token"] = TokenRow /\ {"code", "token"} \cap Users = {}
  BY <1>1, AccountsAssumption DEF Objects
<1>4. \A o \in Objects : rows[o] \in [Width(o) -> Int]
  <2>1. CodeRow \in [Width("code") -> Int] /\ TokenRow \in [Width("token") -> Int]
    BY <1>3 DEF CodeRow, TokenRow, Width
  <2>2. ASSUME NEW u \in Users PROVE rows[u] \in [Width(u) -> Int]
    BY <1>2 DEF Absent, UserRow, Width, UserColumns, RoleValues, RoleCommonUser, RoleBetween, RoleAdminUser, RoleRootUser
  <2> QED
    BY <1>3, <2>1, <2>2 DEF Objects
<1>5. \A u \in Users : rows[u].role \in RoleValues /\ rows[u].status \in 0..4 /\ rows[u].identity \in {0, 1}
  BY <1>2 DEF Absent, UserRow, RoleValues
<1>6. Kept
  <2>1. \A u \in Users : Session(rows[u]).role \in RoleValues /\ NoSession.role \in RoleValues
    BY <1>5 DEF Session, NoSession, RoleValues
  <2> QED
    BY <2>1 DEF Init, Kept
<1>7. Tables
  BY <1>1, <1>4, <1>5, <1>6 DEF Tables
<1>8. DOMAIN h = Handlers /\ \A x \in Handlers : h[x] = Idle
  BY DEF Init
<1> QED
  BY <1>7, <1>8, IdleLocal DEF IInv, Handled, Writing

LEMMA NextSteps ==
  ASSUME [Next]_vars
  PROVE  \/ \E x \in Handlers : \/ Start(x) \/ Check(x) \/ Read(x) \/ ReadFails(x) \/ BanStep(x) \/ Write(x)
                                \/ WriteFails(x) \/ Insert(x) \/ InsertFails(x) \/ Bonus(x) \/ BonusFails(x)
                                \/ ResetRows(x) \/ DeleteKey(x)
         \/ AdminTopUp \/ Consume \/ DeleteToken \/ DeleteRedemption \/ Elsewhere \/ Restart \/ UNCHANGED vars
  BY DEF Next, Handle, Start, Elsewhere

LEMMA StepInvariant == IInv /\ [Next]_vars => IInv'
<1> SUFFICES ASSUME IInv, [Next]_vars PROVE IInv'
  OBVIOUS
<1>1. ASSUME NEW x \in Handlers, \/ Start(x) \/ Check(x) \/ Read(x) \/ ReadFails(x) \/ BanStep(x) \/ Write(x)
                                 \/ WriteFails(x) \/ Insert(x) \/ InsertFails(x) \/ Bonus(x) \/ BonusFails(x)
                                 \/ ResetRows(x) \/ DeleteKey(x)
      PROVE  IInv'
  BY <1>1, StartKeeps, CheckKeeps, ReadKeeps, BanKeeps, WriteKeeps, AnswerKeeps, InsertKeeps, BonusKeeps, MissedKeeps,
     ResetKeeps
<1> QED
  BY <1>1, NextSteps, RelayKeeps, DeleteRowKeeps, ElsewhereKeeps, RestartKeeps, StutterKeeps

-----------------------------------------------------------------------------
(* Theorems. *)

\* Type correctness, and what every handler knows: each request is one that its route
\* serves, and the copy a handler is about to write is of a row that is still there and,
\* unless a statement changed the row since, holds what the row holds in every column
\* that the request is not about.
THEOREM Invariant == Spec => []IInv
<1> QED
  BY InitInvariant, StepInvariant, PTL DEF Spec

-----------------------------------------------------------------------------
(* Steps that write no row as a whole. *)

SameUsers ==
  \A u \in Users : /\ rows'[u].role = rows[u].role /\ rows'[u].status = rows[u].status
                   /\ rows'[u].identity = rows[u].identity

Quiet ==
  \/ \E x \in Handlers : \/ Start(x) \/ Check(x) \/ Read(x) \/ ReadFails(x) \/ BanStep(x) \/ WriteFails(x)
                         \/ InsertFails(x) \/ Bonus(x) \/ BonusFails(x) \/ ResetRows(x) \/ DeleteKey(x)
  \/ AdminTopUp \/ Consume \/ DeleteToken \/ DeleteRedemption \/ Elsewhere \/ Restart \/ UNCHANGED vars

LEMMA NextIsQuiet ==
  ASSUME [Next]_vars
  PROVE  Quiet \/ \E x \in Handlers : Write(x) \/ Insert(x)
  BY NextSteps DEF Quiet

\* Both tables change alike, but for a quota that is marked as not written.
AlikeIn(o) ==
  DOMAIN meant[o] = Width(o) =>
    /\ DOMAIN meant'[o] = Width(o)
    /\ \A c \in Width(o) : <<o, c>> \notin unwritten' /\ rows[o][c] = meant[o][c] => rows'[o][c] = meant'[o][c]

Alike == /\ rows'["code"].status \in {rows["code"].status, 0}
         /\ unwritten \subseteq unwritten' /\ unwritten' \subseteq unwritten \cup (Users \X {"quota"})
         /\ \A o \in Objects : AlikeIn(o)

LEMMA AddIsQuiet ==
  ASSUME IInv, NEW o \in Objects, NEW column \in Width(o) \ {"role", "status", "identity"}, NEW amount \in Int, NEW g,
         Add(o, column, amount, g)
  PROVE  SameUsers /\ Alike /\ UNCHANGED <<raced, statusAt, shared, redeemed>>
<1>1. /\ \A p \in Objects \ {o} : rows'[p] = rows[p] /\ meant'[p] = meant[p]
      /\ rows'[o] = [rows[o] EXCEPT ![column] = @ + amount] /\ meant'[o] = [meant[o] EXCEPT ![column] = @ + amount]
  <2>1. rows' = Credit(rows, o, column, amount) /\ meant' = Credit(meant, o, column, amount) /\ UNCHANGED <<sessions, codes>>
    BY DEF Add
  <2> QED
    BY <2>1, CreditKeeps
<1>2. rows[o] \in [Width(o) -> Int] /\ "code" \in Objects /\ "status" \in Width(o)
  BY DEF IInv, Tables, Objects, Width, UserColumns
<1>3. \A u \in Users : u \in Objects /\ {"role", "status", "identity"} \subseteq Width(u)
  BY DEF Objects, Width, UserColumns
<1>4. SameUsers
  <2> SUFFICES ASSUME NEW u \in Users
               PROVE  /\ rows'[u].role = rows[u].role /\ rows'[u].status = rows[u].status
                      /\ rows'[u].identity = rows[u].identity
    BY DEF SameUsers
  <2>1. CASE u = o
    BY <1>1, <1>2, <1>3, <2>1
  <2>2. CASE u # o
    BY <1>1, <1>3, <2>2
  <2> QED
    BY <2>1, <2>2
<1>5. rows'["code"].status = rows["code"].status
  BY <1>1, <1>2
<1>6. \A p \in Objects : AlikeIn(p)
  <2>1. AlikeIn(o)
    <3> SUFFICES ASSUME DOMAIN meant[o] = Width(o)
                 PROVE  /\ DOMAIN meant'[o] = Width(o)
                        /\ \A c \in Width(o) : rows[o][c] = meant[o][c] => rows'[o][c] = meant'[o][c]
      BY DEF AlikeIn
    <3> QED
      BY <1>1, <1>2
  <2>2. \A p \in Objects \ {o} : AlikeIn(p)
    BY <1>1 DEF AlikeIn
  <2> QED
    BY <2>1, <2>2
<1>7. UNCHANGED <<raced, unwritten, statusAt, shared, redeemed>>
  BY DEF Add
<1> QED
  BY <1>4, <1>5, <1>6, <1>7 DEF Alike

LEMMA QuietRows ==
  ASSUME IInv, Quiet
  PROVE  SameUsers /\ Alike /\ UNCHANGED <<raced, statusAt, shared, redeemed>>
<1>1. CASE UNCHANGED <<rows, meant, raced, unwritten, statusAt, shared, redeemed>>
  BY <1>1 DEF SameUsers, Alike, AlikeIn
<1>2. ASSUME NEW x \in Handlers,
             Start(x) \/ Check(x) \/ Read(x) \/ ReadFails(x) \/ BanStep(x) \/ WriteFails(x) \/ InsertFails(x) \/ DeleteKey(x)
      PROVE  UNCHANGED <<rows, meant, raced, unwritten, statusAt, shared, redeemed>>
  BY <1>2, StartStarts DEF Check, Read, ReadFails, BanStep, WriteFails, InsertFails, DeleteKey, ghosts
<1>3. Elsewhere \/ Restart \/ UNCHANGED vars => UNCHANGED <<rows, meant, raced, unwritten, statusAt, shared, redeemed>>
  BY ElsewhereKeeps DEF Restart, vars, ghosts
<1>4. CASE AdminTopUp \/ Consume
  BY <1>4, RelayKeeps, AddIsQuiet
<1>5. ASSUME NEW x \in Handlers, Bonus(x)
      PROVE  SameUsers /\ Alike /\ UNCHANGED <<raced, statusAt, shared, redeemed>>
  <2>1. PICK u \in Users : \E g : Add(u, "quota", 1, g)
    BY <1>5, BonusKeeps
  <2>2. PICK g : Add(u, "quota", 1, g)
    BY <2>1
  <2>3. u \in Objects /\ "quota" \in Width(u) \ {"role", "status", "identity"} /\ 1 \in Int
    BY DEF Objects, Width, UserColumns
  <2> QED
    BY <2>2, <2>3, AddIsQuiet
<1>6. CASE DeleteToken \/ DeleteRedemption
  <2>1. PICK o \in {"code", "token"} :
          /\ rows'[o] = [c \in DOMAIN rows[o] |-> 0] /\ meant'[o] = [c \in DOMAIN meant[o] |-> 0]
          /\ \A p \in Objects \ {o} : rows'[p] = rows[p] /\ meant'[p] = meant[p]
    BY <1>6, DeleteRowKeeps
  <2>2. {"code", "token"} \subseteq Objects \ Users /\ rows["code"] \in [{"status", "quota"} -> Int]
    BY AccountsAssumption DEF Objects, IInv, Tables, Width
  <2>3. SameUsers
    BY <2>1, <2>2 DEF SameUsers, Objects
  <2>4. rows'["code"].status \in {rows["code"].status, 0} /\ \A p \in Objects : AlikeIn(p)
    <3>1. AlikeIn(o)
      <4>1. rows[o] \in [Width(o) -> Int]
        BY <2>2 DEF IInv, Tables
      <4> QED
        BY <2>1, <4>1 DEF AlikeIn
    <3>2. \A p \in Objects \ {o} : AlikeIn(p)
      BY <2>1 DEF AlikeIn
    <3> QED
      BY <2>1, <2>2, <3>1, <3>2
  <2>5. UNCHANGED <<raced, unwritten, statusAt, shared, redeemed>>
    BY <1>6 DEF DeleteToken, DeleteRedemption, DeleteRow
  <2> QED
    BY <2>3, <2>4, <2>5 DEF Alike
<1>7. ASSUME NEW x \in Handlers, ResetRows(x)
      PROVE  SameUsers /\ Alike /\ UNCHANGED <<raced, statusAt, shared, redeemed>>
  <2>1. PICK owners \in SUBSET Users :
          /\ \A o \in owners : /\ rows'[o] = [rows[o] EXCEPT !.password = 4]
                               /\ meant'[o] = [meant[o] EXCEPT !.password = 4]
          /\ \A o \in Objects \ owners : rows'[o] = rows[o] /\ meant'[o] = meant[o]
    BY <1>7, ResetKeeps
  <2>2. SameUsers
    <3> SUFFICES ASSUME NEW u \in Users
                 PROVE  /\ rows'[u].role = rows[u].role /\ rows'[u].status = rows[u].status
                        /\ rows'[u].identity = rows[u].identity
      BY DEF SameUsers
    <3>1. u \in Objects /\ rows[u] \in [UserColumns -> Int] /\ {"role", "status", "identity"} \subseteq UserColumns
      BY DEF Objects, IInv, Tables, Width, UserColumns
    <3>2. CASE u \in owners
      <4>1. rows'[u] = [rows[u] EXCEPT !.password = 4]
        BY <2>1, <3>2
      <4> QED
        BY <3>1, <4>1
    <3>3. CASE u \notin owners
      BY <2>1, <3>1, <3>3
    <3> QED
      BY <3>2, <3>3
  <2>4. UNCHANGED <<raced, unwritten, statusAt, shared, redeemed>>
    BY <1>7 DEF ResetRows
  <2>3. Alike
    <3>1. "code" \in Objects \ owners
      BY AccountsAssumption DEF Objects
    <3>2. ASSUME NEW o \in Objects PROVE AlikeIn(o)
      <4>1. CASE o \in owners
        <5>1. rows'[o] = [rows[o] EXCEPT !.password = 4] /\ meant'[o] = [meant[o] EXCEPT !.password = 4]
          BY <2>1, <4>1
        <5>2. rows[o] \in [Width(o) -> Int]
          BY DEF IInv, Tables
        <5> QED
          BY <5>1, <5>2 DEF AlikeIn
      <4>2. CASE o \notin owners
        BY <2>1, <4>2 DEF AlikeIn
      <4> QED
        BY <4>1, <4>2
    <3> QED
      BY <2>1, <2>4, <3>1, <3>2 DEF Alike
  <2> QED
    BY <2>2, <2>3, <2>4
<1>8. ASSUME NEW x \in Handlers, BonusFails(x)
      PROVE  SameUsers /\ Alike /\ UNCHANGED <<raced, statusAt, shared, redeemed>>
  <2>1. UNCHANGED <<rows, raced, statusAt, shared, redeemed>>
    BY <1>8, MissedKeeps
  <2>2. PICK u \in Users : meant' = Credit(meant, u, "quota", 1) /\ unwritten' = unwritten \cup {<<u, "quota">>}
    BY <1>8, MissedKeeps
  <2>3. DOMAIN meant = Objects /\ u \in Objects
    BY DEF IInv, Tables, Objects
  <2>4. meant'[u] = [meant[u] EXCEPT !["quota"] = @ + 1] /\ \A o \in Objects \ {u} : meant'[o] = meant[o]
    BY <2>2, <2>3 DEF Credit
  <2>5. AlikeIn(u)
    BY <2>1, <2>2, <2>4 DEF AlikeIn
  <2>6. \A o \in Objects \ {u} : AlikeIn(o)
    BY <2>1, <2>4 DEF AlikeIn
  <2>7. Alike
    BY <2>1, <2>2, <2>5, <2>6 DEF Alike
  <2> QED
    BY <2>1, <2>7 DEF SameUsers
<1> QED
  BY <1>1, <1>2, <1>3, <1>4, <1>5, <1>6, <1>7, <1>8 DEF Quiet

-----------------------------------------------------------------------------
(* What an operation was about is there, or there is a cause. *)

\* The column that a request is about is among those that are written, unless it is a
\* user's quota.
LEMMA OwnWritten ==
  ASSUME NEW l, Local(l), Asked(l), Copy(l), l.pc = "write"
  PROVE  Own(l) \subseteq Columns(l) \/ (l.req.on \in Users /\ l.req.op # "UpdateSelf" /\ Own(l) = {"quota"})
<1>1. CASE l.req.on \in Users
  <2>1. AskedOfUser(l) /\ l.new \in [UserColumns -> Int] /\ (l.req.set # "none" => l.new[l.req.set] = l.req.to)
    BY <1>1, AccountsAssumption DEF Asked, Copy, Width
  <2>2. CASE l.req.set \in {"none", "quota"}
    BY <1>1, <2>1, <2>2 DEF Own, AskedOfUser
  <2>3. CASE l.req.set \notin {"none", "quota"}
    <3>1. l.req.set \in UserColumns /\ l.req.to # 0
      BY <2>1, <2>3 DEF AskedOfUser, UserColumns, RoleCommonUser, RoleBetween, RoleAdminUser
    <3>2. l.req.set \in NonZero(l.new)
      BY <2>1, <2>3, <3>1 DEF NonZero
    <3>3. l.req.op \notin {"Redeem", "UpdateRedemption", "UpdateToken"}
      BY <2>1 DEF AskedOfUser, Binding
    <3> QED
      BY <3>2, <3>3 DEF Own, Columns
  <2> QED
    BY <2>2, <2>3
<1>2. CASE l.req.on \notin Users
  <2>1. CASE l.req.op = "ValidateUserToken"
    <3>1. l.req.on = "token" /\ l.req.set \in {"status", "remain"} /\ l.req.to \in {1, 2, 4}
      BY <1>2, <2>1 DEF Asked
    <3>2. l.req.set \in NonZero(l.new)
      BY <1>2, <3>1 DEF Copy, NonZero, Width
    <3> QED
      BY <2>1, <3>2 DEF Own, Columns, WholeRow, Binding
  <2>2. CASE l.req.op # "ValidateUserToken"
    <3>1. l.req.op \in {"Redeem", "UpdateRedemption", "UpdateToken"} /\ l.req.set \in Width(l.req.on)
      BY <1>2, <2>2, AccountsAssumption DEF Asked, Width
    <3>2. Columns(l) = Width(l.req.on)
      BY <3>1 DEF Columns, WholeRow, Binding, Copy
    <3> QED
      BY <3>1, <3>2 DEF Own
  <2> QED
    BY <2>1, <2>2
<1> QED
  BY <1>1, <1>2

LossInv ==
  /\ LossHasCause
  /\ unwritten \subseteq Users \X {"quota"}
  /\ \A o \in Objects : DOMAIN meant[o] = Width(o)

\* The row that is written, as it is and as it was meant to be.
LEMMA LossOfWritten ==
  ASSUME IInv, LossInv, NEW x \in Handlers, Write(x), h[x].req.on \notin raced',
         NEW c \in Width(h[x].req.on), <<h[x].req.on, c>> \notin unwritten'
  PROVE  rows'[h[x].req.on][c] = meant'[h[x].req.on][c]
<1> DEFINE l == h[x]
           o == h[x].req.on
<1>1. Local(l) /\ Asked(l) /\ Copy(l) /\ o \in Objects /\ l.pc = "write"
  BY WriteIs DEF Write
<1>2. /\ raced' = IF l.stale /\ Columns(l) # Own(l) THEN raced \cup {o} ELSE raced
      /\ unwritten' = IF Own(l) \subseteq Columns(l) THEN unwritten \ ({o} \X Own(l)) ELSE unwritten \cup ({o} \X Own(l))
  BY DEF Write
<1>3. rows[o] \in [Width(o) -> Int] /\ DOMAIN meant[o] = Width(o) /\ "status" \in Width(o)
  BY <1>1 DEF IInv, Tables, LossInv, Width, UserColumns
<1>4. \A d \in Width(o) : <<o, d>> \notin unwritten => rows[o][d] = meant[o][d]
  BY <1>1, <1>2, <1>3 DEF LossInv, LossHasCause
<1>5. Exists(rows[o]) <=> Exists(meant[o])
  BY <1>3, <1>4 DEF LossInv, Exists
<1>6. c \notin Own(l) => <<o, c>> \notin unwritten
  BY <1>2
<1>7. c \in Own(l) => Own(l) \subseteq Columns(l)
  BY <1>2
<1>8. ASSUME Exists(rows[o]) \/ l.req.op = "Redeem"
      PROVE  Put(rows[o], l.new, Columns(l))[c] = Put(meant[o], l.new, Own(l))[c]
  <2>1. /\ Put(rows[o], l.new, Columns(l))[c] = IF c \in Columns(l) THEN l.new[c] ELSE rows[o][c]
        /\ Put(meant[o], l.new, Own(l))[c] = IF c \in Own(l) THEN l.new[c] ELSE meant[o][c]
    BY <1>3 DEF Put
  <2>2. CASE c \in Own(l)
    BY <1>7, <2>1, <2>2
  <2>3. CASE c \notin Own(l)
    <3>1. c \in Columns(l) => l.new[c] = rows[o][c]
      <4> SUFFICES ASSUME c \in Columns(l) PROVE l.new[c] = rows[o][c]
        OBVIOUS
      <4>1. ~l.stale
        BY <1>2, <2>3
      <4> QED
        BY <1>1, <1>8, <2>3, <4>1 DEF Copy, Current
    <3> QED
      BY <1>4, <1>6, <2>1, <2>3, <3>1
  <2> QED
    BY <2>2, <2>3
<1>9. ASSUME ~Exists(rows[o]), l.req.op # "Redeem" PROVE <<o, c>> \notin unwritten
  <2> SUFFICES ASSUME <<o, c>> \in unwritten PROVE FALSE
    OBVIOUS
  <2>1. c \in Own(l) /\ o \in Users /\ c = "quota"
    BY <1>6 DEF LossInv
  <2>2. l.req.set = "quota" /\ AskedOfUser(l)
    BY <1>1, <2>1, AccountsAssumption DEF Own, Asked
  <2>3. l.req.op # "UpdateSelf"
    BY <2>2 DEF AskedOfUser
  <2> QED
    BY <1>1, <1>9, <2>1, <2>3 DEF Copy
<1>10. CASE l.req.op = "Redeem"
  <2>1. o = "code" /\ rows'["code"] = Put(rows["code"], l.new, Columns(l)) /\ meant'["code"] = Put(meant["code"], l.new, Own(l))
    BY <1>10, WriteIs
  <2> QED
    BY <1>8, <1>10, <2>1
<1>11. CASE l.req.op # "Redeem"
  <2>1. /\ rows'[o] = IF Exists(rows[o]) THEN Put(rows[o], l.new, Columns(l)) ELSE rows[o]
        /\ meant'[o] = IF Exists(meant[o]) THEN Put(meant[o], l.new, Own(l)) ELSE meant[o]
    BY <1>11, WriteIs
  <2>2. CASE Exists(rows[o])
    BY <1>5, <1>8, <2>1, <2>2
  <2>3. CASE ~Exists(rows[o])
    BY <1>4, <1>5, <1>9, <1>11, <2>1, <2>3
  <2> QED
    BY <2>2, <2>3
<1> QED
  BY <1>10, <1>11

LEMMA LossStep ==
  ASSUME IInv, IInv', LossInv, [Next]_vars
  PROVE  LossInv'
<1>0. /\ \A o \in Objects : DOMAIN rows[o] = Width(o) /\ DOMAIN rows'[o] = Width(o)
      /\ \A o \in Objects \ raced : \A c \in Width(o) : <<o, c>> \notin unwritten => rows[o][c] = meant[o][c]
  BY DEF IInv, Tables, LossInv, LossHasCause
<1>1. CASE Quiet
  <2>1. /\ unwritten \subseteq unwritten' /\ unwritten' \subseteq unwritten \cup (Users \X {"quota"}) /\ raced' = raced
        /\ \A o \in Objects : AlikeIn(o)
    BY <1>1, QuietRows DEF Alike
  <2>2. \A o \in Objects : DOMAIN meant'[o] = Width(o)
    BY <2>1 DEF AlikeIn, LossInv
  <2>3. ASSUME NEW o \in Objects \ raced', NEW c \in DOMAIN rows'[o], <<o, c>> \notin unwritten'
        PROVE  rows'[o][c] = meant'[o][c]
    <3>1. c \in Width(o) /\ o \in Objects \ raced /\ <<o, c>> \notin unwritten /\ AlikeIn(o) /\ DOMAIN meant[o] = Width(o)
      BY <1>0, <2>1, <2>3 DEF LossInv
    <3>2. rows[o][c] = meant[o][c]
      BY <1>0, <3>1
    <3> QED
      BY <2>3, <3>1, <3>2 DEF AlikeIn
  <2> QED
    BY <2>1, <2>2, <2>3 DEF LossInv, LossHasCause
<1>2. ASSUME NEW x \in Handlers, Insert(x) PROVE LossInv'
  <2>1. PICK u \in Users : meant'[u] = rows'[u] /\ \A o \in Objects \ {u} : rows'[o] = rows[o] /\ meant'[o] = meant[o]
    BY <1>2, InsertKeeps
  <2>2. UNCHANGED <<raced, unwritten>>
    BY <1>2 DEF Insert
  <2>3. \A o \in Objects : DOMAIN meant'[o] = Width(o)
    BY <1>0, <2>1 DEF LossInv
  <2>4. LossHasCause'
    BY <1>0, <2>1, <2>2 DEF LossHasCause
  <2> QED
    BY <2>2, <2>3, <2>4 DEF LossInv
<1>3. ASSUME NEW x \in Handlers, Write(x) PROVE LossInv'
  <2> DEFINE l == h[x]
             o == h[x].req.on
             objects == IF l.req.op = "Redeem" THEN {o, l.me} ELSE {o}
  <2>1. /\ Local(l) /\ Asked(l) /\ Copy(l) /\ o \in Objects /\ l.pc = "write"
        /\ \A p \in Objects \ objects : rows'[p] = rows[p] /\ meant'[p] = meant[p]
    BY <1>3, WriteIs DEF Write
  <2>2. /\ raced' = IF l.stale /\ Columns(l) # Own(l) THEN raced \cup {o} ELSE raced
        /\ unwritten' = IF Own(l) \subseteq Columns(l) THEN unwritten \ ({o} \X Own(l)) ELSE unwritten \cup ({o} \X Own(l))
    BY <1>3 DEF Write
  <2>3. /\ l.req.op = "Redeem" =>
             /\ l.me \in Users /\ o = "code"
             /\ rows'[l.me] = [rows[l.me] EXCEPT !["quota"] = @ + l.new.quota]
             /\ meant'[l.me] = [meant[l.me] EXCEPT !["quota"] = @ + l.new.quota]
        /\ meant'[o] = meant[o] \/ meant'[o] = Put(meant[o], l.new, Own(l))
    BY <1>3, WriteIs
  <2>4. unwritten' \subseteq Users \X {"quota"}
    <3>1. ~(Own(l) \subseteq Columns(l)) => o \in Users /\ Own(l) = {"quota"}
      BY <2>1, OwnWritten
    <3> QED
      BY <2>2, <3>1 DEF LossInv
  <2>5. \A p \in Objects : DOMAIN meant'[p] = Width(p)
    <3>1. DOMAIN meant'[o] = Width(o)
      BY <2>1, <2>3 DEF LossInv, Put
    <3>2. l.req.op = "Redeem" => DOMAIN meant'[l.me] = Width(l.me)
      BY <2>3 DEF LossInv, Objects
    <3>3. \A p \in Objects \ objects : DOMAIN meant'[p] = Width(p)
      BY <2>1 DEF LossInv
    <3> QED
      BY <3>1, <3>2, <3>3
  <2>6. \A c \in Width(o) : o \notin raced' /\ <<o, c>> \notin unwritten' => rows'[o][c] = meant'[o][c]
    BY <1>3, LossOfWritten
  <2>7. raced \subseteq raced' /\ \A p \in Objects \ {o} : \A c : <<p, c>> \in unwritten' <=> <<p, c>> \in unwritten
    BY <2>2
  <2>8. ASSUME l.req.op = "Redeem", l.me \notin raced', NEW c \in Width(l.me), <<l.me, c>> \notin unwritten'
        PROVE  rows'[l.me][c] = meant'[l.me][c]
    <3>1. l.me \in Objects \ {o} /\ DOMAIN meant[l.me] = Width(l.me) /\ DOMAIN rows[l.me] = Width(l.me)
      BY <1>0, <2>3, <2>8, AccountsAssumption DEF Objects, LossInv
    <3>2. rows[l.me][c] = meant[l.me][c]
      BY <1>0, <2>7, <2>8, <3>1
    <3> QED
      BY <2>3, <2>8, <3>1, <3>2
  <2> HIDE DEF l, o
  <2>9. ASSUME NEW p \in Objects \ raced', NEW c \in Width(p), <<p, c>> \notin unwritten' PROVE rows'[p][c] = meant'[p][c]
    <3>1. CASE p \in Objects \ objects
      <4>1. p \in Objects \ raced /\ <<p, c>> \notin unwritten /\ p # o
        BY <2>7, <2>9, <3>1
      <4> QED
        BY <1>0, <2>1, <3>1, <4>1
    <3>2. CASE p = o
      BY <2>6, <2>9, <3>2
    <3>3. CASE l.req.op = "Redeem" /\ p = l.me
      BY <2>8, <2>9, <3>3
    <3> QED
      BY <3>1, <3>2, <3>3
  <2> QED
    BY <1>0, <2>4, <2>5, <2>9 DEF LossInv, LossHasCause
<1> QED
  BY <1>1, <1>2, <1>3, NextIsQuiet

\* No column of any row loses what a statement put there, whatever handlers overlap and
\* whichever statements fail, unless somebody wrote back a whole row from a copy that was
\* out of date, or the column is a user's quota that was to be set to nothing, or lacks a
\* bonus whose statement failed.
THEOREM LossHasItsCause == Spec => []LossHasCause
<1>1. Init => LossInv
  <2> SUFFICES ASSUME Init PROVE LossInv
    OBVIOUS
  <2>1. meant = rows /\ unwritten = {}
    BY DEF Init
  <2>2. \A o \in Objects : DOMAIN rows[o] = Width(o)
    BY InitInvariant DEF IInv, Tables
  <2> QED
    BY <2>1, <2>2 DEF LossInv, LossHasCause
<1>2. IInv /\ IInv' /\ LossInv /\ [Next]_vars => LossInv'
  BY LossStep
<1>3. LossInv => LossHasCause
  BY DEF LossInv
<1> QED
  BY <1>1, <1>2, <1>3, Invariant, PTL DEF Spec

-----------------------------------------------------------------------------
(* One user has an identity. *)

\* Who of the handlers claims the identity after a step: it did so before, or it has just
\* found that the number of those who have it is not one.
LEMMA QuietClaims ==
  ASSUME IInv, Quiet, NEW y \in Handlers, Claims(h'[y]), ~h'[y].late
  PROVE  (Claims(h[y]) /\ ~h[y].late) \/ Cardinality(Holders("identity")) # 1
<1>1. CASE Carried(y)
  BY <1>1 DEF Carried, Claims
<1>2. ASSUME NEW x \in Handlers, Start(x) PROVE (Claims(h[y]) /\ ~h[y].late) \/ Cardinality(Holders("identity")) # 1
  <2>1. CASE h' = h
    BY <2>1
  <2>2. CASE \E l : h' = [h EXCEPT ![x] = l] /\ Started(l)
    <3>1. PICK l : h' = [h EXCEPT ![x] = l] /\ Started(l)
      BY <2>2
    <3> QED
      BY <3>1 DEF IInv, Started
  <2> QED
    BY <1>2, <2>1, <2>2, StartStarts
<1>3. ASSUME NEW x \in Handlers, Check(x) PROVE (Claims(h[y]) /\ ~h[y].late) \/ Cardinality(Holders("identity")) # 1
  <2>1. CASE Reply(x)
    BY <2>1 DEF Reply, IInv, Claims, Idle
  <2>2. ASSUME NEW f \in {0, 1}, FoundFree("identity", f), h' = [h EXCEPT ![x].pc = "read", ![x].late = (f = 1)]
        PROVE  (Claims(h[y]) /\ ~h[y].late) \/ Cardinality(Holders("identity")) # 1
    <3>1. CASE f = 0
      BY <2>2, <3>1 DEF FoundFree
    <3>2. CASE f = 1 /\ y = x
      <4>1. h'[x] = [h[x] EXCEPT !.pc = "read", !.late = (f = 1)] /\ DOMAIN h[x] = LocalFields
        BY <2>2 DEF IInv, Handled, Local
      <4>2. h'[x].late
        BY <3>2, <4>1 DEF LocalFields
      <4> QED
        BY <3>2, <4>2
    <3>3. CASE y # x
      BY <1>1, <1>3, <3>3, CheckKeeps
    <3> QED
      BY <3>1, <3>2, <3>3
  <2> QED
    BY <1>3, <2>1, <2>2 DEF Check
<1>4. ASSUME NEW x \in Handlers, Read(x) \/ ReadFails(x) \/ BanStep(x)
      PROVE  (Claims(h[y]) /\ ~h[y].late) \/ Cardinality(Holders("identity")) # 1
  <2>1. CASE y # x
    BY <1>1, <1>4, <2>1, ReadKeeps, BanKeeps
  <2>2. CASE y = x /\ h'[x] = Idle
    BY <2>2 DEF Claims, Idle
  <2>3. CASE y = x /\ h'[x] # Idle
    <3>1. Local(h[x]) /\ h[x].pc \in {"read", "ban"}
      BY <1>4 DEF IInv, Handled, Read, ReadFails, BanStep
    <3>2. h'[x].req = h[x].req /\ h'[x].late = h[x].late /\ h'[x].pc \in Writing
      <4>1. CASE BanStep(x)
        BY <3>1, <4>1 DEF BanStep, IInv, Local, LocalFields, Writing
      <4>2. CASE Read(x) \/ ReadFails(x)
        <5>1. \E new : \E pc \in Writing : h' = [h EXCEPT ![x] = [[h[x] EXCEPT !.new = new] EXCEPT !.pc = pc]]
          BY <2>3, <4>2 DEF Read, ReadFails, GoOn, Reply, IInv, Writing
        <5> QED
          BY <3>1, <5>1 DEF IInv, Local, LocalFields
      <4> QED
        BY <1>4, <4>1, <4>2
    <3> QED
      BY <2>3, <3>1, <3>2 DEF Claims, Writing, FirstLogin
  <2> QED
    BY <2>1, <2>2, <2>3
<1>5. ASSUME NEW x \in Handlers, WriteFails(x) \/ InsertFails(x) \/ DeleteKey(x)
      PROVE  (Claims(h[y]) /\ ~h[y].late) \/ Cardinality(Holders("identity")) # 1
  <2>1. CASE y # x
    BY <1>1, <1>5, <2>1, AnswerKeeps
  <2>2. CASE y = x
    <3>1. h' = [h EXCEPT ![x] = Idle]
      BY <1>5 DEF WriteFails, InsertFails, DeleteKey, Reply
    <3> QED
      BY <2>2, <3>1 DEF IInv, Claims, Idle
  <2> QED
    BY <2>1, <2>2
<1>6. ASSUME NEW x \in Handlers, Bonus(x) \/ BonusFails(x) \/ ResetRows(x)
      PROVE  (Claims(h[y]) /\ ~h[y].late) \/ Cardinality(Holders("identity")) # 1
  <2>1. CASE y # x
    BY <1>1, <1>6, <2>1, BonusKeeps, MissedKeeps, ResetKeeps
  <2>2. CASE y = x
    BY <1>6, <2>2, BonusKeeps, MissedKeeps, ResetKeeps DEF Claims
  <2> QED
    BY <2>1, <2>2
<1>7. CASE AdminTopUp \/ Consume \/ DeleteToken \/ DeleteRedemption \/ Elsewhere \/ UNCHANGED vars
  BY <1>1, <1>7, RelayKeeps, DeleteRowKeeps, ElsewhereKeeps, StutterKeeps
<1>8. CASE Restart
  <2>1. h'[y] = Idle => ~Claims(h'[y])
    BY DEF Claims, Idle
  <2> QED
    BY <1>1, <1>8, <2>1, RestartKeeps
<1> QED
  BY <1>2, <1>3, <1>4, <1>5, <1>6, <1>7, <1>8 DEF Quiet

\* Only a binding gives a user that is there an identity it did not have.
LEMMA WriteIdentity ==
  ASSUME IInv, NEW x \in Handlers, Write(x), NEW u \in Users, rows'[u].identity # rows[u].identity
  PROVE  h[x].req.op \in Binding /\ h[x].req.on = u
<1> DEFINE l == h[x]
<1>1. /\ rows[u] \in [UserColumns -> Int] /\ rows[u].identity \in {0, 1} /\ rows'[u].identity \in {0, 1} /\ u \in Objects
      /\ (rows[u].identity = 1 => rows'[u].identity = 1) /\ u # "code"
  BY WriteOfUser, AccountsAssumption DEF IInv, Tables, Width, Objects
<1>2. ASSUME l.req.op = "Redeem" PROVE FALSE
  <2>1. CASE u = l.me
    <3>1. rows'[u] = [rows[u] EXCEPT !["quota"] = @ + l.new.quota]
      BY <1>2, <2>1, WriteIs
    <3> QED
      BY <1>1, <3>1 DEF UserColumns
  <2>2. CASE u # l.me
    BY <1>1, <1>2, <2>2, WriteIs
  <2> QED
    BY <2>1, <2>2
<1>3. l.req.on = u /\ rows'[u] = Put(rows[u], l.new, Columns(l)) /\ Copy(l) /\ Asked(l)
  BY <1>1, <1>2, WriteIs
<1>4. rows[u].identity = 0 /\ l.new.identity = 1 /\ "identity" \in Columns(l)
  BY <1>1, <1>3 DEF Put, UserColumns
<1>5. l.req.op # "UpdateSelf"
  <2>1. l.req.op = "UpdateSelf" => Columns(l) \subseteq {"password"}
    BY <1>1, <1>3, AccountsAssumption DEF Columns, WholeRow, Binding, Asked, AskedOfUser
  <2> QED
    BY <1>4, <2>1
<1> QED
  BY <1>3, <1>4, <1>5 DEF Copy

LEMMA NobodyHas ==
  ASSUME \A u, v \in Users : rows[u].identity = 1 /\ rows[v].identity = 1 => u = v, Cardinality(Holders("identity")) # 1
  PROVE  ~IsTaken("identity")
<1> SUFFICES ASSUME IsTaken("identity") PROVE FALSE
  OBVIOUS
<1>1. PICK u : u \in Holders("identity")
  BY DEF IsTaken
<1>2. Holders("identity") = {u}
  BY <1>1 DEF Holders
<1> QED
  BY <1>2, FS_Singleton

LEMMA IdentityStep ==
  ASSUME IInv, Identities, [Next]_vars
  PROVE  Identities'
<1>1. CASE Quiet
  <2>1. UNCHANGED shared /\ \A u \in Users : rows'[u].identity = rows[u].identity
    BY <1>1, QuietRows DEF SameUsers
  <2>2. IsTaken("identity")' <=> IsTaken("identity")
    BY <2>1 DEF IsTaken, Holders
  <2>3. \A y \in Handlers : Claims(h'[y]) /\ ~h'[y].late =>
                             (Claims(h[y]) /\ ~h[y].late) \/ Cardinality(Holders("identity")) # 1
    BY <1>1, QuietClaims
  <2> SUFFICES ASSUME ~shared
               PROVE  /\ \A u, v \in Users : rows'[u].identity = 1 /\ rows'[v].identity = 1 => u = v
                      /\ \A y \in Handlers : Claims(h'[y]) /\ ~h'[y].late => ~IsTaken("identity")
    BY <2>1, <2>2 DEF Identities, Claims
  <2>4. \A u, v \in Users : rows[u].identity = 1 /\ rows[v].identity = 1 => u = v
    BY DEF Identities
  <2>5. Cardinality(Holders("identity")) # 1 => ~IsTaken("identity")
    BY <2>4, NobodyHas
  <2>6. \A y \in Handlers : Claims(h[y]) /\ ~h[y].late => ~IsTaken("identity")
    BY DEF Identities
  <2> QED
    BY <2>1, <2>3, <2>4, <2>5, <2>6
<1>2. ASSUME NEW x \in Handlers, Write(x) PROVE Identities'
  <2> DEFINE bind == h[x].req.op \in Binding
  <2>1. shared' = (shared \/ (bind /\ h[x].late)) /\ h[x].pc = "write"
    BY <1>2 DEF Write
  <2>2. \A y \in Handlers \ {x} : Carried(y) /\ (bind /\ Claims(h[y]) => h'[y].late)
    BY <1>2, WriteCarries
  <2>3. ~Claims(h'[x])
    <3>1. CASE h[x].req.op # "ManageDelete"
      <4>1. h'[x] = Idle
        BY <1>2, <3>1, WriteIs
      <4> QED
        BY <4>1 DEF Claims, Idle
    <3>2. CASE h[x].req.op = "ManageDelete"
      <4>1. h'[x] = [h[x] EXCEPT !.req.op = "ManageUser", !.stale = FALSE] /\ Local(h[x])
        BY <1>2, <3>2, WriteIs
      <4>2. h'[x].pc = "write" /\ h'[x].req.op = "ManageUser"
        BY <2>1, <4>1 DEF Local, LocalFields, RequestFields
      <4> QED
        BY <4>2 DEF Claims, Binding
    <3> QED
      BY <3>1, <3>2
  <2>4. CASE ~bind
    <3>1. \A u \in Users : rows'[u].identity = rows[u].identity
      BY <1>2, <2>4, WriteIdentity
    <3>2. \A y \in Handlers : Claims(h'[y]) /\ ~h'[y].late => Claims(h[y]) /\ ~h[y].late
      BY <2>2, <2>3 DEF Carried, Claims
    <3>3. IsTaken("identity")' <=> IsTaken("identity")
      BY <3>1 DEF IsTaken, Holders
    <3> QED
      BY <2>1, <3>1, <3>2, <3>3 DEF Identities, Claims
  <2>5. CASE bind
    <3> SUFFICES ASSUME ~shared'
                 PROVE  /\ \A u, v \in Users : rows'[u].identity = 1 /\ rows'[v].identity = 1 => u = v
                        /\ \A y \in Handlers : ~(Claims(h'[y]) /\ ~h'[y].late)
      BY DEF Identities, Claims
    <3>1. ~shared /\ ~h[x].late /\ Claims(h[x])
      BY <2>1, <2>5 DEF Claims
    <3>2. ~IsTaken("identity")
      BY <3>1 DEF Identities
    <3>3. \A u \in Users : rows'[u].identity = 1 => u = h[x].req.on
      BY <1>2, <3>2, WriteIdentity DEF IsTaken, Holders
    <3>4. \A y \in Handlers : ~(Claims(h'[y]) /\ ~h'[y].late)
      BY <2>2, <2>3, <2>5 DEF Carried, Claims
    <3> QED
      BY <3>3, <3>4
  <2> QED
    BY <2>4, <2>5
<1>3. ASSUME NEW x \in Handlers, Insert(x) PROVE Identities'
  <2> DEFINE oauth == h[x].req.op \in FirstLogin
  <2>1. shared' = (shared \/ h[x].late) /\ Inserting(h[x])
    BY <1>3, InsertKeeps DEF Insert
  <2>2. \A y \in Handlers \ {x} : Carried(y) /\ (oauth /\ Claims(h[y]) => h'[y].late)
    BY <1>3, InsertKeeps
  <2>3. ~Claims(h'[x])
    BY <1>3, InsertKeeps
  <2>4. PICK u \in Users : /\ rows[u] = Absent /\ rows'[u].identity = (IF oauth THEN 1 ELSE 0)
                           /\ \A o \in Objects \ {u} : rows'[o] = rows[o] /\ meant'[o] = meant[o]
    BY <1>3, InsertKeeps
  <2>5. rows[u].identity = 0 /\ \A v \in Users \ {u} : rows'[v] = rows[v]
    BY <2>4 DEF Absent, Objects
  <2> HIDE DEF oauth
  <2>6. CASE ~oauth
    <3>1. \A v \in Users : rows'[v].identity = rows[v].identity
      BY <2>4, <2>5, <2>6
    <3>2. \A y \in Handlers : Claims(h'[y]) /\ ~h'[y].late => Claims(h[y]) /\ ~h[y].late
      BY <2>2, <2>3 DEF Carried, Claims
    <3>3. IsTaken("identity")' <=> IsTaken("identity")
      BY <3>1 DEF IsTaken, Holders
    <3> QED
      BY <2>1, <3>1, <3>2, <3>3 DEF Identities, Claims
  <2>7. CASE oauth
    <3> SUFFICES ASSUME ~shared'
                 PROVE  /\ \A v, w \in Users : rows'[v].identity = 1 /\ rows'[w].identity = 1 => v = w
                        /\ \A y \in Handlers : ~(Claims(h'[y]) /\ ~h'[y].late)
      BY DEF Identities, Claims
    <3>1. ~shared /\ ~h[x].late /\ Claims(h[x])
      <4>1. h[x].pc = "read"
        BY <2>1, <2>7 DEF oauth, IInv, Handled, Local, Inserting
      <4> QED
        BY <2>1, <2>7, <4>1 DEF Claims, oauth
    <3>2. ~IsTaken("identity")
      BY <3>1 DEF Identities
    <3>3. \A v \in Users : rows'[v].identity = 1 => v = u
      BY <2>5, <3>2 DEF IsTaken, Holders
    <3>4. \A y \in Handlers : ~(Claims(h'[y]) /\ ~h'[y].late)
      BY <2>2, <2>3, <2>7 DEF Carried, Claims
    <3> QED
      BY <3>3, <3>4
  <2> QED
    BY <2>6, <2>7
<1> QED
  BY <1>1, <1>2, <1>3, NextIsQuiet

LEMMA AtMostOne ==
  ASSUME NEW S, \A u, v \in S : u = v
  PROVE  ~(Cardinality(S) > 1)
<1>1. CASE S = {}
  BY <1>1, FS_EmptySet
<1>2. CASE S # {}
  <2>1. PICK v : v \in S
    BY <1>2
  <2>2. S = {v}
    BY <2>1
  <2>3. Cardinality(S) = 1
    BY <2>2, FS_Singleton
  <2> QED
    BY <2>3
<1> QED
  BY <1>1, <1>2

\* However many bindings and first log-ins overlap and whichever queries fail, a second
\* user with an identity takes a handler that found it free before another wrote it and
\* writes it after, or that found it free because its query failed.
THEOREM OneUserPerIdentity == Spec => []IdentityUnique
<1>1. Init => Identities
  <2> SUFFICES ASSUME Init PROVE Identities
    OBVIOUS
  <2>1. \A u \in Users : rows[u] \in {Absent, UserRow(InitialRole[u], 0, 0)}
    BY AccountsAssumption DEF Init, Objects
  <2>2. \A u \in Users : rows[u].identity = 0
    BY <2>1 DEF Absent, UserRow
  <2> QED
    BY <2>2 DEF Identities, IsTaken, Holders
<1>2. IInv /\ Identities /\ [Next]_vars => Identities'
  BY IdentityStep
<1>3. Identities => IdentityUnique
  <2> SUFFICES ASSUME Identities, ~shared PROVE ~(Cardinality({u \in Users : rows[u].identity = 1}) > 1)
    BY DEF IdentityUnique
  <2>1. \A u, v \in {w \in Users : rows[w].identity = 1} : u = v
    BY DEF Identities
  <2> QED
    BY <2>1, AtMostOne
<1> QED
  BY <1>1, <1>2, <1>3, Invariant, PTL DEF Spec

-----------------------------------------------------------------------------
(* The code is paid once. *)

\* A code becomes open only by a handler that opens it.
LEMMA WriteOpens ==
  ASSUME IInv, NEW x \in Handlers, Write(x), rows'["code"].status = 1
  PROVE  /\ h[x].req.op # "Redeem"
         /\ rows["code"].status = 1 \/ (h[x].req.on = "code" /\ Exists(rows["code"]) /\ h[x].new.status = 1)
<1> DEFINE l == h[x]
<1>1. /\ rows["code"] \in [{"status", "quota"} -> Int] /\ "code" \in Objects \ Users
      /\ Copy(l) /\ Asked(l) /\ (l.req.op = "Redeem" => l.req.on = "code" /\ l.me \in Users)
  BY WriteIs, AccountsAssumption DEF IInv, Tables, Width, Objects
<1>2. l.req.op # "Redeem"
  <2> SUFFICES ASSUME l.req.op = "Redeem" PROVE FALSE
    OBVIOUS
  <2>1. rows'["code"] = Put(rows["code"], l.new, Columns(l))
    BY WriteIs
  <2>2. l.req.on = "code" /\ l.req.set = "status" /\ l.req.to = 3
    BY <1>1 DEF Asked, AskedOfUser, Binding
  <2>3. l.new \in [{"status", "quota"} -> Int] /\ l.new.status = 3
    BY <1>1, <2>2 DEF Copy, Width
  <2>4. Columns(l) = {"status", "quota"}
    BY <2>3 DEF Columns, WholeRow, Binding
  <2> QED
    BY <1>1, <2>1, <2>3, <2>4 DEF Put
<1>3. CASE l.req.on # "code"
  BY <1>1, <1>2, <1>3, WriteIs
<1>4. CASE l.req.on = "code"
  <2>1. rows'["code"] = IF Exists(rows["code"]) THEN Put(rows["code"], l.new, Columns(l)) ELSE rows["code"]
    BY <1>2, <1>4, WriteIs
  <2> QED
    BY <1>1, <1>2, <1>4, <2>1 DEF Put
<1> QED
  BY <1>2, <1>3, <1>4

LEMMA PaymentStep ==
  ASSUME IInv, Payments, [Next]_vars
  PROVE  Payments'
<1>1. CASE Quiet
  BY <1>1, QuietRows DEF Payments, Alike
<1>2. ASSUME NEW x \in Handlers, Insert(x) PROVE Payments'
  <2>1. rows'["code"] = rows["code"]
    BY <1>2, InsertKeeps, AccountsAssumption DEF Objects
  <2>2. UNCHANGED redeemed
    BY <1>2 DEF Insert
  <2> QED
    BY <2>1, <2>2 DEF Payments
<1>3. ASSUME NEW x \in Handlers, Write(x) PROVE Payments'
  <2> DEFINE l == h[x]
  <2>1. redeemed' = Redemption(l) /\ l.pc = "write" /\ Copy(l)
    BY <1>3, WriteIs DEF Write
  <2>2. CASE l.req.op = "Redeem"
    <3>1. redeemed' = [redeemed EXCEPT !.paid = @ + 1, !.excuses = IF l.stale THEN @ + 1 ELSE @]
      BY <2>1, <2>2 DEF Redemption
    <3>2. rows'["code"].status # 1
      BY <1>3, <2>2, WriteOpens
    <3>3. ~l.stale => redeemed.paid <= redeemed.excuses
      BY <2>1, <2>2 DEF Copy, Current, Payments
    <3> QED
      BY <3>1, <3>2, <3>3 DEF Payments
  <2>3. CASE l.req.op # "Redeem" /\ Reopens(l)
    <3>1. redeemed' = [redeemed EXCEPT !.excuses = @ + 1]
      BY <2>1, <2>3 DEF Redemption
    <3> QED
      BY <3>1 DEF Payments
  <2>4. CASE l.req.op # "Redeem" /\ ~Reopens(l)
    <3>1. redeemed' = redeemed
      BY <2>1, <2>4 DEF Redemption
    <3>2. rows'["code"].status = 1 => redeemed.paid <= redeemed.excuses
      BY <1>3, <2>4, WriteOpens DEF Payments, Reopens
    <3> QED
      BY <3>1, <3>2 DEF Payments
  <2> QED
    BY <2>2, <2>3, <2>4
<1> QED
  BY <1>1, <1>2, <1>3, NextIsQuiet

\* A code pays once however many redemptions, edits and deletions overlap; each further
\* payment has an administrator's reopening, or a read before the last payment, of its own.
THEOREM PaidOncePerOpening == Spec => []PaidOnce
<1>1. Init => Payments
  BY DEF Init, Payments
<1>2. IInv /\ Payments /\ [Next]_vars => Payments'
  BY PaymentStep
<1>3. Payments => PaidOnce
  BY DEF Payments, PaidOnce
<1> QED
  BY <1>1, <1>2, <1>3, Invariant, PTL DEF Spec

-----------------------------------------------------------------------------
(* A reset code serves once. *)

LEMMA StartIdle ==
  ASSUME NEW x \in Handlers, Start(x)
  PROVE  h[x].pc = "idle"
  BY DEF Start, GenerateAccessToken, EmailBind, GitHubBind, LarkBind, OidcBind, UpdateSelf, DeleteSelf, UpdateUser,
     ManageUser, DeleteUser, TopUp, UpdateRedemption, UpdateToken, ValidateUserToken, Register, CreateUser,
     GitHubOAuth, LarkOAuth, OidcAuth, ResetPassword, OAuth, BeginSelf, BeginAdmin, BeginBind, Begin

LEMMA OperationsCount ==
  ASSUME IInv, [Next]_vars, DOMAIN bounds = {"ops", "faults", "family"}, bounds.ops \in Nat
  PROVE  DOMAIN bounds' = {"ops", "faults", "family"} /\ bounds'.ops \in {bounds.ops, bounds.ops + 1}
<1>1. \/ bounds' = bounds \/ Fault \/ \E f \in {0, 1} : SpendAnd(f)
      \/ \E f \in {0, 1} : bounds' = [bounds EXCEPT !.faults = @ + f]
  <2>1. ASSUME NEW x \in Handlers, Start(x) PROVE \E f \in {0, 1} : SpendAnd(f)
    BY <2>1, StartStarts
  <2>2. ASSUME NEW x \in Handlers,
               Read(x) \/ BanStep(x) \/ Write(x) \/ Insert(x) \/ Bonus(x) \/ ResetRows(x) \/ DeleteKey(x)
        PROVE  bounds' = bounds
    BY <2>2 DEF Read, BanStep, Write, Insert, Bonus, ResetRows, DeleteKey
  <2>3. ASSUME NEW x \in Handlers, Check(x)
        PROVE  bounds' = bounds \/ \E f \in {0, 1} : bounds' = [bounds EXCEPT !.faults = @ + f]
    BY <2>3 DEF Check
  <2>4. ASSUME NEW x \in Handlers, ReadFails(x) \/ WriteFails(x) \/ InsertFails(x) \/ BonusFails(x) PROVE Fault
    BY <2>4 DEF ReadFails, WriteFails, InsertFails, BonusFails
  <2>5. AdminTopUp \/ Consume \/ DeleteToken \/ DeleteRedemption \/ Elsewhere \/ Restart \/ UNCHANGED vars
          => bounds' = bounds \/ Fault \/ \E f \in {0, 1} : SpendAnd(f)
    BY DEF AdminTopUp, Consume, DeleteToken, DeleteRedemption, DeleteRow, Elsewhere, Login, Logout,
       SendEmailVerification, SendPasswordResetEmail, CodesExpire, Restart, vars, Spend
  <2> QED
    BY <2>1, <2>2, <2>3, <2>4, <2>5, NextSteps
<1> QED
  BY <1>1 DEF SpendAnd, Fault

\* A handler's part in a reset goes on as it was.
SameReset(y) ==
  Resetting(h'[y]) \/ Resetting(h[y]) =>
    /\ h'[y].pc = h[y].pc /\ h'[y].node = h[y].node /\ h'[y].req.to = h[y].req.to
    /\ h[y].late => h'[y].late

LEMMA CarriedResets ==
  ASSUME NEW y, Carried(y)
  PROVE  SameReset(y)
  BY DEF Carried, SameReset, Resetting

\* Codes may be forgotten, handlers that are to delete theirs only with them.
LEMMA ResetsStay ==
  ASSUME ResetCodes, Used, DOMAIN bounds' = {"ops", "faults", "family"}, bounds'.ops \in {bounds.ops, bounds.ops + 1},
         UNCHANGED resets, NEW gone,
         \A n \in Nodes : codes'[n].reset \in {codes[n].reset, 0} /\ (n \in gone => codes'[n].reset = 0),
         \A y \in Handlers : SameReset(y) \/ (~Resetting(h'[y]) /\ (h[y].pc = "delete" => h[y].node \in gone))
  PROVE  ResetCodes' /\ Used'
<1>1. bounds'.ops \in Nat /\ 0..bounds.ops \subseteq 0..bounds'.ops /\ 1..bounds.ops \subseteq 1..bounds'.ops
  BY DEF ResetCodes
<1>2. \A y \in Handlers : Resetting(h'[y]) => Resetting(h[y]) /\ h'[y].node = h[y].node /\ h'[y].req.to = h[y].req.to
  BY DEF SameReset, Resetting
<1>3. ResetCodes'
  <2>1. \A n \in Nodes : codes'[n].reset \in 0..bounds'.ops
    BY <1>1 DEF ResetCodes
  <2>2. \A n, m \in Nodes : codes'[n].reset = codes'[m].reset => n = m \/ codes'[n].reset = 0
    BY DEF ResetCodes
  <2>3. \A y \in Handlers : Resetting(h'[y]) => /\ h'[y].node \in Nodes /\ h'[y].req.to \in 1..bounds'.ops
                                                /\ \A n \in Nodes : codes'[n].reset = h'[y].req.to => n = h'[y].node
    <3> SUFFICES ASSUME NEW y \in Handlers, Resetting(h'[y])
                 PROVE  /\ h'[y].node \in Nodes /\ h'[y].req.to \in 1..bounds'.ops
                        /\ \A n \in Nodes : codes'[n].reset = h'[y].req.to => n = h'[y].node
      OBVIOUS
    <3>1. /\ h[y].node \in Nodes /\ h[y].req.to \in 1..bounds.ops
          /\ \A n \in Nodes : codes[n].reset = h[y].req.to => n = h[y].node
      BY <1>2 DEF ResetCodes
    <3> QED
      BY <1>1, <1>2, <3>1
  <2> QED
    BY <1>1, <2>1, <2>2, <2>3 DEF ResetCodes, Resetting
<1>4. Used'
  <2>1. \A n \in Nodes : codes'[n].reset \in resets.used =>
          \E y \in Handlers : h'[y].pc = "delete" /\ h'[y].req.to = codes'[n].reset
    <3> SUFFICES ASSUME NEW n \in Nodes, codes'[n].reset \in resets.used
                 PROVE  \E y \in Handlers : h'[y].pc = "delete" /\ h'[y].req.to = codes'[n].reset
      OBVIOUS
    <3>1. codes'[n].reset = codes[n].reset /\ n \notin gone /\ codes[n].reset # 0
      BY DEF Used
    <3>2. PICK y \in Handlers : h[y].pc = "delete" /\ h[y].req.to = codes[n].reset
      BY <3>1 DEF Used
    <3>3. h[y].node = n
      BY <3>2 DEF ResetCodes, Resetting
    <3> QED
      BY <3>1, <3>2, <3>3 DEF SameReset, Resetting
  <2>2. \A y \in Handlers : h'[y].pc = "reset" /\ h'[y].req.to \in resets.used => h'[y].late
    BY DEF Used, SameReset, Resetting
  <2> QED
    BY <1>1, <2>1, <2>2 DEF Used
<1> QED
  BY <1>3, <1>4

LEMMA ResetsAsTheyWere ==
  ASSUME ResetCodes, Used, DOMAIN bounds' = {"ops", "faults", "family"}, bounds'.ops \in {bounds.ops, bounds.ops + 1},
         UNCHANGED resets,
         \A n \in Nodes : codes'[n].reset \in {codes[n].reset, 0},
         \A y \in Handlers : SameReset(y)
  PROVE  ResetCodes' /\ Used'
<1> DEFINE gone == {}
<1>1. /\ \A n \in Nodes : codes'[n].reset \in {codes[n].reset, 0} /\ (n \in gone => codes'[n].reset = 0)
      /\ \A y \in Handlers : SameReset(y) \/ (~Resetting(h'[y]) /\ (h[y].pc = "delete" => h[y].node \in gone))
  OBVIOUS
<1> HIDE DEF gone
<1> QED
  BY <1>1, ResetsStay

\* A request to reset a password begins, or another request does.
LEMMA StartResets ==
  ASSUME IInv, ResetCodes, Used, [Next]_vars, NEW x \in Handlers, Start(x)
  PROVE  ResetCodes' /\ Used'
<1>1. /\ UNCHANGED <<codes, resets>> /\ h[x].pc = "idle"
      /\ h' = h \/ \E l : h' = [h EXCEPT ![x] = l] /\ Started(l)
  BY StartStarts, StartIdle DEF ghosts
<1>2. DOMAIN bounds' = {"ops", "faults", "family"} /\ bounds'.ops \in {bounds.ops, bounds.ops + 1}
  BY OperationsCount DEF ResetCodes
<1>3. CASE \A y \in Handlers : SameReset(y)
  BY <1>1, <1>2, <1>3, ResetsAsTheyWere
<1>4. CASE h' = h
  <2>1. \A y \in Handlers : SameReset(y)
    BY <1>4 DEF SameReset
  <2> QED
    BY <1>3, <2>1
<1>5. ASSUME NEW l, h' = [h EXCEPT ![x] = l], Started(l) PROVE ResetCodes' /\ Used'
  <2>1. h'[x] = l /\ \A y \in Handlers \ {x} : h'[y] = h[y]
    BY <1>5 DEF IInv
  <2>2. CASE l.pc # "reset"
    <3>1. \A y \in Handlers : SameReset(y)
      BY <1>1, <1>5, <2>1, <2>2 DEF SameReset, Resetting, Started
    <3> QED
      BY <1>3, <3>1
  <2>3. CASE l.pc = "reset"
    <3>1. /\ l.node \in Nodes /\ l.req.to = codes[l.node].reset /\ l.req.to # 0
          /\ l.late <=> \E y \in Handlers : h[y].pc = "delete" /\ h[y].req.to = l.req.to
      BY <1>5, <2>3 DEF Started
    <3>2. bounds'.ops \in Nat /\ 0..bounds.ops \subseteq 0..bounds'.ops /\ 1..bounds.ops \subseteq 1..bounds'.ops
      BY <1>2 DEF ResetCodes
    <3>3. l.req.to \in 1..bounds.ops /\ \A n \in Nodes : codes[n].reset = l.req.to => n = l.node
      BY <3>1 DEF ResetCodes
    <3>4. ResetCodes'
      <4>1. \A n \in Nodes : codes'[n].reset \in 0..bounds'.ops
        BY <1>1, <3>2 DEF ResetCodes
      <4>2. \A n, m \in Nodes : codes'[n].reset = codes'[m].reset => n = m \/ codes'[n].reset = 0
        BY <1>1 DEF ResetCodes
      <4>3. \A y \in Handlers : Resetting(h'[y]) => /\ h'[y].node \in Nodes /\ h'[y].req.to \in 1..bounds'.ops
                                                    /\ \A n \in Nodes : codes'[n].reset = h'[y].req.to => n = h'[y].node
        BY <1>1, <2>1, <3>1, <3>2, <3>3 DEF ResetCodes
      <4>4. DOMAIN resets' = {"used", "again"}
        BY <1>1 DEF ResetCodes
      <4> QED
        BY <1>2, <3>2, <4>1, <4>2, <4>3, <4>4 DEF ResetCodes, Resetting
    <3>5. \A n \in Nodes : codes'[n].reset \in resets'.used =>
            \E y \in Handlers : h'[y].pc = "delete" /\ h'[y].req.to = codes'[n].reset
      <4> SUFFICES ASSUME NEW n \in Nodes, codes'[n].reset \in resets'.used
                   PROVE  \E y \in Handlers : h'[y].pc = "delete" /\ h'[y].req.to = codes'[n].reset
        OBVIOUS
      <4>1. PICK y \in Handlers : h[y].pc = "delete" /\ h[y].req.to = codes[n].reset
        BY <1>1 DEF Used
      <4>2. h'[y] = h[y]
        BY <1>1, <2>1, <4>1
      <4> QED
        BY <1>1, <4>1, <4>2
    <3>6. \A y \in Handlers : h'[y].pc = "reset" /\ h'[y].req.to \in resets'.used => h'[y].late
      <4>1. l.req.to \in resets.used => l.late
        BY <3>1 DEF Used
      <4> QED
        BY <1>1, <2>1, <4>1 DEF Used
    <3>7. resets'.again = {} /\ resets'.used \subseteq 1..bounds'.ops
      BY <1>1, <3>2 DEF Used
    <3> QED
      BY <3>4, <3>5, <3>6, <3>7 DEF Used
  <2> QED
    BY <2>2, <2>3
<1> QED
  BY <1>1, <1>4, <1>5

\* A reset marks its code as used.
LEMMA ResetResets ==
  ASSUME IInv, ResetCodes, Used, [Next]_vars, NEW x \in Handlers, ResetRows(x)
  PROVE  ResetCodes' /\ Used'
<1> DEFINE k == h[x].req.to
<1>1. /\ UNCHANGED <<codes, bounds>>
      /\ resets' = [resets EXCEPT !.used = @ \cup {k}, !.again = IF k \in resets.used /\ ~h[x].late THEN @ \cup {k} ELSE @]
  BY DEF ResetRows
<1>2. /\ h[x].pc = "reset" /\ h'[x].pc = "delete" /\ h'[x].node = h[x].node /\ h'[x].req.to = k
      /\ \A y \in Handlers \ {x} : SameReset(y)
      /\ \A y \in Handlers \ {x} : h[y].pc = "reset" /\ h[y].req.to = k => h'[y].late
  BY ResetKeeps, CarriedResets
<1>3. resets'.used = resets.used \cup {k} /\ resets'.again = {} /\ DOMAIN resets' = {"used", "again"}
  BY <1>1, <1>2 DEF ResetCodes, Used
<1>4. k \in 1..bounds.ops
  BY <1>2 DEF ResetCodes, Resetting
<1>5. ResetCodes'
  <2>1. \A y \in Handlers : Resetting(h'[y]) => Resetting(h[y]) /\ h'[y].node = h[y].node /\ h'[y].req.to = h[y].req.to
    BY <1>2 DEF SameReset, Resetting
  <2>2. \A y \in Handlers : Resetting(h'[y]) => /\ h'[y].node \in Nodes /\ h'[y].req.to \in 1..bounds'.ops
                                                /\ \A n \in Nodes : codes'[n].reset = h'[y].req.to => n = h'[y].node
    BY <1>1, <2>1 DEF ResetCodes
  <2> QED
    BY <1>1, <1>3, <2>2 DEF ResetCodes, Resetting
<1>6. \A n \in Nodes : codes'[n].reset \in resets'.used =>
        \E y \in Handlers : h'[y].pc = "delete" /\ h'[y].req.to = codes'[n].reset
  <2> SUFFICES ASSUME NEW n \in Nodes, codes'[n].reset \in resets'.used
               PROVE  \E y \in Handlers : h'[y].pc = "delete" /\ h'[y].req.to = codes'[n].reset
    OBVIOUS
  <2>1. CASE codes[n].reset = k
    BY <1>1, <1>2, <2>1
  <2>2. CASE codes[n].reset # k
    <3>1. PICK y \in Handlers : h[y].pc = "delete" /\ h[y].req.to = codes[n].reset
      BY <1>1, <1>3, <2>2 DEF Used
    <3>2. y # x
      BY <1>2, <3>1
    <3> QED
      BY <1>1, <1>2, <3>1, <3>2 DEF SameReset, Resetting
  <2> QED
    BY <2>1, <2>2
<1>7. \A y \in Handlers : h'[y].pc = "reset" /\ h'[y].req.to \in resets'.used => h'[y].late
  BY <1>2, <1>3 DEF Used, SameReset, Resetting
<1> QED
  BY <1>1, <1>3, <1>4, <1>5, <1>6, <1>7 DEF Used

\* A new code is none that was given before.
LEMMA SendResets ==
  ASSUME IInv, ResetCodes, Used, SendPasswordResetEmail
  PROVE  ResetCodes' /\ Used'
<1>1. /\ bounds' = [bounds EXCEPT !.ops = @ + 1, !.faults = @ + 0] /\ UNCHANGED <<h, resets>>
      /\ \E n \in Nodes : codes' = [codes EXCEPT ![n].reset = bounds.ops + 1]
  BY DEF SendPasswordResetEmail, Spend, SpendAnd, ghosts
<1>2. PICK n \in Nodes : codes' = [codes EXCEPT ![n].reset = bounds.ops + 1]
  BY <1>1
<1>3. bounds'.ops = bounds.ops + 1 /\ bounds.ops \in Nat /\ DOMAIN bounds' = {"ops", "faults", "family"}
  BY <1>1 DEF ResetCodes
<1>4. codes'[n].reset = bounds.ops + 1 /\ \A m \in Nodes \ {n} : codes'[m].reset = codes[m].reset
  BY <1>2 DEF IInv, Tables, Kept
<1>5. \A m \in Nodes : codes[m].reset \in 0..bounds.ops
  BY DEF ResetCodes
<1>6. 0..bounds.ops \subseteq 0..bounds'.ops /\ 1..bounds.ops \subseteq 1..bounds'.ops /\ bounds.ops + 1 \in 0..bounds'.ops
      /\ bounds.ops + 1 \notin 0..bounds.ops
  BY <1>3
<1>7. ResetCodes'
  <2>1. \A m \in Nodes : codes'[m].reset \in 0..bounds'.ops
    BY <1>4, <1>5, <1>6
  <2>2. \A m, p \in Nodes : codes'[m].reset = codes'[p].reset => m = p \/ codes'[m].reset = 0
    BY <1>4, <1>5, <1>6 DEF ResetCodes
  <2>3. \A y \in Handlers : Resetting(h[y]) => /\ h[y].node \in Nodes /\ h[y].req.to \in 1..bounds'.ops
                                               /\ \A m \in Nodes : codes'[m].reset = h[y].req.to => m = h[y].node
    <3> SUFFICES ASSUME NEW y \in Handlers, Resetting(h[y])
                 PROVE  /\ h[y].node \in Nodes /\ h[y].req.to \in 1..bounds'.ops
                        /\ \A m \in Nodes : codes'[m].reset = h[y].req.to => m = h[y].node
      OBVIOUS
    <3>1. /\ h[y].node \in Nodes /\ h[y].req.to \in 1..bounds.ops
          /\ \A m \in Nodes : codes[m].reset = h[y].req.to => m = h[y].node
      BY DEF ResetCodes
    <3>2. h[y].req.to # bounds.ops + 1
      BY <1>3, <3>1
    <3> QED
      BY <1>4, <1>6, <3>1, <3>2
  <2> QED
    BY <1>1, <1>3, <2>1, <2>2, <2>3 DEF ResetCodes, Resetting
<1>8. \A m \in Nodes : codes'[m].reset \in resets.used => codes'[m].reset = codes[m].reset
  <2>1. bounds.ops + 1 \notin resets.used
    BY <1>3 DEF Used
  <2> QED
    BY <1>4, <2>1
<1>9. Used'
  BY <1>1, <1>6, <1>8 DEF Used
<1> QED
  BY <1>7, <1>9

\* Handlers that have nothing to do with resets.
LEMMA OtherResets ==
  ASSUME IInv, NEW x \in Handlers,
         \/ Check(x) \/ Read(x) \/ ReadFails(x) \/ BanStep(x) \/ Write(x)
         \/ Insert(x) \/ InsertFails(x) \/ Bonus(x) \/ BonusFails(x)
  PROVE  UNCHANGED <<codes, resets>> /\ \A y \in Handlers : SameReset(y)
<1>1. UNCHANGED <<codes, resets>>
  BY DEF Check, Read, ReadFails, BanStep, Write, Insert, InsertFails, Bonus, BonusFails, Add, ghosts
<1>2. \A y \in Handlers \ {x} : SameReset(y)
  BY CheckKeeps, ReadKeeps, BanKeeps, WriteCarries, AnswerKeeps, InsertKeeps, BonusKeeps, MissedKeeps, CarriedResets
<1>3. ~Resetting(h[x])
  BY DEF Check, Read, ReadFails, BanStep, Write, Insert, InsertFails, Bonus, BonusFails, Resetting
<1>4. ~Resetting(h'[x])
  <2>1. Local(h[x]) /\ DOMAIN h = Handlers /\ ~Resetting(Idle)
    BY DEF IInv, Handled, Resetting, Idle
  <2>2. CASE InsertFails(x)
    BY <2>1, <2>2 DEF InsertFails, Reply
  <2>3. CASE Check(x)
    <3>1. h' = [h EXCEPT ![x] = Idle] \/ \E late : h' = [h EXCEPT ![x] = [h[x] EXCEPT !.pc = "read", !.late = late]]
      BY <2>1, <2>3 DEF Check, Reply
    <3> QED
      BY <2>1, <3>1 DEF Resetting, Local, LocalFields
  <2>4. CASE BanStep(x)
    <3>1. h' = [h EXCEPT ![x] = [h[x] EXCEPT !.pc = "write"]]
      BY <2>1, <2>4 DEF BanStep
    <3> QED
      BY <2>1, <3>1 DEF Resetting, Local, LocalFields
  <2>5. CASE Read(x) \/ ReadFails(x)
    <3>1. h' = [h EXCEPT ![x] = Idle] \/
            \E new : \E pc \in Writing : h' = [h EXCEPT ![x] = [[h[x] EXCEPT !.new = new] EXCEPT !.pc = pc]]
      BY <2>1, <2>5 DEF Read, ReadFails, GoOn, Reply, Writing
    <3> QED
      BY <2>1, <3>1 DEF Resetting, Local, LocalFields, Writing
  <2>6. CASE Write(x)
    <3>1. h'[x] = [h[x] EXCEPT !.req.op = "ManageUser", !.stale = FALSE] \/ h'[x] = Idle
      BY <2>6, WriteIs
    <3> QED
      BY <1>3, <2>1, <3>1 DEF Resetting, Local, LocalFields
  <2>7. CASE Insert(x) \/ Bonus(x) \/ BonusFails(x)
    BY <2>7, InsertKeeps, BonusKeeps, MissedKeeps DEF Resetting
  <2> QED
    BY <2>2, <2>3, <2>4, <2>5, <2>6, <2>7
<1>5. SameReset(x)
  BY <1>3, <1>4 DEF SameReset
<1> QED
  BY <1>1, <1>2, <1>5

\* A handler that deletes the code of its node leaves, as does one whose statement fails,
\* and a node that restarts takes its handlers and codes with it.
LEMMA GoneResets ==
  ASSUME IInv, ResetCodes, Used, [Next]_vars, Restart \/ \E x \in Handlers : DeleteKey(x) \/ WriteFails(x)
  PROVE  ResetCodes' /\ Used'
<1>1. DOMAIN bounds' = {"ops", "faults", "family"} /\ bounds'.ops \in {bounds.ops, bounds.ops + 1}
  BY OperationsCount DEF ResetCodes
<1>2. UNCHANGED resets
  BY DEF Restart, DeleteKey, WriteFails, ghosts
<1>3. ~Resetting(Idle) /\ DOMAIN codes = Nodes /\ \A n \in Nodes : DOMAIN codes[n] = {"email", "reset"}
  BY DEF Resetting, Idle, IInv, Tables, Kept
<1>4. CASE Restart
  <2>1. PICK n \in Nodes :
          /\ codes' = [codes EXCEPT ![n] = [email |-> 0, reset |-> 0]]
          /\ h' = [x \in Handlers |-> IF h[x].node = n THEN Idle ELSE h[x]]
    BY <1>4 DEF Restart
  <2> DEFINE gone == {n}
  <2>2. \A m \in Nodes : codes'[m].reset \in {codes[m].reset, 0} /\ (m \in gone => codes'[m].reset = 0)
    BY <1>3, <2>1
  <2>3. \A y \in Handlers : SameReset(y) \/ (~Resetting(h'[y]) /\ (h[y].pc = "delete" => h[y].node \in gone))
    BY <1>3, <2>1 DEF SameReset
  <2> HIDE DEF gone
  <2> QED
    BY <1>1, <1>2, <2>2, <2>3, ResetsStay
<1>5. ASSUME NEW x \in Handlers, DeleteKey(x) PROVE ResetCodes' /\ Used'
  <2>1. codes' = [codes EXCEPT ![h[x].node].reset = 0] /\ h' = [h EXCEPT ![x] = Idle]
    BY <1>5 DEF DeleteKey, Reply
  <2> DEFINE gone == {h[x].node}
  <2>2. \A m \in Nodes : codes'[m].reset \in {codes[m].reset, 0} /\ (m \in gone => codes'[m].reset = 0)
    BY <1>3, <2>1
  <2>3. \A y \in Handlers : SameReset(y) \/ (~Resetting(h'[y]) /\ (h[y].pc = "delete" => h[y].node \in gone))
    BY <1>3, <2>1 DEF IInv, SameReset
  <2> HIDE DEF gone
  <2> QED
    BY <1>1, <1>2, <2>2, <2>3, ResetsStay
<1>6. ASSUME NEW x \in Handlers, WriteFails(x) PROVE ResetCodes' /\ Used'
  <2>1. UNCHANGED codes /\ h' = [h EXCEPT ![x] = Idle] /\ h[x].pc # "delete"
    BY <1>6 DEF WriteFails, Reply
  <2> DEFINE gone == {}
  <2>2. \A m \in Nodes : codes'[m].reset \in {codes[m].reset, 0} /\ (m \in gone => codes'[m].reset = 0)
    BY <2>1
  <2>3. \A y \in Handlers : SameReset(y) \/ (~Resetting(h'[y]) /\ (h[y].pc = "delete" => h[y].node \in gone))
    BY <1>3, <2>1 DEF IInv, SameReset
  <2> HIDE DEF gone
  <2> QED
    BY <1>1, <1>2, <2>2, <2>3, ResetsStay
<1> QED
  BY <1>4, <1>5, <1>6

LEMMA ResetStep ==
  ASSUME IInv, ResetCodes, Used, [Next]_vars
  PROVE  ResetCodes' /\ Used'
<1>1. DOMAIN bounds' = {"ops", "faults", "family"} /\ bounds'.ops \in {bounds.ops, bounds.ops + 1}
  BY OperationsCount DEF ResetCodes
<1>2. ASSUME NEW x \in Handlers,
             \/ Check(x) \/ Read(x) \/ ReadFails(x) \/ BanStep(x) \/ Write(x)
             \/ Insert(x) \/ InsertFails(x) \/ Bonus(x) \/ BonusFails(x)
      PROVE  ResetCodes' /\ Used'
  <2>1. UNCHANGED <<codes, resets>> /\ \A y \in Handlers : SameReset(y)
    BY <1>2, OtherResets
  <2> QED
    BY <1>1, <2>1, ResetsAsTheyWere
<1>3. CASE AdminTopUp \/ Consume \/ DeleteToken \/ DeleteRedemption
  <2>1. UNCHANGED <<codes, resets>>
    BY <1>3 DEF AdminTopUp, Consume, Add, DeleteToken, DeleteRedemption, DeleteRow
  <2>2. \A y \in Handlers : SameReset(y)
    BY <1>3, RelayKeeps, DeleteRowKeeps, CarriedResets
  <2> QED
    BY <1>1, <2>1, <2>2, ResetsAsTheyWere
<1>4. CASE UNCHANGED vars \/ Login \/ Logout \/ SendEmailVerification \/ CodesExpire
  <2>1. UNCHANGED <<h, resets>>
    BY <1>4 DEF vars, Login, Logout, SendEmailVerification, CodesExpire, ghosts
  <2>2. DOMAIN codes = Nodes /\ \A n \in Nodes : DOMAIN codes[n] = {"email", "reset"}
    BY DEF IInv, Tables, Kept
  <2>3. codes' = codes \/ \E n \in Nodes : \/ codes' = [codes EXCEPT ![n].email = 1]
                                           \/ codes' = [codes EXCEPT ![n] = [email |-> 0, reset |-> 0]]
    BY <1>4 DEF vars, Login, Logout, SendEmailVerification, CodesExpire
  <2>4. \A n \in Nodes : codes'[n].reset \in {codes[n].reset, 0}
    BY <2>2, <2>3
  <2>5. \A y \in Handlers : SameReset(y)
    BY <2>1 DEF SameReset
  <2> QED
    BY <1>1, <2>1, <2>4, <2>5, ResetsAsTheyWere
<1> QED
  BY <1>2, <1>3, <1>4, StartResets, ResetResets, SendResets, GoneResets, NextSteps DEF Elsewhere

\* The code that was mailed to reset a password sets a password once, even when the
\* request that deletes it is late, a newer code has replaced it or its node restarts,
\* unless requests with the code overlap.
THEOREM ResetCodesServeOnce == Spec => []ResetOnce
<1>1. Init => ResetCodes /\ Used
  <2> SUFFICES ASSUME Init PROVE ResetCodes /\ Used
    OBVIOUS
  <2>1. /\ DOMAIN bounds = {"ops", "faults", "family"} /\ bounds.ops = 0
        /\ \A n \in Nodes : codes[n].reset = 0
        /\ \A x \in Handlers : h[x].pc = "idle"
        /\ resets = [used |-> {}, again |-> {}]
    BY DEF Init, Idle
  <2> QED
    BY <2>1 DEF ResetCodes, Used, Resetting
<1>2. IInv /\ (ResetCodes /\ Used) /\ [Next]_vars => (ResetCodes /\ Used)'
  BY ResetStep
<1>3. ResetCodes /\ Used => ResetOnce
  BY DEF Used, ResetOnce
<1> QED
  BY <1>1, <1>2, <1>3, Invariant, PTL DEF Spec

-----------------------------------------------------------------------------
(* The ban of a user follows the row. *)

\* A handler that is between a ban and its write stays there, or the user is shaken.
SameChange(y) ==
  \A u \in Users \ shaken' : /\ Changing(h'[y], u) <=> Changing(h[y], u)
                             /\ Changing(h[y], u) => h'[y].node = h[y].node /\ h'[y].new = h[y].new

LEMMA CarriedChange ==
  ASSUME NEW y, Carried(y)
  PROVE  SameChange(y)
  BY DEF Carried, SameChange, Changing, SetsBan, Columns, NonZero

\* Neither before nor after its step does the handler write a status.
LEMMA NoChange ==
  ASSUME NEW y, \A u \in Users : ~Changing(h[y], u) /\ ~Changing(h'[y], u)
  PROVE  SameChange(y)
  BY DEF SameChange

LEMMA BansStay ==
  ASSUME Bans, Grows, shaken \subseteq shaken', DOMAIN banned' = Nodes, DOMAIN statusAt' = Users,
         \A u \in Users : statusAt'[u] \in {statusAt[u], "none"},
         \A u \in Users \ shaken' : /\ \A n \in Nodes : u \in banned'[n] <=> u \in banned[n]
                                    /\ statusAt'[u] \in Nodes => rows'[u].status = rows[u].status
                                    /\ \A x \in Handlers : Changing(h[x], u) => h[x].node \in Nodes,
         \A y \in Handlers : SameChange(y)
  PROVE  Bans'
<1>1. \A u \in Users : statusAt'[u] # "none" => Exists(rows'[u])
  BY DEF Bans, Grows
<1>2. ASSUME NEW u \in Users \ shaken'
      PROVE  /\ (\A x \in Handlers : ~Changing(h'[x], u)) =>
                  \A n \in Nodes : statusAt'[u] = n => (u \in banned'[n] <=> rows'[u].status \in {2, 3})
             /\ \A x \in Handlers : Changing(h'[x], u) => (u \in banned'[h'[x].node] <=> h'[x].new.status # 1)
  <2>1. u \in Users \ shaken
    OBVIOUS
  <2>2. \A x \in Handlers : Changing(h'[x], u) <=> Changing(h[x], u)
    BY DEF SameChange
  <2>3. (\A x \in Handlers : ~Changing(h'[x], u)) =>
          \A n \in Nodes : statusAt'[u] = n => (u \in banned'[n] <=> rows'[u].status \in {2, 3})
    <3> SUFFICES ASSUME \A x \in Handlers : ~Changing(h'[x], u), NEW n \in Nodes, statusAt'[u] = n
                 PROVE  u \in banned'[n] <=> rows'[u].status \in {2, 3}
      OBVIOUS
    <3>1. statusAt[u] = n
      BY <2>1, AccountsAssumption
    <3>2. u \in banned[n] <=> rows[u].status \in {2, 3}
      BY <2>1, <2>2, <3>1 DEF Bans
    <3> QED
      BY <3>2
  <2>4. \A x \in Handlers : Changing(h'[x], u) => (u \in banned'[h'[x].node] <=> h'[x].new.status # 1)
    BY <2>1, <2>2 DEF Bans, SameChange
  <2> QED
    BY <2>3, <2>4
<1> QED
  BY <1>1, <1>2 DEF Bans, Changing, SetsBan, Columns, NonZero

LEMMA ChangingNode ==
  ASSUME IInv, NEW x \in Handlers, NEW u, Changing(h[x], u)
  PROVE  h[x].node \in Nodes
  BY DEF IInv, Handled, Local, OnRow, Changing, Writing

\* A handler that begins, or that has read, does not write a status that it has not banned
\* or released the user for.
LEMMA StartsUnchanging ==
  ASSUME IInv, NEW x \in Handlers, Start(x) \/ Check(x) \/ Read(x) \/ ReadFails(x)
  PROVE  \A y \in Handlers : SameChange(y)
<1>1. \A y \in Handlers \ {x} : SameChange(y)
  BY StartKeeps, CheckKeeps, ReadKeeps, CarriedChange
<1>2. h' = h => SameChange(x)
  BY DEF SameChange
<1>3. \A u \in Users : ~Changing(h[x], u)
  BY StartIdle DEF Check, Read, ReadFails, Changing
<1>4. ASSUME h' # h PROVE \A u \in Users : ~Changing(h'[x], u)
  <2>1. CASE Start(x)
    <3>1. PICK l : h' = [h EXCEPT ![x] = l] /\ Started(l)
      BY <1>4, <2>1, StartStarts
    <3>2. h'[x] = l
      BY <3>1 DEF IInv
    <3>3. l.pc = "write" => ~SetsBan(l)
      <4> SUFFICES ASSUME l.pc = "write" PROVE "status" \notin Columns(l)
        BY DEF SetsBan
      <4>1. l.req.op = "UpdateSelf" /\ l.req.on \in Users /\ Asked(l)
        BY <3>1 DEF Started, Local, OnRow, Writing
      <4>2. Columns(l) \subseteq {"password"}
        BY <4>1, AccountsAssumption DEF Columns, WholeRow, Binding, Asked, AskedOfUser
      <4> QED
        BY <4>2
    <3> QED
      BY <3>2, <3>3 DEF Changing
  <2>2. CASE Check(x)
    <3>1. h' = [h EXCEPT ![x] = Idle] \/ \E late : h' = [h EXCEPT ![x] = [h[x] EXCEPT !.pc = "read", !.late = late]]
      BY <2>2 DEF Check, Reply, IInv
    <3>2. DOMAIN h = Handlers /\ DOMAIN h[x] = LocalFields
      BY DEF IInv, Handled, Local
    <3>3. h'[x].pc # "write"
      <4>1. CASE h' = [h EXCEPT ![x] = Idle]
        BY <3>2, <4>1 DEF Idle
      <4>2. ASSUME NEW late, h' = [h EXCEPT ![x] = [h[x] EXCEPT !.pc = "read", !.late = late]] PROVE h'[x].pc # "write"
        BY <3>2, <4>2 DEF LocalFields
      <4> QED
        BY <3>1, <4>1, <4>2
    <3> QED
      BY <3>3 DEF Changing
  <2>3. CASE Read(x) \/ ReadFails(x)
    <3>1. h' = [h EXCEPT ![x] = Idle] \/
            \E new : LET next == [h[x] EXCEPT !.new = new]
                     IN  h' = [h EXCEPT ![x] = [next EXCEPT !.pc = IF SetsBan(next) THEN "ban" ELSE "write"]]
      BY <2>3 DEF Read, ReadFails, GoOn, Reply
    <3>2. CASE h' = [h EXCEPT ![x] = Idle]
      BY <3>2 DEF IInv, Idle, Changing
    <3>3. ASSUME NEW next, DOMAIN next = LocalFields,
                 h' = [h EXCEPT ![x] = [next EXCEPT !.pc = IF SetsBan(next) THEN "ban" ELSE "write"]]
          PROVE  \A u \in Users : ~Changing(h'[x], u)
      <4>1. h'[x] = [next EXCEPT !.pc = IF SetsBan(next) THEN "ban" ELSE "write"]
        BY <3>3 DEF IInv
      <4>2. /\ h'[x].req = next.req /\ h'[x].new = next.new
            /\ h'[x].pc = IF SetsBan(next) THEN "ban" ELSE "write"
        BY <3>3, <4>1 DEF LocalFields
      <4>3. SetsBan(h'[x]) <=> SetsBan(next)
        BY <4>2 DEF SetsBan, Columns
      <4> QED
        BY <4>2, <4>3 DEF Changing
    <3>4. \A new : DOMAIN [h[x] EXCEPT !.new = new] = LocalFields
      BY DEF IInv, Handled, Local
    <3> QED
      BY <3>1, <3>2, <3>3, <3>4
  <2> QED
    BY <2>1, <2>2, <2>3
<1> QED
  BY <1>1, <1>2, <1>3, <1>4, NoChange

\* The role or status of a user is written by a handler that is about the user.
LEMMA WriteColumn ==
  ASSUME IInv, NEW x \in Handlers, Write(x), NEW u \in Users, NEW c \in {"role", "status"}
  PROVE  /\ rows'[u][c] # rows[u][c] =>
              /\ h[x].req.on = u /\ c \in Columns(h[x]) /\ rows'[u][c] = h[x].new[c]
              /\ h[x].req.op \notin {"Redeem", "UpdateSelf"} /\ Exists(rows[u])
         /\ h[x].req.on = u /\ c \in Columns(h[x]) => rows'[u][c] = h[x].new[c] /\ Exists(rows[u])
<1> DEFINE l == h[x]
<1>1. /\ rows[u] \in [UserColumns -> Int] /\ u \in Objects /\ u \notin {"code", "token"} /\ c \in UserColumns \ {"quota", "password"}
      /\ Copy(l) /\ Asked(l)
  BY WriteIs, AccountsAssumption DEF IInv, Tables, Width, Objects, UserColumns
<1>2. CASE l.req.op = "Redeem"
  <2>1. l.req.on = "code" /\ \A p \in Objects \ {"code", l.me} : rows'[p] = rows[p]
    BY <1>2, WriteIs
  <2>2. u = l.me => rows'[u] = [rows[u] EXCEPT !["quota"] = @ + l.new.quota]
    BY <1>2, WriteIs
  <2>3. rows'[u][c] = rows[u][c]
    <3>1. CASE u = l.me
      BY <1>1, <2>2, <3>1
    <3>2. CASE u # l.me
      BY <1>1, <2>1, <3>2
    <3> QED
      BY <3>1, <3>2
  <2> QED
    BY <1>1, <2>1, <2>3
<1>3. CASE l.req.op # "Redeem" /\ l.req.on # u
  BY <1>1, <1>3, WriteIs
<1>4. CASE l.req.op # "Redeem" /\ l.req.on = u
  <2>1. AskedOfUser(l)
    BY <1>1, <1>4 DEF Asked
  <2>2. CASE l.req.op = "UpdateSelf"
    <3>1. Columns(l) \subseteq {"password"}
      BY <2>1, <2>2 DEF Columns, WholeRow, Binding, AskedOfUser
    <3>2. rows'[u] = rows[u] \/ rows'[u] = Put(rows[u], l.new, Columns(l))
      BY <1>4, WriteIs
    <3> QED
      BY <1>1, <3>1, <3>2 DEF Put
  <2>3. CASE l.req.op # "UpdateSelf"
    <3>1. Exists(rows[u])
      BY <1>1, <1>4, <2>3 DEF Copy
    <3>2. rows'[u] = Put(rows[u], l.new, Columns(l))
      BY <1>4, <3>1, WriteIs
    <3> QED
      BY <1>1, <1>4, <2>3, <3>1, <3>2 DEF Put
  <2> QED
    BY <2>2, <2>3
<1> QED
  BY <1>2, <1>3, <1>4

\* After its write a handler does not write the status again, or at least changes no set.
LEMMA WriterDone ==
  ASSUME IInv, NEW x \in Handlers, Write(x)
  PROVE  \A u \in Users : ~Changing(h'[x], u)
<1>1. CASE h[x].req.op # "ManageDelete"
  <2>1. h'[x] = Idle
    BY <1>1, WriteIs
  <2> QED
    BY <2>1 DEF Changing, Idle
<1>2. CASE h[x].req.op = "ManageDelete"
  <2> SUFFICES ASSUME NEW u \in Users, h'[x].req.on = u PROVE ~SetsBan(h'[x])
    BY DEF Changing
  <2>1. h'[x] = [h[x] EXCEPT !.req.op = "ManageUser", !.stale = FALSE] /\ Local(h[x]) /\ Asked(h[x]) /\ Copy(h[x])
    BY <1>2, WriteIs
  <2>2. h'[x].req.op = "ManageUser" /\ h'[x].new = h[x].new
    BY <2>1 DEF Local, LocalFields, RequestFields
  <2>3. h[x].req.set = "status" /\ h[x].req.to = 3
    BY <1>2, <2>1, AccountsAssumption DEF Asked, AskedOfUser, Binding
  <2>4. h'[x].new.status = 3
    BY <2>1, <2>2, <2>3 DEF Copy
  <2> QED
    BY <2>2, <2>4 DEF SetsBan, Deleting
<1> QED
  BY <1>1, <1>2

LEMMA WriteBans ==
  ASSUME IInv, Bans, NEW x \in Handlers, Write(x)
  PROVE  Bans'
<1> DEFINE l == h[x]
           o == h[x].req.on
<1>1. /\ l.pc = "write" /\ Copy(l) /\ UNCHANGED banned
      /\ UNCHANGED shaken
      /\ statusAt' = IF SetsBan(l) THEN [statusAt EXCEPT ![o] = l.node]
                     ELSE IF Unbanned(l) THEN [statusAt EXCEPT ![o] = "none"] ELSE statusAt
  BY WriteIs DEF Write
<1>2. Grows /\ (\A y \in Handlers \ {x} : SameChange(y)) /\ (\A u \in Users : ~Changing(h'[x], u))
      /\ \A y \in Handlers, u \in Users : Changing(h[y], u) => h[y].node \in Nodes
  BY WriteKeeps, WriteCarries, CarriedChange, WriterDone, ChangingNode
<1>3. CASE ~SetsBan(l)
  <2>1. \A y \in Handlers : SameChange(y)
    BY <1>2, <1>3, NoChange DEF Changing
  <2>2. \A u \in Users : statusAt'[u] \in Nodes => rows'[u].status = rows[u].status
    <3> SUFFICES ASSUME NEW u \in Users, rows'[u].status # rows[u].status PROVE statusAt'[u] \notin Nodes
      OBVIOUS
    <3>1. o = u /\ "status" \in Columns(l) /\ rows'[u].status = l.new.status
      BY WriteColumn
    <3>2. l.stale \/ l.req.op = "UpdateUser"
      BY <1>1, <1>3, <3>1 DEF Copy, Current
    <3>3. statusAt' = [statusAt EXCEPT ![u] = "none"]
      BY <1>1, <1>3, <3>1, <3>2 DEF Unbanned
    <3> QED
      BY <3>3, AccountsAssumption DEF Bans
  <2>3. /\ DOMAIN statusAt' = Users /\ DOMAIN banned' = Nodes
        /\ \A u \in Users : statusAt'[u] \in {statusAt[u], "none"}
    BY <1>1, <1>3 DEF Bans
  <2> QED
    BY <1>1, <1>2, <2>1, <2>2, <2>3, BansStay
<1>4. CASE SetsBan(l)
  <2>1. shaken' = shaken /\ o \in Users /\ "status" \in Columns(l) /\ Changing(l, o)
    BY <1>1, <1>4 DEF SetsBan, Changing
  <2>2. /\ rows'[o].status = l.new.status /\ Exists(rows[o]) /\ l.new.status \in 1..3
    <3>1. rows'[o].status = l.new.status /\ Exists(rows[o])
      BY <2>1, WriteColumn
    <3>2. l.req.op # "UpdateSelf"
      <4>1. l.req.op = "UpdateSelf" => Columns(l) \subseteq {"password"}
        BY <2>1, WriteIs, AccountsAssumption DEF Columns, WholeRow, Binding, Asked, AskedOfUser
      <4> QED
        BY <2>1, <4>1
    <3>3. l.req.op \in Deleting => l.new.status = 3
      <4>1. l.req.op \in Deleting => l.req.set = "status" /\ l.req.to = 3
        BY <2>1, WriteIs, AccountsAssumption DEF Asked, AskedOfUser, Deleting, Binding
      <4> QED
        BY <1>1, <4>1 DEF Copy
    <3> QED
      BY <1>4, <3>1, <3>3 DEF SetsBan
  <2>3. statusAt' = [statusAt EXCEPT ![o] = l.node] /\ DOMAIN statusAt = Users
    BY <1>1, <1>4 DEF Bans
  <2>4. \A u \in Users : statusAt'[u] # "none" => Exists(rows'[u])
    BY <1>2, <2>2, <2>3 DEF Bans, Grows
  <2>5. ASSUME NEW u \in Users \ shaken', NEW n \in Nodes, \A y \in Handlers : ~Changing(h'[y], u), statusAt'[u] = n
        PROVE  u \in banned'[n] <=> rows'[u].status \in {2, 3}
    <3>1. CASE u = o
      <4>1. o \in banned[l.node] <=> l.new.status # 1
        BY <2>1, <2>5, <3>1 DEF Bans
      <4> QED
        BY <1>1, <2>2, <2>3, <2>5, <3>1, <4>1
    <3>2. CASE u # o
      <4>1. rows'[u].status = rows[u].status /\ statusAt'[u] = statusAt[u]
        BY <2>3, <3>2, WriteColumn
      <4>2. \A y \in Handlers : ~Changing(h[y], u)
        BY <1>2, <2>5, <3>2 DEF SameChange, Changing
      <4> QED
        BY <1>1, <2>1, <2>5, <4>1, <4>2 DEF Bans
    <3> QED
      BY <3>1, <3>2
  <2>6. ASSUME NEW u \in Users \ shaken', NEW y \in Handlers, Changing(h'[y], u)
        PROVE  u \in banned'[h'[y].node] <=> h'[y].new.status # 1
    <3>1. y # x
      BY <1>2, <2>6
    <3>2. Changing(h[y], u) /\ h'[y].node = h[y].node /\ h'[y].new = h[y].new
      BY <1>2, <2>6, <3>1 DEF SameChange
    <3> QED
      BY <1>1, <2>1, <2>6, <3>2 DEF Bans
  <2>7. DOMAIN banned' = Nodes /\ DOMAIN statusAt' = Users
    BY <1>1, <2>3 DEF Bans
  <2> QED
    BY <2>4, <2>5, <2>6, <2>7 DEF Bans, Changing, SetsBan, Columns, NonZero
<1> QED
  BY <1>3, <1>4

LEMMA BanBans ==
  ASSUME IInv, Bans, NEW x \in Handlers, BanStep(x)
  PROVE  Bans'
<1> DEFINE l == h[x]
           o == h[x].req.on
<1>1. /\ l.pc = "ban" /\ h' = [h EXCEPT ![x] = [l EXCEPT !.pc = "write"]] /\ UNCHANGED <<rows, statusAt>>
      /\ banned' = [banned EXCEPT ![l.node] = BannedAfter(l, @)]
      /\ shaken' = IF \E y \in Handlers \ {x} : h[y].req.on = o /\ h[y].pc \in {"ban", "write"} THEN shaken \cup {o} ELSE shaken
  BY DEF BanStep, IInv
<1>2. Local(l) /\ Copy(l) /\ SetsBan(l) /\ o \in Users /\ l.node \in Nodes
  BY <1>1 DEF IInv, Handled, Copy, SetsBan, Local, OnRow, Writing
<1>3. h'[x].pc = "write" /\ h'[x].node = l.node /\ h'[x].req = l.req /\ h'[x].new = l.new
  BY <1>1, <1>2 DEF IInv, Local, LocalFields
<1>4. SetsBan(h'[x]) /\ Changing(h'[x], o) /\ \A u \in Users \ {o} : ~Changing(h'[x], u)
  BY <1>2, <1>3 DEF Changing, SetsBan, Columns
<1>5. shaken \subseteq shaken' /\ DOMAIN banned' = Nodes /\ DOMAIN statusAt' = Users
  BY <1>1 DEF Bans
<1>6. banned'[l.node] = BannedAfter(l, banned[l.node]) /\ \A n \in Nodes \ {l.node} : banned'[n] = banned[n]
  BY <1>1, <1>2 DEF Bans
<1>7. \A u \in Users \ {o}, n \in Nodes : u \in banned'[n] <=> u \in banned[n]
  BY <1>6 DEF BannedAfter
<1>8. o \in banned'[l.node] <=> l.new.status # 1
  BY <1>6 DEF BannedAfter
<1>9. \A y \in Handlers \ {x} : h'[y] = h[y]
  BY <1>1
<1>10. \A u \in Users : statusAt'[u] # "none" => Exists(rows'[u])
  BY <1>1 DEF Bans
<1>11. ASSUME NEW u \in Users \ shaken', NEW n \in Nodes, \A y \in Handlers : ~Changing(h'[y], u), statusAt'[u] = n
       PROVE  u \in banned'[n] <=> rows'[u].status \in {2, 3}
  <2>1. u # o
    BY <1>4, <1>11
  <2>2. \A y \in Handlers : ~Changing(h[y], u)
    BY <1>1, <1>9, <1>11 DEF Changing
  <2> QED
    BY <1>1, <1>5, <1>7, <1>11, <2>1, <2>2 DEF Bans
<1>12. ASSUME NEW u \in Users \ shaken', NEW y \in Handlers, Changing(h'[y], u)
       PROVE  u \in banned'[h'[y].node] <=> h'[y].new.status # 1
  <2>1. CASE y = x
    <3>1. u = o
      BY <1>4, <1>12, <2>1
    <3> QED
      BY <1>3, <1>8, <2>1, <3>1
  <2>2. CASE y # x
    <3>1. Changing(h[y], u) /\ h'[y] = h[y] /\ h[y].node \in Nodes
      BY <1>9, <1>12, <2>2, ChangingNode
    <3>2. u # o
      BY <1>1, <1>12, <2>2, <3>1 DEF Changing
    <3> QED
      BY <1>5, <1>7, <1>12, <3>1, <3>2 DEF Bans
  <2> QED
    BY <2>1, <2>2
<1> QED
  BY <1>5, <1>10, <1>11, <1>12 DEF Bans, Changing, SetsBan, Columns, NonZero

LEMMA RestartBans ==
  ASSUME IInv, Bans, Restart
  PROVE  Bans'
<1>1. PICK n \in Nodes :
        /\ banned' = [banned EXCEPT ![n] = {}]
        /\ h' = [x \in Handlers |-> IF h[x].node = n THEN Idle ELSE h[x]]
        /\ shaken' = shaken \cup {u \in Users : u \in banned[n] \/ \E x \in Handlers : h[x].node = n /\ h[x].req.on = u}
  BY DEF Restart
<1>2. UNCHANGED <<rows, statusAt>> /\ Grows
  BY RestartKeeps DEF Restart
<1>3. ASSUME NEW y \in Handlers PROVE SameChange(y)
  <2>1. CASE h[y].node # n
    BY <1>1, <2>1 DEF SameChange
  <2>2. CASE h[y].node = n
    <3>1. h'[y] = Idle
      BY <1>1, <2>2
    <3>2. \A u \in Users \ shaken' : ~Changing(h[y], u) /\ ~Changing(h'[y], u)
      BY <1>1, <2>2, <3>1 DEF Changing, Idle
    <3> QED
      BY <3>2 DEF SameChange
  <2> QED
    BY <2>1, <2>2
<1>4. \A u \in Users \ shaken', m \in Nodes : u \in banned'[m] <=> u \in banned[m]
  BY <1>1 DEF Bans
<1>5. /\ shaken \subseteq shaken' /\ DOMAIN banned' = Nodes /\ DOMAIN statusAt' = Users
      /\ \A u \in Users : statusAt'[u] \in {statusAt[u], "none"}
  BY <1>1, <1>2 DEF Bans
<1>6. \A x \in Handlers, u \in Users : Changing(h[x], u) => h[x].node \in Nodes
  BY ChangingNode
<1> QED
  BY <1>2, <1>3, <1>4, <1>5, <1>6, BansStay

LEMMA InsertBans ==
  ASSUME IInv, Bans, NEW x \in Handlers, Insert(x)
  PROVE  Bans'
<1>1. /\ Grows /\ Inserting(h[x]) /\ h'[x].pc \notin Writing /\ UNCHANGED <<banned, shaken, statusAt>>
      /\ \A y \in Handlers \ {x} : Carried(y)
  BY InsertKeeps DEF Insert
<1>2. PICK u \in Users : rows[u] = Absent /\ \A o \in Objects \ {u} : rows'[o] = rows[o] /\ meant'[o] = meant[o]
  BY InsertKeeps
<1>3. statusAt[u] \notin Nodes
  BY <1>2, AccountsAssumption DEF Bans, Exists, Absent
<1>4. \A v \in Users : statusAt'[v] \in Nodes => rows'[v].status = rows[v].status
  BY <1>1, <1>2, <1>3 DEF Objects
<1>5. \A y \in Handlers : SameChange(y)
  BY <1>1, CarriedChange, NoChange DEF Changing, Inserting, Writing
<1>6. \A y \in Handlers, v \in Users : Changing(h[y], v) => h[y].node \in Nodes
  BY ChangingNode
<1>7. DOMAIN banned' = Nodes /\ DOMAIN statusAt' = Users /\ \A v \in Users : statusAt'[v] \in {statusAt[v], "none"}
  BY <1>1 DEF Bans
<1> QED
  BY <1>1, <1>4, <1>5, <1>6, <1>7, BansStay

\* All other steps.
LEMMA QuietBans ==
  ASSUME IInv, Bans, Quiet, Grows, UNCHANGED banned, shaken \subseteq shaken', \A y \in Handlers : SameChange(y)
  PROVE  Bans'
<1>1. UNCHANGED statusAt /\ \A u \in Users : rows'[u].status = rows[u].status
  BY QuietRows DEF SameUsers
<1>2. \A y \in Handlers, v \in Users : Changing(h[y], v) => h[y].node \in Nodes
  BY ChangingNode
<1>3. DOMAIN banned' = Nodes /\ DOMAIN statusAt' = Users /\ \A v \in Users : statusAt'[v] \in {statusAt[v], "none"}
  BY <1>1 DEF Bans
<1> QED
  BY <1>1, <1>2, <1>3, BansStay

LEMMA BanOrder ==
  ASSUME IInv, Bans, [Next]_vars
  PROVE  Bans'
<1>1. ASSUME NEW x \in Handlers, Start(x) \/ Check(x) \/ Read(x) \/ ReadFails(x) PROVE Bans'
  <2>1. Quiet /\ Grows
    BY <1>1, StartKeeps, CheckKeeps, ReadKeeps DEF Quiet
  <2>2. UNCHANGED <<banned, shaken>>
    BY <1>1, StartStarts DEF Check, Read, ReadFails, ghosts
  <2> QED
    BY <1>1, <2>1, <2>2, StartsUnchanging, QuietBans
<1>2. ASSUME NEW x \in Handlers, WriteFails(x) PROVE Bans'
  <2>1. /\ shaken' = IF h[x].pc = "write" /\ SetsBan(h[x]) THEN shaken \cup {h[x].req.on} ELSE shaken
        /\ UNCHANGED banned /\ h' = [h EXCEPT ![x] = Idle]
    BY <1>2 DEF WriteFails, Reply
  <2>2. Quiet /\ Grows /\ \A y \in Handlers \ {x} : SameChange(y)
    BY <1>2, AnswerKeeps, CarriedChange DEF Quiet
  <2>3. SameChange(x)
    BY <2>1 DEF SameChange, Changing, Idle, IInv
  <2> QED
    BY <2>1, <2>2, <2>3, QuietBans
<1>3. ASSUME NEW x \in Handlers, InsertFails(x) \/ DeleteKey(x) \/ Bonus(x) \/ BonusFails(x) \/ ResetRows(x) PROVE Bans'
  <2>1. Quiet /\ Grows /\ \A y \in Handlers \ {x} : SameChange(y)
    BY <1>3, AnswerKeeps, BonusKeeps, MissedKeeps, ResetKeeps, CarriedChange DEF Quiet
  <2>2. UNCHANGED <<banned, shaken>> /\ h[x].pc # "write"
    BY <1>3 DEF InsertFails, DeleteKey, Bonus, BonusFails, ResetRows, Add, ghosts
  <2>3. h'[x].pc # "write"
    <3>1. CASE InsertFails(x) \/ DeleteKey(x)
      BY <3>1 DEF InsertFails, DeleteKey, Reply, IInv, Idle
    <3>2. CASE Bonus(x) \/ BonusFails(x) \/ ResetRows(x)
      BY <3>2, BonusKeeps, MissedKeeps, ResetKeeps DEF Writing
    <3> QED
      BY <1>3, <3>1, <3>2
  <2>4. SameChange(x)
    BY <2>2, <2>3, NoChange DEF Changing
  <2> QED
    BY <2>1, <2>2, <2>4, QuietBans
<1>4. CASE AdminTopUp \/ Consume \/ DeleteToken \/ DeleteRedemption
  <2>1. Quiet /\ Grows /\ \A y \in Handlers : SameChange(y)
    BY <1>4, RelayKeeps, DeleteRowKeeps, CarriedChange DEF Quiet
  <2>2. UNCHANGED <<banned, shaken>>
    BY <1>4 DEF AdminTopUp, Consume, DeleteToken, DeleteRedemption, DeleteRow, Add
  <2> QED
    BY <2>1, <2>2, QuietBans
<1>5. CASE Elsewhere \/ UNCHANGED vars
  <2>1. Quiet /\ UNCHANGED <<rows, banned, shaken>> /\ \A y \in Handlers : SameChange(y)
    BY <1>5, ElsewhereKeeps, StutterKeeps, CarriedChange DEF Quiet, vars, ghosts
  <2>2. Grows
    BY <2>1 DEF Grows
  <2> QED
    BY <2>1, <2>2, QuietBans
<1> QED
  BY <1>1, <1>2, <1>3, <1>4, <1>5, NextSteps, BanBans, WriteBans, InsertBans, RestartBans

\* When no handler is at work on a user, the node whose ban or release was the last to be
\* written has the user banned just when the row says disabled or deleted, for all the
\* orders in which bans, writes, edits of other columns and new rows can come, until
\* UpdateUser or a row that was out of date writes a status without the set.
THEOREM BansFollowRows == Spec => []BanFollowsRow
<1>1. Init => Bans
  <2> SUFFICES ASSUME Init PROVE Bans
    OBVIOUS
  <2>1. /\ DOMAIN banned = Nodes /\ statusAt = [u \in Users |-> "none"]
        /\ \A x \in Handlers : h[x].pc = "idle"
    BY DEF Init, Idle
  <2> QED
    BY <2>1, AccountsAssumption DEF Bans, Changing
<1>2. IInv /\ Bans /\ [Next]_vars => Bans'
  BY BanOrder
<1>3. Bans => BanFollowsRow
  BY DEF Bans, BanFollowsRow, Settled, Changing
<1> QED
  BY <1>1, <1>2, <1>3, Invariant, PTL DEF Spec

-----------------------------------------------------------------------------
(* Rights follow roles. *)

LEMMA WriterMoves ==
  ASSUME IInv, NEW x \in Handlers, Write(x)
  PROVE  h'[x] # h[x] /\ h[x].pc = "write"
<1>1. h[x].pc = "write" /\ Local(h[x])
  BY WriteIs DEF Write
<1>2. CASE h[x].req.op # "ManageDelete"
  <2>1. h'[x] = Idle
    BY <1>2, WriteIs
  <2> QED
    BY <1>1, <2>1 DEF Idle
<1>3. CASE h[x].req.op = "ManageDelete"
  <2>1. h'[x] = [h[x] EXCEPT !.req.op = "ManageUser", !.stale = FALSE]
    BY <1>3, WriteIs
  <2>2. h'[x].req.op = "ManageUser"
    BY <1>1, <2>1 DEF Local, LocalFields, RequestFields
  <2> QED
    BY <1>1, <1>3, <2>2
<1> QED
  BY <1>2, <1>3

\* What a handler that writes the role or the status of a user may do.
LEMMA WriterRights ==
  ASSUME IInv, NEW x \in Handlers, Write(x), NEW u \in Users, ~h[x].stale
  PROVE  /\ rows[u].role # 0 /\ rows'[u].role > rows[u].role =>
              /\ h[x].req.on = u
              /\ h[x].role = RoleRootUser \/ (h[x].role >= RoleAdminUser /\ h[x].role > rows'[u].role)
         /\ rows[u].status \notin {0, 1} /\ rows'[u].status = 1 => h[x].req.on = u /\ h[x].role >= RoleAdminUser
<1> DEFINE l == h[x]
<1>1. /\ Local(l) /\ Asked(l) /\ Copy(l) /\ Current(l) /\ rows[u] \in [UserColumns -> Int] /\ rows[u].role \in RoleValues
      /\ u \notin {"code", "token"}
  BY WriteIs, AccountsAssumption DEF Copy, IInv, Tables, Width, Objects
<1>2. ASSUME NEW c \in {"role", "status"}, rows'[u][c] # rows[u][c]
      PROVE  /\ l.req.on = u /\ AskedOfUser(l) /\ l.req.set = c /\ rows'[u][c] = l.req.to
             /\ l.req.op # "UpdateSelf"
  <2>1. /\ l.req.on = u /\ c \in Columns(l) /\ rows'[u][c] = l.new[c] /\ l.req.op \notin {"Redeem", "UpdateSelf"}
        /\ Exists(rows[u])
    BY <1>2, WriteColumn
  <2>2. c \in Own(l)
    <3>1. c \in Width(u)
      BY DEF Width, UserColumns
    <3> QED
      BY <1>1, <1>2, <2>1, <3>1 DEF Current
  <2>3. l.req.set = c /\ l.req.set # "none"
    BY <2>2 DEF Own
  <2> QED
    BY <1>1, <2>1, <2>3 DEF Copy, Asked
<1>3. ASSUME rows[u].role # 0, rows'[u].role > rows[u].role
      PROVE  l.req.on = u /\ (l.role = RoleRootUser \/ (l.role >= RoleAdminUser /\ l.role > rows'[u].role))
  <2>1. rows'[u].role # rows[u].role
    BY <1>1, <1>3 DEF RoleValues, RoleCommonUser, RoleBetween, RoleAdminUser, RoleRootUser, UserColumns
  <2>2. l.req.on = u /\ AskedOfUser(l) /\ l.req.set = "role" /\ rows'[u].role = l.req.to
    BY <1>2, <2>1
  <2>3. l.role >= RoleAdminUser /\ l.req.to \in {RoleCommonUser, RoleBetween, RoleAdminUser}
    BY <2>2 DEF AskedOfUser
  <2>4. l.role = RoleRootUser \/ l.req.to < l.role
    BY <1>1, <2>2 DEF Copy
  <2>5. l.role \in RoleValues
    BY <1>1 DEF Local
  <2> QED
    BY <2>2, <2>3, <2>4, <2>5 DEF RoleValues, RoleCommonUser, RoleBetween, RoleAdminUser, RoleRootUser
<1>4. ASSUME rows[u].status \notin {0, 1}, rows'[u].status = 1
      PROVE  l.req.on = u /\ l.role >= RoleAdminUser
  <2>1. rows'[u].status # rows[u].status
    BY <1>4
  <2>2. l.req.on = u /\ AskedOfUser(l) /\ l.req.set = "status" /\ l.req.to = 1
    BY <1>2, <1>4, <2>1
  <2> QED
    BY <2>2 DEF AskedOfUser
<1> QED
  BY <1>3, <1>4

\* The step property for one user.
Rightful(u) ==
  /\ (rows[u].role # 0 /\ rows'[u].role > rows[u].role) =>
       \E x \in Handlers : /\ WritesOf(x, u)
                           /\ \/ h[x].role = RoleRootUser \/ h[x].stale
                              \/ h[x].role >= RoleAdminUser /\ h[x].role > rows'[u].role
  /\ (rows[u].status \notin {0, 1} /\ rows'[u].status = 1) =>
       \E x \in Handlers : WritesOf(x, u) /\ (h[x].role >= RoleAdminUser \/ h[x].stale)

LEMMA RightfulStep ==
  ASSUME IInv, [Next]_vars, NEW u \in Users
  PROVE  Rightful(u)
<1>0. rows[u].role \in {0, 1, 5, 10, 100} /\ rows[u].status \in 0..4
  BY DEF IInv, Tables, RoleValues, RoleCommonUser, RoleBetween, RoleAdminUser, RoleRootUser
<1>1. CASE rows'[u].role = rows[u].role /\ rows'[u].status = rows[u].status
  BY <1>0, <1>1 DEF Rightful
<1>2. CASE Quiet
  BY <1>1, <1>2, QuietRows DEF SameUsers
<1>3. ASSUME NEW x \in Handlers, Insert(x) PROVE Rightful(u)
  <2>1. PICK v \in Users : rows[v] = Absent /\ \A o \in Objects \ {v} : rows'[o] = rows[o] /\ meant'[o] = meant[o]
    BY <1>3, InsertKeeps
  <2>2. CASE u = v
    <3>1. rows[u].role = 0 /\ rows[u].status = 0
      BY <2>1, <2>2 DEF Absent
    <3> QED
      BY <3>1 DEF Rightful
  <2>3. CASE u # v
    BY <1>1, <2>1, <2>3 DEF Objects
  <2> QED
    BY <2>2, <2>3
<1>4. ASSUME NEW x \in Handlers, Write(x) PROVE Rightful(u)
  <2>1. h'[x] # h[x] /\ h[x].pc = "write"
    BY <1>4, WriterMoves
  <2>2. CASE h[x].stale
    <3>1. CASE h[x].req.on = u
      BY <2>1, <2>2, <3>1 DEF Rightful, WritesOf
    <3>2. CASE h[x].req.on # u
      BY <1>1, <1>4, <3>2, WriteColumn
    <3> QED
      BY <3>1, <3>2
  <2>3. CASE ~h[x].stale
    BY <1>4, <2>1, <2>3, WriterRights DEF Rightful, WritesOf
  <2> QED
    BY <2>2, <2>3
<1> QED
  BY <1>2, <1>3, <1>4, NextIsQuiet

\* Whatever requests are served at the same time, a role rises only by the root user's
\* hand or by an administrator's to a role below his own, and a user that is not enabled
\* is enabled only by an administrator's, except by a write of a row that was out of date.
THEOREM RightsAreGiven == Spec => RightsFollowRoles
<1>1. IInv /\ [Next]_vars => [\A u \in Users :
       /\ (rows[u].role # 0 /\ rows'[u].role > rows[u].role) =>
            \E x \in Handlers : /\ WritesOf(x, u)
                                /\ \/ h[x].role = RoleRootUser \/ h[x].stale
                                   \/ h[x].role >= RoleAdminUser /\ h[x].role > rows'[u].role
       /\ (rows[u].status \notin {0, 1} /\ rows'[u].status = 1) =>
            \E x \in Handlers : WritesOf(x, u) /\ (h[x].role >= RoleAdminUser \/ h[x].stale)]_vars
  BY RightfulStep DEF Rightful
<1> QED
  BY <1>1, Invariant, PTL DEF Spec, RightsFollowRoles
=============================================================================
