---------------------------- MODULE UserAccounts ----------------------------
(***************************************************************************)
(* User accounts, their roles, their permission overrides and the audit    *)
(* log: the tables users, roles, user_roles, user_permissions and          *)
(* permission_changes_log with the constraints of the migrations, and the  *)
(* service calls that change them.                                         *)
(*                                                                         *)
(* No call runs in a transaction: each is a sequence of single statements, *)
(* and the statements of concurrent calls interleave.  A call is one HTTP  *)
(* request to the user or permission endpoints, or one run of the          *)
(* super-admin seeder.                                                     *)
(*                                                                         *)
(* What is abstracted.  The columns of a user that a request can change    *)
(* are two groups, "profile" (name, is_active) and "password", and the     *)
(* value of a group is the call that chose it.  A list of roles is a set,  *)
(* with a flag when it names a role twice.  The permission cache is the    *)
(* subject of PermissionCache.                                             *)
(***************************************************************************)
EXTENDS Functions

CONSTANTS
  Ids,          \* user ids
  Founders,     \* accounts that exist at the start
  Emails,
  Roles,        \* role names
  SuperAdmin,   \* the role the seeder gives
  Permissions,
  Calls,
  DbFails,      \* may a statement fail for a reason of its own?
  Nobody        \* no user: NULL, and the value chosen by no call

ASSUME UserAccountsAssumption ==
  /\ Founders \subseteq Ids
  /\ SuperAdmin \in Roles
  /\ DbFails \in BOOLEAN
  /\ Nobody \notin Ids \cup Calls

Groups == {"profile", "password"}

VARIABLES
  account,    \* table users: id |-> [email, cols], for the ids that exist
  roleRows,   \* table roles
  userRoles,  \* table user_roles: [user, role, by]
  userPerms,  \* table user_permissions: [user, perm, granted, by]
  log,        \* table permission_changes_log: [call, action, user, perm, by]
  call,       \* the local state of each call
  issued,     \* ids ever given to an account; uuid.NewV7 repeats none
  \* History, read by no step:
  disturbed,  \* calls whose user's rows another call wrote meanwhile
  swallowed,  \* updates whose failed DELETE of the old roles went unnoticed
  exposed,    \* users whose roles were lost, or read as none, for a known reason
  unlogged    \* calls whose log row could not be inserted

vars == <<account, roleRows, userRoles, userPerms, log, call, issued,
          disturbed, swallowed, exposed, unlogged>>

tables == <<account, roleRows, userRoles, userPerms, log, issued>>
history == <<disturbed, swallowed, exposed, unlogged>>

Columns == [Groups -> Calls \cup {Nobody}]

CallState ==
  [pc    : {"idle", "email", "insert", "readRoles", "update", "clear", "roles",
            "delete", "change", "log", "done", "rejected", "failed"},
   kind  : {"create", "update", "seed", "delete", "grant", "deny", "revoke"},
   actor : Ids \cup {Nobody},   \* the user who makes the request
   id    : Ids \cup {Nobody},   \* the user it is about
   email : Emails \cup {Nobody},
   cols  : Columns,             \* the user row to be written
   roles : SUBSET Roles,        \* the roles to be inserted
   twice : BOOLEAN,             \* the request names a role twice
   perm  : Permissions \cup {Nobody}]

TypeOK ==
  /\ issued \subseteq Ids
  /\ account \in [DOMAIN account -> [email : Emails, cols : Columns]]
  /\ DOMAIN account \subseteq issued
  /\ roleRows \subseteq Roles
  /\ userRoles \subseteq [user : Ids, role : Roles, by : Ids \cup {Nobody}]
  /\ userPerms \subseteq [user : Ids, perm : Permissions, granted : BOOLEAN,
                          by : Ids \cup {Nobody}]
  /\ log \subseteq [call : Calls, action : {"grant", "revoke"}, user : Ids,
                    perm : Permissions, by : Ids]
  /\ call \in [Calls -> CallState]
  /\ disturbed \subseteq Calls
  /\ swallowed \subseteq Calls
  /\ exposed \subseteq Ids
  /\ unlogged \subseteq Calls

Exists(u) == u \in DOMAIN account

RolesOf(u) == {x.role : x \in {y \in userRoles : y.user = u}}

Unset == [g \in Groups |-> Nobody]

Init ==
  /\ issued = Founders
  /\ \E email \in Injection(Founders, Emails) :
       account = [u \in Founders |-> [email |-> email[u], cols |-> Unset]]
  /\ roleRows \in SUBSET Roles
  /\ \E given \in SUBSET (Founders \X roleRows) :
       /\ userRoles = {[user |-> g[1], role |-> g[2], by |-> Nobody] : g \in given}
       /\ exposed = {u \in Founders : \A g \in given : g[1] # u}
  /\ userPerms = {}
  /\ log = {}
  /\ call = [c \in Calls |->
               [pc |-> "idle", kind |-> "create", actor |-> Nobody, id |-> Nobody,
                email |-> Nobody, cols |-> Unset, roles |-> {}, twice |-> FALSE,
                perm |-> Nobody]]
  /\ disturbed = {}
  /\ swallowed = {}
  /\ unlogged = {}

-----------------------------------------------------------------------------
(* Helpers.                                                                *)

\* The call goes on to its next statement.
Goes(c, pc) == call' = [call EXCEPT ![c].pc = pc]

\* The call is answered; what it was about to write is forgotten.
Ends(c, pc) ==
  call' = [call EXCEPT ![c] = [@ EXCEPT !.pc = pc, !.email = Nobody, !.cols = Unset,
                                        !.roles = {}, !.twice = FALSE]]

Idle(c) == call[c].pc = "idle"

Over(c) == call[c].pc \in {"idle", "done", "rejected", "failed"}

AccountKinds == {"create", "update", "seed"}

ChangeKinds == {"grant", "deny", "revoke"}

\* A write to the rows of user u, seen by the other calls of those kinds.
Disturb(c, u, kinds) ==
  disturbed' = disturbed \cup
    {d \in Calls \ {c} : ~Over(d) /\ call[d].id = u /\ call[d].kind \in kinds}

\* A new call about user u, on behalf of actor.
Request(c, pc, kind, actor, u) ==
  [call[c] EXCEPT !.pc = pc, !.kind = kind, !.actor = actor, !.id = u]

-----------------------------------------------------------------------------
(* POST /roles, and the role seeder: INSERT ON CONFLICT DO NOTHING.        *)

CreateRole(r) ==
  /\ roleRows' = roleRows \cup {r}
  /\ UNCHANGED <<account, userRoles, userPerms, log, call, issued, history>>

-----------------------------------------------------------------------------
(* POST /users.                                                            *)

\* The handler accepts roles that exist, or any when it can read none.
BeginCreate(c) ==
  /\ Idle(c)
  /\ \E actor \in DOMAIN account, e \in Emails, roles \in (SUBSET Roles) \ {{}},
        twice \in BOOLEAN :
       /\ roles \subseteq roleRows \/ roleRows = {} \/ DbFails
       /\ call' = [call EXCEPT ![c] =
                     [Request(c, "email", "create", actor, Nobody)
                        EXCEPT !.email = e, !.roles = roles, !.twice = twice,
                               !.cols = [g \in Groups |-> c]]]
  /\ UNCHANGED <<tables, history>>

\* GetUserByEmail, its error read as "no such user".
CheckEmail(c) ==
  /\ call[c].pc = "email"
  /\ \/ /\ \E u \in DOMAIN account : account[u].email = call[c].email
        /\ Ends(c, "rejected")
     \/ /\ DbFails \/ \A u \in DOMAIN account : account[u].email # call[c].email
        /\ Goes(c, "insert")
  /\ UNCHANGED <<tables, history>>

EmailTaken(e) == \E u \in DOMAIN account : account[u].email = e

\* Mutant of NewAccount: ids are handed out again after a deletion.
NewAccountForgets(c, u) ==
  /\ account' = [v \in DOMAIN account \cup {u} |->
                   IF v = u THEN [email |-> call[c].email, cols |-> call[c].cols]
                            ELSE account[v]]
  /\ issued' = issued
  /\ call' = [call EXCEPT ![c].pc = "roles", ![c].id = u]

\* The INSERT into users succeeds under a fresh id.
NewAccount(c, u) ==
  /\ account' = [v \in DOMAIN account \cup {u} |->
                   IF v = u THEN [email |-> call[c].email, cols |-> call[c].cols]
                            ELSE account[v]]
  /\ issued' = issued \cup {u}
  /\ call' = [call EXCEPT ![c].pc = "roles", ![c].id = u]

\* Mutant of InsertUser: email is not UNIQUE in the schema.
InsertUserTwice(c) ==
  /\ call[c].pc = "insert"
  /\ \E u \in Ids \ issued : NewAccount(c, u)
  /\ UNCHANGED <<roleRows, userRoles, userPerms, log, history>>

\* INSERT INTO users; email is UNIQUE.
InsertUser(c) ==
  /\ call[c].pc = "insert"
  /\ \/ /\ EmailTaken(call[c].email) \/ DbFails
        /\ Ends(c, "failed")
        /\ UNCHANGED <<account, issued>>
     \/ /\ ~EmailTaken(call[c].email)
        /\ \E u \in Ids \ issued : NewAccount(c, u)
  /\ UNCHANGED <<roleRows, userRoles, userPerms, log, history>>

-----------------------------------------------------------------------------
(* PATCH /users/:id.                                                       *)

\* GetUserByID, first SELECT.  The request may leave profile or roles alone.
BeginUpdate(c) ==
  /\ Idle(c)
  /\ \E actor \in DOMAIN account, u \in issued, roles \in SUBSET Roles,
        twice \in BOOLEAN, sets \in SUBSET {"profile"} :
       /\ twice => roles # {}
       /\ call' = [call EXCEPT ![c] =
            IF Exists(u)
              THEN [Request(c, "readRoles", "update", actor, u)
                      EXCEPT !.roles = roles, !.twice = twice,
                             !.cols = [g \in Groups |-> IF g \in sets THEN c
                                                        ELSE account[u].cols[g]]]
              ELSE Request(c, "rejected", "update", actor, u)]
  /\ UNCHANGED <<tables, history>>

\* A user whose roles are about to be inserted again by another call.
InBetween(u) == \E d \in Calls : call[d].pc = "roles" /\ call[d].id = u

\* Mutant of ReadRoles: GetUserByID does not load the roles.
ReadRolesSkipped(c) ==
  /\ call[c].pc = "readRoles"
  /\ Goes(c, "update")
  /\ UNCHANGED <<tables, history>>

\* GetUserByID, second SELECT, its error read as "no roles".
ReadRoles(c) ==
  LET u == call[c].id IN
  /\ call[c].pc = "readRoles"
  /\ \E found \in {RolesOf(u)} \cup (IF DbFails THEN {{}} ELSE {}) :
       /\ call' = [call EXCEPT ![c].pc = "update",
                               ![c].roles = IF @ # {} THEN @ ELSE found]
       /\ exposed' = IF found = {} /\ (InBetween(u) \/ found # RolesOf(u) \/ ~Exists(u))
                       THEN exposed \cup {u} ELSE exposed
  /\ UNCHANGED <<tables, disturbed, swallowed, unlogged>>

\* Mutant of WriteUser: an upsert instead of an UPDATE.
WriteUserUpserts(c) ==
  LET u == call[c].id IN
  /\ call[c].pc = "update"
  /\ account' = [v \in DOMAIN account \cup {u} |->
                   IF v \in DOMAIN account /\ v # u THEN account[v]
                   ELSE [email |-> CHOOSE e \in Emails : TRUE, cols |-> call[c].cols]]
  /\ Disturb(c, u, AccountKinds)
  /\ Goes(c, "clear")
  /\ UNCHANGED <<roleRows, userRoles, userPerms, log, issued,
                 swallowed, exposed, unlogged>>

\* UPDATE of every column WHERE id; no row to update is no error.
WriteUser(c) ==
  LET u == call[c].id IN
  /\ call[c].pc = "update"
  /\ \/ /\ DbFails
        /\ Ends(c, "failed")
        /\ UNCHANGED <<account, disturbed>>
     \/ /\ account' = [v \in DOMAIN account |->
                         IF v = u THEN [account[u] EXCEPT !.cols = call[c].cols]
                                  ELSE account[v]]
        /\ Disturb(c, u, AccountKinds)
        /\ Goes(c, "clear")
  /\ UNCHANGED <<roleRows, userRoles, userPerms, log, issued,
                 swallowed, exposed, unlogged>>

\* Mutant of ClearRoles: the DELETE is gone.
ClearRolesNot(c) ==
  /\ call[c].pc = "clear"
  /\ IF call[c].roles = {} THEN Ends(c, "done") ELSE Goes(c, "roles")
  /\ UNCHANGED <<tables, history>>

\* DELETE of the old roles, its error ignored.
ClearRoles(c) ==
  LET u == call[c].id IN
  /\ call[c].pc = "clear"
  /\ IF call[c].roles = {} THEN Ends(c, "done") ELSE Goes(c, "roles")
  /\ \/ /\ userRoles' = {x \in userRoles : x.user # u}
        /\ Disturb(c, u, AccountKinds)
        /\ UNCHANGED swallowed
     \/ /\ DbFails
        /\ swallowed' = swallowed \cup {c}
        /\ UNCHANGED <<userRoles, disturbed>>
  /\ UNCHANGED <<account, roleRows, userPerms, log, issued, exposed, unlogged>>

\* The primary key and the three foreign keys of user_roles.
RolesInsertable(c) ==
  /\ Exists(call[c].id)
  /\ call[c].roles \subseteq roleRows
  /\ call[c].actor = Nobody \/ Exists(call[c].actor)
  /\ RolesOf(call[c].id) \cap call[c].roles = {}
  /\ ~call[c].twice

\* One INSERT of all the roles, of CreateUser and of UpdateUser.
InsertRoles(c) ==
  LET u == call[c].id IN
  /\ call[c].pc = "roles"
  /\ \/ /\ ~RolesInsertable(c) \/ DbFails
        /\ Ends(c, "failed")
        /\ exposed' = exposed \cup {u}
        /\ UNCHANGED <<userRoles, disturbed>>
     \/ /\ RolesInsertable(c)
        /\ userRoles' = userRoles \cup
             {[user |-> u, role |-> r, by |-> call[c].actor] : r \in call[c].roles}
        /\ Disturb(c, u, AccountKinds)
        /\ Ends(c, "done")
        /\ UNCHANGED exposed
  /\ UNCHANGED <<account, roleRows, userPerms, log, issued, swallowed, unlogged>>

-----------------------------------------------------------------------------
(* The super-admin seeder: GetUserByEmail, then an update or a create.     *)

BeginSeed(c) ==
  /\ Idle(c)
  /\ \/ \E u \in DOMAIN account :
          call' = [call EXCEPT ![c] =
               [Request(c, "update", "seed", Nobody, u)
                  EXCEPT !.roles = {SuperAdmin},
                         !.cols = [account[u].cols EXCEPT !["password"] = c]]]
     \/ \E e \in Emails :
          /\ DbFails \/ ~EmailTaken(e)
          /\ call' = [call EXCEPT ![c] =
               [Request(c, "insert", "seed", Nobody, Nobody)
                  EXCEPT !.email = e, !.roles = {SuperAdmin},
                         !.cols = [g \in Groups |-> c]]]
  /\ UNCHANGED <<tables, history>>

-----------------------------------------------------------------------------
(* DELETE /users/:id.                                                      *)

BeginDelete(c) ==
  /\ Idle(c)
  /\ \E actor \in DOMAIN account, u \in issued :
       call' = [call EXCEPT ![c] =
         Request(c, IF Exists(u) THEN "delete" ELSE "rejected", "delete", actor, u)]
  /\ UNCHANGED <<tables, history>>

\* changed_by of the log references users without a cascade.
Auditor(u) == \E e \in log : e.by = u

Forget(rows, u) ==
  {[x EXCEPT !.by = IF @ = u THEN Nobody ELSE @] : x \in {y \in rows : y.user # u}}

\* The DELETE with its cascades; it is no error when the user is gone already.
Remove(c, u) ==
  /\ account' = [v \in DOMAIN account \ {u} |-> account[v]]
  /\ userRoles' = Forget(userRoles, u)
  /\ userPerms' = Forget(userPerms, u)
  /\ Disturb(c, u, AccountKinds \cup ChangeKinds)
  /\ Ends(c, "done")

DeleteUser(c) ==
  /\ call[c].pc = "delete"
  /\ \/ /\ Auditor(call[c].id) \/ DbFails
        /\ Ends(c, "failed")
        /\ UNCHANGED <<account, userRoles, userPerms, disturbed>>
     \/ /\ ~Auditor(call[c].id)
        /\ Remove(c, call[c].id)
  /\ UNCHANGED <<roleRows, log, issued, swallowed, exposed, unlogged>>

-----------------------------------------------------------------------------
(* PUT and DELETE /users/:user_id/permissions/:permission.                 *)

\* PUT with granted true ("grant") or false ("deny"); DELETE ("revoke").
BeginChange(c) ==
  /\ Idle(c)
  /\ \E actor \in DOMAIN account, u \in issued, p \in Permissions,
        kind \in ChangeKinds :
       call' = [call EXCEPT ![c] =
                  [Request(c, "change", kind, actor, u) EXCEPT !.perm = p]]
  /\ UNCHANGED <<tables, history>>

OtherPerms(c) ==
  {x \in userPerms : ~(x.user = call[c].id /\ x.perm = call[c].perm)}

\* The upsert, with its two foreign keys, or the DELETE.
ChangeRow(c) ==
  LET u == call[c].id
      upsert == call[c].kind # "revoke"
      legal == Exists(u) /\ Exists(call[c].actor)
  IN
  /\ call[c].pc = "change"
  /\ \/ /\ (upsert /\ ~legal) \/ DbFails
        /\ Ends(c, "failed")
        /\ UNCHANGED <<userPerms, disturbed>>
     \/ /\ upsert => legal
        /\ userPerms' = OtherPerms(c) \cup
             (IF upsert THEN {[user |-> u, perm |-> call[c].perm,
                               granted |-> call[c].kind = "grant",
                               by |-> call[c].actor]}
                        ELSE {})
        /\ Disturb(c, u, ChangeKinds)
        /\ Goes(c, "log")
  /\ UNCHANGED <<account, roleRows, userRoles, log, issued,
                 swallowed, exposed, unlogged>>

Entry(c) ==
  [call |-> c, action |-> IF call[c].kind = "grant" THEN "grant" ELSE "revoke",
   user |-> call[c].id, perm |-> call[c].perm, by |-> call[c].actor]

\* Mutant of WriteLog: the log insert is forgotten.
WriteLogForgets(c) ==
  /\ call[c].pc = "log"
  /\ Ends(c, "done")
  /\ UNCHANGED <<tables, history>>

\* LogPermissionChange; changed_by must exist.
WriteLog(c) ==
  /\ call[c].pc = "log"
  /\ \/ /\ ~Exists(call[c].actor) \/ DbFails
        /\ Ends(c, "failed")
        /\ unlogged' = unlogged \cup {c}
        /\ UNCHANGED log
     \/ /\ Exists(call[c].actor)
        /\ log' = log \cup {Entry(c)}
        /\ Ends(c, "done")
        /\ UNCHANGED unlogged
  /\ UNCHANGED <<account, roleRows, userRoles, userPerms, issued,
                 disturbed, swallowed, exposed>>

-----------------------------------------------------------------------------

CallStep(c) ==
  \/ BeginCreate(c) \/ CheckEmail(c) \/ InsertUser(c)
  \/ BeginUpdate(c) \/ ReadRoles(c) \/ WriteUser(c) \/ ClearRoles(c)
  \/ InsertRoles(c)
  \/ BeginSeed(c)
  \/ BeginDelete(c) \/ DeleteUser(c)
  \/ BeginChange(c) \/ ChangeRow(c) \/ WriteLog(c)

Next ==
  \/ \E c \in Calls : CallStep(c)
  \/ \E r \in Roles : CreateRole(r)

Spec == Init /\ [][Next]_vars

-----------------------------------------------------------------------------
(* Properties.                                                             *)

\* No row refers to something that is gone, whatever is deleted between the
\* statements of the other calls; above all, the audit log names users that
\* exist, so whoever changed a permission cannot be deleted.
References ==
  /\ \A x \in userRoles :
       Exists(x.user) /\ x.role \in roleRows /\ (x.by = Nobody \/ Exists(x.by))
  /\ \A x \in userPerms : Exists(x.user) /\ (x.by = Nobody \/ Exists(x.by))
  /\ \A e \in log : Exists(e.by)

\* An email identifies an account, as Login assumes, although two creations can
\* both have found the email free.
EmailIdentifies ==
  \A u, v \in DOMAIN account : account[u].email = account[v].email => u = v

\* What the constraints of the migrations hold between any two statements.
KeysHold == References /\ EmailIdentifies

\* A create, update or seed that reports success while nobody else wrote the
\* user's rows leaves exactly the columns and the roles it computed.
UpdateDelivers ==
  [][\A c \in Calls :
       LET u == call[c].id IN
       ( /\ c \notin disturbed \cup swallowed'
         /\ call[c].pc \in {"clear", "roles"} /\ call'[c].pc = "done" )
       => /\ account'[u].cols = call[c].cols
          /\ {x.role : x \in {y \in userRoles' : y.user = u}} = call[c].roles]_vars

\* An account without a role has a known reason: a call is between its
\* statements, an insertion of roles failed, or an update read the roles while
\* they were missing.  A PATCH that sets only the name takes no role away.
RolelessExplained ==
  \A u \in DOMAIN account : RolesOf(u) # {} \/ u \in exposed \/ InBetween(u)

\* A permission override whose author exists is in the audit log, or its call
\* is about to write the log or could not.
OverridesAudited ==
  \A x \in userPerms : x.by # Nobody =>
    \E c \in Calls :
      /\ call[c].actor = x.by /\ call[c].id = x.user /\ call[c].perm = x.perm
      /\ call[c].pc = "log" \/ c \in unlogged \/ \E e \in log : e.call = c

\* A deleted account does not come back through an update that read it before.
DeletedStaysDeleted ==
  [][\A u \in issued : ~Exists(u) => u \notin DOMAIN account']_vars

-----------------------------------------------------------------------------
(* The inductive strengthening the proofs use.                             *)

\* Before the INSERT into users a call has no user; after it, and in the other
\* requests, the user is one whose id was given out.
PhaseOK(k, ids) ==
  /\ k.pc \in {"email", "insert"} =>
       k.kind \in {"create", "seed"} /\ k.id = Nobody /\ k.email \in Emails /\ k.roles # {}
  /\ k.pc \in {"readRoles", "update", "clear", "roles"} =>
       k.kind \in AccountKinds /\ k.id \in ids
  /\ k.pc = "roles" => k.roles # {}
  /\ k.pc = "delete" => k.id \in ids
  /\ k.pc \in {"change", "log"} =>
       k.kind \in ChangeKinds /\ k.id \in ids /\ k.actor \in Ids /\ k.perm \in Permissions

PhasesOK == \A c \in Calls : PhaseOK(call[c], issued)

\* An update that is about to leave its user without a role has found none.
NoneFound ==
  \A c \in Calls :
    call[c].pc \in {"update", "clear"} /\ call[c].roles = {} => call[c].id \in exposed

\* A call whose row is in the log, or could not be, is over.
LoggedOver ==
  /\ \A c \in unlogged : call[c].pc = "failed"
  /\ \A e \in log : call[e.call].pc = "done"

\* What a create, update or seed has done so far is still there unless another
\* call wrote the user's rows.
UndisturbedSoFar ==
  \A c \in Calls \ disturbed :
    LET k == call[c] IN
    /\ k.pc \in {"readRoles", "update", "clear", "roles"} => Exists(k.id)
    /\ k.pc \in {"clear", "roles"} => account[k.id].cols = k.cols
    /\ k.pc = "roles" /\ c \notin swallowed => RolesOf(k.id) = {}

AccountsInv ==
  /\ TypeOK
  /\ KeysHold
  /\ PhasesOK /\ NoneFound /\ LoggedOver /\ UndisturbedSoFar
  /\ RolelessExplained
  /\ OverridesAudited

=============================================================================
