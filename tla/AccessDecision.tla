--------------------------- MODULE AccessDecision ---------------------------
(***************************************************************************)
(* Who may do what: three parts of the code decide it from the same rows.  *)
(* HasPermission (auth service) guards creating users, AllowedPermissions  *)
(* (middleware) guards every other route, GetComputedPermissions tells the *)
(* client.  HasPermission reads the user, its overrides and each role in   *)
(* separate queries, between which administrators change the rows, rows    *)
(* expire, and any of which may fail.                                      *)
(*                                                                         *)
(* What is abstracted.  The clock has a bound.  A permission is a pair of  *)
(* a group and an action, "user.view"; a pattern of a route is one too,    *)
(* with the action Wild for "user.*".  The cache in front of the rows the   *)
(* middleware reads is PermissionCache's subject: here it reads them       *)
(* directly.  UpdateUser's statements are UserAccounts's: here the roles   *)
(* of a user change at once, to any set.                                   *)
(***************************************************************************)
EXTENDS Integers, FiniteSets

CONSTANTS
  Users, Roles,
  SuperAdmin,    \* the role super_admin
  Groups, Acts,  \* what permissions are made of
  Wild,           \* the wildcard
  MaxTime,       \* bound: the last instant
  DbFails        \* may a query fail?

Never == -1      \* expires_at is NULL

ASSUME AccessAssumption ==
  /\ SuperAdmin \in Roles
  /\ Wild \notin Acts
  /\ MaxTime \in Nat
  /\ DbFails \in BOOLEAN

Perms == Groups \X Acts

Patterns == Groups \X (Acts \cup {Wild})

\* Those that are reached within the bound, and none.
Expiry == 0 .. MaxTime - 1 \cup {Never}

RolePermission == [role : Roles, perm : Perms, expires : Expiry]

UserPermission == [user : Users, perm : Perms, granted : BOOLEAN, expires : Expiry]

VARIABLES
  db,     \* the rows, and the clock
  check   \* one call of HasPermission

vars == <<db, check>>

Database ==
  [now       : 0 .. MaxTime,
   users     : SUBSET Users,
   roles     : [Users -> SUBSET Roles],
   rolePerms : SUBSET RolePermission,
   userPerms : SUBSET UserPermission]

Call ==
  [pc     : {"idle", "user", "overrides", "roles", "done"},
   user   : Users,
   perm   : Perms,
   left   : SUBSET Roles,     \* roles still to look up
   answer : BOOLEAN,
   \* History, read by no step:
   failed  : BOOLEAN,         \* a query failed
   seen    : SUBSET BOOLEAN,  \* the right answers since the call began
   granted : BOOLEAN,         \* the permission was granted at some instant
   changes : 0 .. 2,          \* changes since then, up to 2
   deleted : BOOLEAN]         \* the user was deleted since then

\* One row per role and permission, and per user and permission.
TypeOK ==
  /\ db \in Database
  /\ check \in Call
  /\ \A u \in Users \ db.users :
       db.roles[u] = {} /\ \A x \in db.userPerms : x.user # u
  /\ \A x, y \in db.rolePerms : x.role = y.role /\ x.perm = y.perm => x = y
  /\ \A x, y \in db.userPerms : x.user = y.user /\ x.perm = y.perm => x = y

Init ==
  /\ db = [now |-> 0, users |-> Users, roles |-> [u \in Users |-> {}],
           rolePerms |-> {}, userPerms |-> {}]
  /\ check \in [pc : {"idle"}, user : Users, perm : Perms, left : {{}}, answer : {FALSE},
                failed : {FALSE}, seen : {{}}, granted : {FALSE}, changes : {0},
                deleted : {FALSE}]

-----------------------------------------------------------------------------
(* The decisions, on one state of the database.                            *)

\* ExpiresAt.Before(now).
Expired(x, now) == x.expires # Never /\ x.expires < now

\* Service.GetRolePermissions.
GetRolePermissions(d, r) ==
  {x.perm : x \in {y \in d.rolePerms : y.role = r /\ ~Expired(y, d.now)}}

\* Service.GetUserPermissions: the overrides in force, as rows.
GetUserPermissions(d, u) == {x \in d.userPerms : x.user = u /\ ~Expired(x, d.now)}

\* Mutant of GetComputedPermissions: revocations are not taken out.
ComputedKeepsRevoked(d, u) ==
  (UNION {GetRolePermissions(d, r) : r \in d.roles[u]})
    \cup {x.perm : x \in {y \in GetUserPermissions(d, u) : y.granted}}

\* For a user without super_admin, who is told "*".
GetComputedPermissions(d, u) ==
  LET overrides == GetUserPermissions(d, u) IN
  ((UNION {GetRolePermissions(d, r) : r \in d.roles[u]})
     \cup {x.perm : x \in {y \in overrides : y.granted}})
   \ {x.perm : x \in {y \in overrides : ~y.granted}}

\* What HasPermission answers when nothing changes meanwhile.
HasPermission(d, u, p) ==
  LET overrides == {x \in GetUserPermissions(d, u) : x.perm = p} IN
  /\ u \in d.users
  /\ \/ SuperAdmin \in d.roles[u]
     \/ \E x \in overrides : x.granted
     \/ overrides = {} /\ \E r \in d.roles[u] : p \in GetRolePermissions(d, r)

\* Some override or role grants the permission, whatever other rows revoke it.
Granted(d, u, p) ==
  u \in d.users /\ (\/ SuperAdmin \in d.roles[u]
                    \/ \E x \in GetUserPermissions(d, u) : x.perm = p /\ x.granted
                    \/ \E r \in d.roles[u] : p \in GetRolePermissions(d, r))

\* matchPermission, for one pattern.
Matches(p, pattern) == p[1] = pattern[1] /\ pattern[2] \in {p[2], Wild}

\* The middleware reads the rows as they are.
AllowedPermissions(d, u, patterns) ==
  /\ u \in d.users
  /\ \/ SuperAdmin \in d.roles[u]
     \/ \E x \in d.rolePerms, pattern \in patterns :
          x.role \in d.roles[u] /\ Matches(x.perm, pattern)
     \/ \E x \in d.userPerms, pattern \in patterns :
          x.user = u /\ Matches(x.perm, pattern)

-----------------------------------------------------------------------------
(* Changes.  Each is seen by the call under way.                           *)

Running == check.pc \in {"user", "overrides", "roles"}

Change(new) ==
  /\ new # db
  /\ db' = new
  /\ check' = IF ~Running THEN check
              ELSE [check EXCEPT !.seen = @ \cup {HasPermission(new, check.user, check.perm)},
                                 !.granted = @ \/ Granted(new, check.user, check.perm),
                                 !.changes = IF @ = 2 THEN 2 ELSE @ + 1,
                                 !.deleted = @ \/ (check.user \in db.users \ new.users)]

Tick == db.now < MaxTime /\ Change([db EXCEPT !.now = @ + 1])

SetRoles(u, roles) ==
  /\ u \in db.users
  /\ Change([db EXCEPT !.roles[u] = roles])

DeleteUser(u) ==
  Change([db EXCEPT !.users = @ \ {u}, !.roles[u] = {},
                    !.userPerms = {x \in @ : x.user # u}])

OtherRolePerms(r, p) == {x \in db.rolePerms : ~(x.role = r /\ x.perm = p)}

OtherUserPerms(u, p) == {x \in db.userPerms : ~(x.user = u /\ x.perm = p)}

GrantRolePermission(r, p, e) ==
  Change([db EXCEPT !.rolePerms =
            OtherRolePerms(r, p) \cup {[role |-> r, perm |-> p, expires |-> e]}])

RevokeRolePermission(r, p) == Change([db EXCEPT !.rolePerms = OtherRolePerms(r, p)])

\* Mutant of GrantUserPermission: a conflict inserts a second row.
GrantUserTwice(u, p, g, e) ==
  /\ u \in db.users
  /\ Change([db EXCEPT !.userPerms =
               @ \cup {[user |-> u, perm |-> p, granted |-> g, expires |-> e]}])

GrantUserPermission(u, p, g, e) ==
  /\ u \in db.users
  /\ Change([db EXCEPT !.userPerms =
               OtherUserPerms(u, p)
                 \cup {[user |-> u, perm |-> p, granted |-> g, expires |-> e]}])

RevokeUserPermission(u, p) == Change([db EXCEPT !.userPerms = OtherUserPerms(u, p)])

-----------------------------------------------------------------------------
(* A call of HasPermission.                                                *)

Begin(u, p) ==
  /\ ~Running
  /\ check' = [pc |-> "user", user |-> u, perm |-> p, left |-> {}, answer |-> FALSE,
               failed |-> FALSE, seen |-> {HasPermission(db, u, p)},
               granted |-> Granted(db, u, p), changes |-> 0, deleted |-> FALSE]
  /\ UNCHANGED db

Answer(b, failed) ==
  check' = [check EXCEPT !.pc = "done", !.answer = b, !.left = {},
                         !.failed = check.failed \/ failed]

\* GetUserByID: the user, then the roles; nobody can tell the time between the
\* two, as a user that is deleted there has no roles and no overrides left.  The
\* error of the second query is dropped: the call goes on with no roles.
ReadUser ==
  /\ check.pc = "user"
  /\ \/ DbFails /\ Answer(FALSE, TRUE)
     \/ /\ DbFails /\ check.user \in db.users
        /\ check' = [check EXCEPT !.pc = "overrides", !.left = {}, !.failed = TRUE]
     \/ check.user \notin db.users /\ Answer(FALSE, FALSE)
     \/ SuperAdmin \in db.roles[check.user] /\ Answer(TRUE, FALSE)
     \/ /\ check.user \in db.users
        /\ SuperAdmin \notin db.roles[check.user]
        /\ check' = [check EXCEPT !.pc = "overrides", !.left = db.roles[check.user]]
  /\ UNCHANGED db

\* Mutant of ReadOverrides: a row is taken for a grant.
ReadOverridesPresence ==
  LET overrides == {x \in GetUserPermissions(db, check.user) : x.perm = check.perm} IN
  /\ check.pc = "overrides"
  /\ IF overrides # {} THEN Answer(TRUE, FALSE)
                       ELSE check' = [check EXCEPT !.pc = "roles"]
  /\ UNCHANGED db

\* An override in force decides.  When the query fails the roles decide.
ReadOverrides ==
  LET overrides == {x \in GetUserPermissions(db, check.user) : x.perm = check.perm} IN
  /\ check.pc = "overrides"
  /\ \/ DbFails /\ check' = [check EXCEPT !.pc = "roles", !.failed = TRUE]
     \/ overrides = {} /\ check' = [check EXCEPT !.pc = "roles"]
     \/ \E x \in overrides : Answer(x.granted, FALSE)
  /\ UNCHANGED db

\* One role; they are looked up in the order of user.Roles, which is any.
ReadRole ==
  /\ check.pc = "roles"
  /\ \/ check.left = {} /\ Answer(FALSE, FALSE)
     \/ \E r \in check.left :
          \/ DbFails /\ check' = [check EXCEPT !.left = @ \ {r}, !.failed = TRUE]
          \/ IF check.perm \in GetRolePermissions(db, r)
               THEN Answer(TRUE, FALSE)
               ELSE check' = [check EXCEPT !.left = @ \ {r}]
  /\ UNCHANGED db

Next ==
  \/ Tick
  \/ \E u \in Users : DeleteUser(u) \/ \E roles \in SUBSET Roles : SetRoles(u, roles)
  \/ \E r \in Roles, p \in Perms :
       RevokeRolePermission(r, p) \/ \E e \in Expiry : GrantRolePermission(r, p, e)
  \/ \E u \in Users, p \in Perms :
       \/ RevokeUserPermission(u, p)
       \/ \E g \in BOOLEAN, e \in Expiry : GrantUserPermission(u, p, g, e)
       \/ Begin(u, p)
  \/ ReadUser \/ ReadOverrides \/ ReadRole

Spec == Init /\ [][Next]_vars

-----------------------------------------------------------------------------
(* Properties.                                                             *)

\* HasPermission's answer was the right one at some instant of the call, if no
\* query failed, no more than one change was made during it, and the user is
\* still there.  (A deletion takes the overrides along: between the reads of the
\* user and of its overrides it uncovers what an override revoked.  Two changes
\* may do so too: the override is inserted after the overrides are read, the
\* role's row before the roles are.)
AnswerOfAnInstant ==
  check.pc = "done" /\ ~check.failed /\ check.changes <= 1 /\ ~check.deleted
  => check.answer \in check.seen

\* Queries that fail, and a deletion of the user, may hide a revocation, so that
\* the answer is yes all the same: but then an override or a role of the user
\* granted the permission at some instant of the call.
YesIsGranted ==
  check.pc = "done" /\ check.answer /\ check.changes <= 1 => check.granted

\* What HasPermission may answer.
AnswerExplained == AnswerOfAnInstant /\ YesIsGranted

\* The list the client is given (GetComputedPermissions) is what HasPermission
\* answers, permission by permission.
ComputedAgrees ==
  \A u \in db.users :
    SuperAdmin \notin db.roles[u]
    => GetComputedPermissions(db, u) = {p \in Perms : HasPermission(db, u, p)}

\* A user HasPermission answers yes to passes AllowedPermissions on a route that
\* names the permission or its group.
RouteAdmits ==
  \A u \in Users, p \in Perms, pattern \in Patterns :
    HasPermission(db, u, p) /\ Matches(p, pattern)
    => AllowedPermissions(db, u, {pattern})

\* The three decisions agree, in these two directions.
DecisionsAgree == ComputedAgrees /\ RouteAdmits

\* A permission revoked by an override ("granted": false, "should be revoked")
\* does not open the routes that require it.  The middleware does not look at
\* is_granted: it does.
RevokedRefused ==
  \A x \in db.userPerms :
    ~x.granted /\ ~Expired(x, db.now) /\ SuperAdmin \notin db.roles[x.user]
    => ~AllowedPermissions(db, x.user, {x.perm})

-----------------------------------------------------------------------------
(* The inductive strengthening the proofs use.                             *)

Overrides == {x \in GetUserPermissions(db, check.user) : x.perm = check.perm}

RolesGrant(roles) == \E r \in roles : check.perm \in GetRolePermissions(db, r)

\* The answer the rest of the call gives, with these roles, when nothing changes.
Outlook(roles) ==
  \/ \E x \in Overrides : x.granted
  \/ Overrides = {} /\ RolesGrant(roles)

\* An answer is among the right ones so far.
Seen(answer) == (answer => TRUE \in check.seen) /\ (~answer => FALSE \in check.seen)

\* The present state counts as an instant of the call.
PresentSeen ==
  Running => /\ Seen(HasPermission(db, check.user, check.perm))
             /\ Granted(db, check.user, check.perm) => check.granted

\* As long as nothing changed, what the call has read is so, unless a query failed.
ReadSoFar ==
  check.pc \in {"overrides", "roles"} /\ check.changes = 0 =>
    LET roles == db.roles[check.user] IN
    /\ check.user \in db.users /\ check.left \subseteq roles
    /\ ~check.failed =>
         /\ SuperAdmin \notin roles
         /\ check.pc = "overrides" => check.left = roles
         /\ check.pc = "roles" => Overrides = {} /\ ~RolesGrant(roles \ check.left)

\* After one change the answer the call is heading for was right before the
\* change, or is right now; and a role it is still to look up was the user's.
AnswerAhead ==
  check.pc \in {"overrides", "roles"} /\ check.changes <= 1 =>
    /\ RolesGrant(check.left) => check.granted
    /\ ~check.failed /\ ~check.deleted =>
         /\ check.pc = "overrides" => Seen(Outlook(check.left))
         /\ check.pc = "roles" => Seen(RolesGrant(check.left))

DecisionInv ==
  /\ TypeOK
  /\ PresentSeen /\ ReadSoFar /\ AnswerAhead
  /\ AnswerExplained

=============================================================================
