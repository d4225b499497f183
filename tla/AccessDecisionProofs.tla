------------------------ MODULE AccessDecisionProofs ------------------------
(***************************************************************************)
(* Proofs about AccessDecision for any sets of users, roles, groups and    *)
(* actions, any bound on the clock, with or without failing queries.       *)
(* DecisionInv is the inductive invariant.  The changes have lemmas of     *)
(* their own: what each leaves of the rows (…Rows), and how those rows     *)
(* decide the answer a call under way is heading for (Ahead…).             *)
(***************************************************************************)
EXTENDS AccessDecision, TLAPS

-----------------------------------------------------------------------------
(* What the operators say, row by row.                                     *)

LEMMA RolePermissionsByRow ==
  ASSUME NEW d, NEW r, NEW p
  PROVE  p \in GetRolePermissions(d, r)
         <=> \E x \in d.rolePerms : x.role = r /\ x.perm = p /\ ~Expired(x, d.now)
  BY DEF GetRolePermissions

LEMMA UserPermissionsByRow ==
  ASSUME NEW d, NEW u, NEW x
  PROVE  x \in GetUserPermissions(d, u)
         <=> x \in d.userPerms /\ x.user = u /\ ~Expired(x, d.now)
  BY DEF GetUserPermissions

\* HasPermission in terms of the call's own roles and overrides.
LEMMA HasPermissionNow ==
  HasPermission(db, check.user, check.perm)
  <=> /\ check.user \in db.users
      /\ \/ SuperAdmin \in db.roles[check.user]
         \/ Outlook(db.roles[check.user])
  BY DEF HasPermission, Outlook, Overrides, RolesGrant

\* An override or a role that grants the permission counts as granting it.
LEMMA GrantedNow ==
  ASSUME check.user \in db.users
  PROVE  /\ SuperAdmin \in db.roles[check.user] => Granted(db, check.user, check.perm)
         /\ RolesGrant(db.roles[check.user]) => Granted(db, check.user, check.perm)
         /\ \A x \in Overrides : x.granted => Granted(db, check.user, check.perm)
  BY DEF Granted, Overrides, RolesGrant

LEMMA MoreRolesGrantMore ==
  ASSUME NEW roles, NEW more, roles \subseteq more, RolesGrant(roles)
  PROVE  RolesGrant(more)
  BY DEF RolesGrant

-----------------------------------------------------------------------------
(* The decisions agree: it follows from one row per user and permission.   *)

LEMMA ComputedAgreesFromRows == TypeOK => ComputedAgrees
  <1> SUFFICES ASSUME TypeOK, NEW u \in db.users, SuperAdmin \notin db.roles[u], NEW p
               PROVE  p \in GetComputedPermissions(db, u)
                      <=> p \in Perms /\ HasPermission(db, u, p)
    BY DEF ComputedAgrees
  <1> DEFINE byRole   == \E r \in db.roles[u] : p \in GetRolePermissions(db, r)
             allows   == \E x \in GetUserPermissions(db, u) : x.perm = p /\ x.granted
             revokes  == \E x \in GetUserPermissions(db, u) : x.perm = p /\ ~x.granted
             overrides == {x \in GetUserPermissions(db, u) : x.perm = p}
  <1>1. p \in GetComputedPermissions(db, u) <=> (byRole \/ allows) /\ ~revokes
    <2> DEFINE ofRoles == UNION {GetRolePermissions(db, r) : r \in db.roles[u]}
               added == {x.perm : x \in {y \in GetUserPermissions(db, u) : y.granted}}
               removed == {x.perm : x \in {y \in GetUserPermissions(db, u) : ~y.granted}}
    <2>1. p \in ofRoles <=> byRole
      OBVIOUS
    <2>2. p \in added <=> allows
      OBVIOUS
    <2>3. p \in removed <=> revokes
      OBVIOUS
    <2>4. GetComputedPermissions(db, u) = (ofRoles \cup added) \ removed
      BY DEF GetComputedPermissions
    <2> HIDE DEF byRole, allows, revokes, ofRoles, added, removed
    <2> QED
      BY <2>1, <2>2, <2>3, <2>4
  <1>2. ~(allows /\ revokes)
    <2>1. \A x, y \in GetUserPermissions(db, u) : x.perm = y.perm => x = y
      BY UserPermissionsByRow DEF TypeOK
    <2> QED
      BY <2>1
  <1>3. overrides = {} <=> ~allows /\ ~revokes
    OBVIOUS
  <1>4. HasPermission(db, u, p) <=> allows \/ (~allows /\ ~revokes /\ byRole)
    <2>1. (\E x \in overrides : x.granted) <=> allows
      OBVIOUS
    <2> QED
      BY <1>3, <2>1 DEF HasPermission
  <1>5. byRole \/ allows => p \in Perms
    <2>1. byRole => p \in Perms
      BY RolePermissionsByRow DEF TypeOK, Database, RolePermission
    <2>2. allows => p \in Perms
      BY UserPermissionsByRow DEF TypeOK, Database, UserPermission
    <2> QED
      BY <2>1, <2>2
  <1> HIDE DEF byRole, allows, revokes, overrides
  <1> QED
    BY <1>1, <1>2, <1>4, <1>5

LEMMA RouteAdmitsFromRows == RouteAdmits
  <1> SUFFICES ASSUME NEW u \in Users, NEW p \in Perms, NEW pattern \in Patterns,
                      HasPermission(db, u, p), Matches(p, pattern)
               PROVE  AllowedPermissions(db, u, {pattern})
    BY DEF RouteAdmits
  <1>1. u \in db.users
    BY DEF HasPermission
  <1>2. CASE SuperAdmin \in db.roles[u]
    BY <1>1, <1>2 DEF AllowedPermissions
  <1>3. CASE \E x \in GetUserPermissions(db, u) : x.perm = p
    <2>1. PICK x \in GetUserPermissions(db, u) : x.perm = p
      BY <1>3
    <2>2. x \in db.userPerms /\ x.user = u
      BY UserPermissionsByRow
    <2> QED
      BY <1>1, <2>1, <2>2 DEF AllowedPermissions
  <1>4. CASE \E r \in db.roles[u] : p \in GetRolePermissions(db, r)
    <2>1. PICK r \in db.roles[u] : p \in GetRolePermissions(db, r)
      BY <1>4
    <2>2. PICK x \in db.rolePerms : x.role = r /\ x.perm = p
      BY <2>1, RolePermissionsByRow
    <2> QED
      BY <1>1, <2>1, <2>2 DEF AllowedPermissions
  <1> QED
    BY <1>2, <1>3, <1>4 DEF HasPermission

-----------------------------------------------------------------------------
(* What a change does to the rows: it keeps them well formed, and leaves   *)
(* what it does not name as it was.                                        *)

LEMMA TickRows ==
  ASSUME TypeOK, NEW new, new = [db EXCEPT !.now = @ + 1], db.now < MaxTime
  PROVE  /\ new \in Database
         /\ new.now = db.now + 1 /\ new.users = db.users /\ new.roles = db.roles
         /\ new.rolePerms = db.rolePerms /\ new.userPerms = db.userPerms
  <1>1. db.now \in 0 .. MaxTime /\ MaxTime \in Nat
    BY AccessAssumption DEF TypeOK, Database
  <1>2. db.now + 1 \in 0 .. MaxTime
    BY <1>1
  <1> QED
    BY <1>2 DEF TypeOK, Database

LEMMA SetRolesRows ==
  ASSUME TypeOK, NEW u \in Users, NEW roles \in SUBSET Roles, u \in db.users,
         NEW new, new = [db EXCEPT !.roles[u] = roles]
  PROVE  /\ new \in Database
         /\ new.now = db.now /\ new.users = db.users
         /\ new.rolePerms = db.rolePerms /\ new.userPerms = db.userPerms
         /\ \A v \in Users \ {u} : new.roles[v] = db.roles[v]
  BY DEF TypeOK, Database

LEMMA RolePermRows ==
  ASSUME TypeOK, NEW rows \in SUBSET RolePermission,
         NEW new, new = [db EXCEPT !.rolePerms = rows]
  PROVE  /\ new \in Database
         /\ new.now = db.now /\ new.users = db.users /\ new.roles = db.roles
         /\ new.rolePerms = rows /\ new.userPerms = db.userPerms
  BY DEF TypeOK, Database

LEMMA UserPermRows ==
  ASSUME TypeOK, NEW rows \in SUBSET UserPermission,
         NEW new, new = [db EXCEPT !.userPerms = rows]
  PROVE  /\ new \in Database
         /\ new.now = db.now /\ new.users = db.users /\ new.roles = db.roles
         /\ new.rolePerms = db.rolePerms /\ new.userPerms = rows
  BY DEF TypeOK, Database

-----------------------------------------------------------------------------
(* What a change does to the call under way.                               *)

LEMMA SeesAnswer ==
  ASSUME NEW S \in SUBSET BOOLEAN, NEW b \in BOOLEAN
  PROVE  /\ S \cup {b} \in SUBSET BOOLEAN
         /\ (b => TRUE \in S \cup {b}) /\ (~b => FALSE \in S \cup {b})
  OBVIOUS

LEMMA ChangeSeen ==
  ASSUME TypeOK, NEW new \in Database, Change(new), Running
  PROVE  /\ check' \in Call
         /\ check'.pc = check.pc /\ check'.user = check.user /\ check'.perm = check.perm
         /\ check'.left = check.left /\ check'.answer = check.answer
         /\ check'.failed = check.failed
         /\ check.seen \subseteq check'.seen
         /\ HasPermission(new, check.user, check.perm) => TRUE \in check'.seen
         /\ ~HasPermission(new, check.user, check.perm) => FALSE \in check'.seen
         /\ check.granted => check'.granted
         /\ Granted(new, check.user, check.perm) => check'.granted
         /\ check'.changes <= 1 => check.changes = 0
         /\ check'.changes # 0
         /\ check.deleted => check'.deleted
         /\ check.user \in db.users \ new.users => check'.deleted
  <1> DEFINE right == HasPermission(new, check.user, check.perm)
             grants == Granted(new, check.user, check.perm)
             gone == check.user \in db.users \ new.users
  <1>1. right \in BOOLEAN /\ grants \in BOOLEAN /\ gone \in BOOLEAN
    BY DEF HasPermission, Granted
  <1> HIDE DEF right, grants, gone
  <1>2. check' = [check EXCEPT !.seen = @ \cup {right}, !.granted = @ \/ grants,
                               !.changes = IF @ = 2 THEN 2 ELSE @ + 1,
                               !.deleted = @ \/ gone]
    BY DEF Change, right, grants, gone
  <1>3. /\ check \in Call /\ check.seen \in SUBSET BOOLEAN /\ check.changes \in 0 .. 2
        /\ check.granted \in BOOLEAN /\ check.deleted \in BOOLEAN
    BY DEF TypeOK, Call
  <1> DEFINE seen == check.seen \cup {right}
             granted == check.granted \/ grants
             changes == IF check.changes = 2 THEN 2 ELSE check.changes + 1
             deleted == check.deleted \/ gone
  <1>4. seen \in SUBSET BOOLEAN /\ (right => TRUE \in seen) /\ (~right => FALSE \in seen)
    BY <1>1, <1>3, SeesAnswer
  <1>5. changes \in 0 .. 2 /\ changes # 0 /\ (changes <= 1 => check.changes = 0)
    BY <1>3
  <1>6. granted \in BOOLEAN /\ deleted \in BOOLEAN /\ check.seen \subseteq seen
    OBVIOUS
  <1>7. check' = [check EXCEPT !.seen = seen, !.granted = granted, !.changes = changes,
                               !.deleted = deleted]
    BY <1>2
  <1>8. /\ check.granted => granted
        /\ grants => granted
        /\ check.deleted => deleted
        /\ gone => deleted
    OBVIOUS
  <1> HIDE DEF seen, granted, changes, deleted
  <1>9. /\ check' \in Call
        /\ check'.pc = check.pc /\ check'.user = check.user /\ check'.perm = check.perm
        /\ check'.left = check.left /\ check'.answer = check.answer
        /\ check'.failed = check.failed
        /\ check'.seen = seen /\ check'.granted = granted /\ check'.changes = changes
        /\ check'.deleted = deleted
    BY <1>3, <1>4, <1>5, <1>6, <1>7 DEF Call
  <1>10. /\ right => TRUE \in check'.seen
         /\ ~right => FALSE \in check'.seen
    BY <1>4, <1>9
  <1>11. /\ check.granted => check'.granted
         /\ grants => check'.granted
         /\ check.deleted => check'.deleted
         /\ gone => check'.deleted
    BY <1>8, <1>9
  <1>12. /\ check'.changes <= 1 => check.changes = 0
         /\ check'.changes # 0
    BY <1>5, <1>9
  <1>13. check.seen \subseteq check'.seen
    BY <1>6, <1>9
  <1> QED
    BY <1>9, <1>10, <1>11, <1>12, <1>13 DEF right, grants, gone

-----------------------------------------------------------------------------
(* The answer a call is heading for, after the one change it may see.      *)

\* The predicates of the invariant, in the state after a change.
LEMMA AfterChange ==
  ASSUME TypeOK, NEW new \in Database, Change(new), Running
  PROVE  /\ db' = new
         /\ RolesGrant(check.left)'
            <=> \E r \in check.left : check.perm \in GetRolePermissions(new, r)
         /\ Overrides' = {x \in GetUserPermissions(new, check.user) : x.perm = check.perm}
         /\ Outlook(check.left)'
            <=> (\/ \E x \in Overrides' : x.granted
                 \/ Overrides' = {} /\ RolesGrant(check.left)')
  <1>1. /\ db' = new
        /\ check'.user = check.user /\ check'.perm = check.perm /\ check'.left = check.left
    BY ChangeSeen DEF Change
  <1> QED
    BY <1>1 DEF RolesGrant, Overrides, Outlook

\* What was seen stays seen, and the answer that is right after the change is.
LEMMA SeenAfterChange ==
  ASSUME TypeOK, NEW new \in Database, Change(new), Running, NEW answer
  PROVE  /\ Seen(answer) => /\ answer => TRUE \in check'.seen
                            /\ ~answer => FALSE \in check'.seen
         /\ (answer <=> HasPermission(new, check.user, check.perm))
            => /\ answer => TRUE \in check'.seen
               /\ ~answer => FALSE \in check'.seen
  BY ChangeSeen DEF Seen

\* Before any change, the answer the call is heading for is the right one.
LEMMA AheadBefore ==
  ASSUME TypeOK, PresentSeen, ReadSoFar, check.pc \in {"overrides", "roles"},
         check.changes = 0
  PROVE  /\ check.user \in db.users /\ check.left \subseteq db.roles[check.user]
         /\ RolesGrant(check.left) => check.granted
         /\ ~check.failed => SuperAdmin \notin db.roles[check.user]
         /\ check.pc = "overrides" /\ ~check.failed =>
              check.left = db.roles[check.user] /\ Seen(Outlook(check.left))
         /\ check.pc = "roles" /\ ~check.failed =>
              /\ Overrides = {} /\ ~RolesGrant(db.roles[check.user] \ check.left)
              /\ Seen(RolesGrant(check.left))
  <1>1. /\ check.user \in db.users /\ check.left \subseteq db.roles[check.user]
        /\ ~check.failed => SuperAdmin \notin db.roles[check.user]
        /\ check.pc = "overrides" /\ ~check.failed => check.left = db.roles[check.user]
        /\ check.pc = "roles" /\ ~check.failed =>
             Overrides = {} /\ ~RolesGrant(db.roles[check.user] \ check.left)
    BY DEF ReadSoFar
  <1>2. /\ Seen(HasPermission(db, check.user, check.perm))
        /\ Granted(db, check.user, check.perm) => check.granted
    BY DEF PresentSeen, Running
  <1>3. RolesGrant(check.left) => check.granted
    BY <1>1, <1>2, MoreRolesGrantMore, GrantedNow
  <1>4. ~check.failed =>
          (HasPermission(db, check.user, check.perm) <=> Outlook(db.roles[check.user]))
    BY <1>1, HasPermissionNow
  <1>5. check.pc = "overrides" /\ ~check.failed => Seen(Outlook(check.left))
    BY <1>1, <1>2, <1>4 DEF Seen
  <1>6. check.pc = "roles" /\ ~check.failed => Seen(RolesGrant(check.left))
    <2> SUFFICES ASSUME check.pc = "roles", ~check.failed
                 PROVE  Seen(RolesGrant(check.left))
      OBVIOUS
    <2>1. RolesGrant(db.roles[check.user]) <=> RolesGrant(check.left)
      BY <1>1 DEF RolesGrant
    <2>2. Outlook(db.roles[check.user]) <=> RolesGrant(db.roles[check.user])
      BY <1>1 DEF Outlook
    <2> QED
      BY <1>2, <1>4, <2>1, <2>2 DEF Seen
  <1> QED
    BY <1>1, <1>3, <1>5, <1>6

\* A change of roles or users leaves what each role grants, and the overrides of
\* a user that stays: the answer ahead is the one that was right before.
LEMMA AheadOfUsers ==
  ASSUME TypeOK, PresentSeen, ReadSoFar, NEW new \in Database, Change(new),
         check.pc \in {"overrides", "roles"}, check.changes = 0,
         \A r : GetRolePermissions(new, r) = GetRolePermissions(db, r),
         \/ check'.deleted
         \/ GetUserPermissions(new, check.user) = GetUserPermissions(db, check.user)
  PROVE  AnswerAhead'
  <1>0. Running
    BY DEF Running
  <1>1. RolesGrant(check.left)' <=> RolesGrant(check.left)
    BY <1>0, AfterChange DEF RolesGrant
  <1>2. RolesGrant(check.left)' => check'.granted
    BY <1>0, <1>1, AheadBefore, ChangeSeen
  <1>3. ~check'.deleted => Overrides' = Overrides
    BY <1>0, AfterChange DEF Overrides
  <1>4. ~check'.deleted => (Outlook(check.left)' <=> Outlook(check.left))
    BY <1>0, <1>1, <1>3, AfterChange DEF Outlook
  <1>5. /\ ~check'.deleted /\ ~check'.failed /\ check'.pc = "overrides"
             => Seen(Outlook(check.left))'
        /\ ~check'.failed /\ check'.pc = "roles" => Seen(RolesGrant(check.left))'
    <2>1. /\ check.pc = "overrides" /\ ~check.failed => Seen(Outlook(check.left))
          /\ check.pc = "roles" /\ ~check.failed => Seen(RolesGrant(check.left))
      BY AheadBefore
    <2>2. check'.pc = check.pc /\ check'.failed = check.failed /\ check.seen \subseteq check'.seen
      BY <1>0, ChangeSeen
    <2> QED
      BY <1>1, <1>4, <2>1, <2>2 DEF Seen
  <1> QED
    BY <1>2, <1>5 DEF AnswerAhead

\* A change of permission rows, or the passing of time, leaves users and their
\* roles.  The answer ahead is right after the change, or it is the one that was
\* right before: a new row counts for nothing when its role was looked up already.
LEMMA AheadOfRows ==
  ASSUME TypeOK, PresentSeen, ReadSoFar, NEW new \in Database, Change(new),
         check.pc \in {"overrides", "roles"}, check.changes = 0,
         new.users = db.users, new.roles[check.user] = db.roles[check.user],
         \/ \A r : GetRolePermissions(new, r) = GetRolePermissions(db, r)
         \/ /\ GetUserPermissions(new, check.user) \subseteq GetUserPermissions(db, check.user)
            /\ \A r : GetRolePermissions(new, r) \subseteq GetRolePermissions(db, r)
         \/ /\ GetUserPermissions(new, check.user) = GetUserPermissions(db, check.user)
            /\ \E named : \A r : r # named =>
                 GetRolePermissions(new, r) = GetRolePermissions(db, r)
  PROVE  AnswerAhead'
  <1> DEFINE roles == db.roles[check.user]
             grants(R) == \E r \in R : check.perm \in GetRolePermissions(new, r)
             right == HasPermission(new, check.user, check.perm)
  <1>0. Running
    BY DEF Running
  <1>1. /\ check.user \in new.users /\ check.left \subseteq roles
        /\ ~check.failed => SuperAdmin \notin new.roles[check.user]
    BY AheadBefore
  <1>2. RolesGrant(check.left)' <=> grants(check.left)
    BY <1>0, AfterChange
  <1>3. ~check.failed => (right <=> \/ \E x \in Overrides' : x.granted
                                    \/ Overrides' = {} /\ grants(roles))
    BY <1>0, <1>1, AfterChange DEF HasPermission
  <1>4. RolesGrant(check.left)' => check'.granted
    <2>1. grants(check.left) => Granted(new, check.user, check.perm)
      BY <1>1 DEF Granted
    <2> QED
      BY <1>0, <1>2, <2>1, ChangeSeen
  <1>5. check'.pc = check.pc /\ check'.failed = check.failed
    BY <1>0, ChangeSeen
  <1>6. ASSUME check.pc = "overrides", ~check.failed PROVE Seen(Outlook(check.left))'
    <2>1. check.left = roles
      BY <1>6, AheadBefore
    <2>2. Outlook(check.left)' <=> right
      <3>1. RolesGrant(check.left)' <=> grants(roles)
        BY <1>2, <2>1
      <3> HIDE DEF grants, right, roles
      <3> QED
        BY <1>0, <1>3, <1>6, <3>1, AfterChange
    <2>3. /\ right => TRUE \in check'.seen
          /\ ~right => FALSE \in check'.seen
      BY <1>0, ChangeSeen
    <2> QED
      BY <2>2, <2>3 DEF Seen
  <1>7. ASSUME check.pc = "roles", ~check.failed PROVE Seen(RolesGrant(check.left))'
    <2>1. Overrides = {} /\ ~RolesGrant(roles \ check.left) /\ Seen(RolesGrant(check.left))
      BY <1>7, AheadBefore
    <2>2. (grants(check.left) <=> RolesGrant(check.left)) \/ (grants(check.left) <=> right)
      <3>1. CASE \A r : GetRolePermissions(new, r) = GetRolePermissions(db, r)
        BY <3>1 DEF RolesGrant
      <3>2. CASE /\ GetUserPermissions(new, check.user)
                      \subseteq GetUserPermissions(db, check.user)
                 /\ \A r : GetRolePermissions(new, r) \subseteq GetRolePermissions(db, r)
        <4>1. Overrides' = {}
          BY <1>0, <2>1, <3>2, AfterChange DEF Overrides
        <4>2. ~grants(roles \ check.left)
          BY <2>1, <3>2 DEF RolesGrant
        <4>3. grants(roles) <=> grants(check.left)
          BY <1>1, <4>2
        <4> QED
          BY <1>3, <1>7, <4>1, <4>3
      <3>3. CASE /\ GetUserPermissions(new, check.user) = GetUserPermissions(db, check.user)
                 /\ \E named : \A r : r # named =>
                      GetRolePermissions(new, r) = GetRolePermissions(db, r)
        <4>1. Overrides' = {}
          BY <1>0, <2>1, <3>3, AfterChange DEF Overrides
        <4>2. PICK named : \A r : r # named =>
                GetRolePermissions(new, r) = GetRolePermissions(db, r)
          BY <3>3
        <4>3. CASE named \in check.left
          <5>1. ~grants(roles \ check.left)
            BY <2>1, <4>2, <4>3 DEF RolesGrant
          <5>2. grants(roles) <=> grants(check.left)
            BY <1>1, <5>1
          <5> QED
            BY <1>3, <1>7, <4>1, <5>2
        <4>4. CASE named \notin check.left
          BY <4>2, <4>4 DEF RolesGrant
        <4> QED
          BY <4>3, <4>4
      <3> QED
        BY <3>1, <3>2, <3>3
    <2>3. /\ right => TRUE \in check'.seen
          /\ ~right => FALSE \in check'.seen
          /\ check.seen \subseteq check'.seen
      BY <1>0, ChangeSeen
    <2> HIDE DEF right, grants
    <2> QED
      BY <1>2, <2>1, <2>2, <2>3 DEF Seen
  <1> QED
    BY <1>4, <1>5, <1>6, <1>7 DEF AnswerAhead

-----------------------------------------------------------------------------
(* Every change keeps the invariant.                                       *)

\* With the rows well formed and AnswerAhead settled, a change keeps the rest.
LEMMA ChangeKeeps ==
  ASSUME DecisionInv, NEW new \in Database, Change(new),
         \A u \in Users \ new.users :
           new.roles[u] = {} /\ \A x \in new.userPerms : x.user # u,
         \A x, y \in new.rolePerms : x.role = y.role /\ x.perm = y.perm => x = y,
         \A x, y \in new.userPerms : x.user = y.user /\ x.perm = y.perm => x = y,
         check.pc \in {"overrides", "roles"} /\ check.changes = 0 => AnswerAhead'
  PROVE  DecisionInv'
  <1>1. db' = new /\ TypeOK /\ AnswerExplained
    BY DEF Change, DecisionInv
  <1>2. CASE ~Running
    <2>1. check' = check
      BY <1>2 DEF Change
    <2>2. TypeOK'
      BY <1>1, <2>1 DEF TypeOK
    <2>3. AnswerExplained'
      BY <1>1, <2>1 DEF AnswerExplained, AnswerOfAnInstant, YesIsGranted
    <2> QED
      BY <1>2, <2>1, <2>2, <2>3
         DEF DecisionInv, Running, PresentSeen, ReadSoFar, AnswerAhead
  <1>3. CASE Running
    <2>1. TypeOK'
      BY <1>1, <1>3, ChangeSeen DEF TypeOK
    <2>2. /\ check'.pc = check.pc /\ check'.user = check.user /\ check'.perm = check.perm
          /\ check'.changes # 0 /\ (check'.changes <= 1 => check.changes = 0)
      BY <1>1, <1>3, ChangeSeen
    <2>3. PresentSeen'
      <3>1. /\ HasPermission(new, check.user, check.perm) => TRUE \in check'.seen
            /\ ~HasPermission(new, check.user, check.perm) => FALSE \in check'.seen
            /\ Granted(new, check.user, check.perm) => check'.granted
        BY <1>1, <1>3, ChangeSeen
      <3> QED
        BY <1>1, <2>2, <3>1 DEF PresentSeen, Seen
    <2>4. ReadSoFar'
      BY <2>2 DEF ReadSoFar
    <2>5. AnswerAhead'
      BY <2>2 DEF AnswerAhead
    <2>6. AnswerExplained'
      BY <1>3, <2>2 DEF Running, AnswerExplained, AnswerOfAnInstant, YesIsGranted
    <2> QED
      BY <2>1, <2>3, <2>4, <2>5, <2>6 DEF DecisionInv
  <1> QED
    BY <1>2, <1>3

LEMMA TickKeeps == DecisionInv /\ Tick => DecisionInv'
  <1> SUFFICES ASSUME DecisionInv, Tick PROVE DecisionInv'
    OBVIOUS
  <1> DEFINE new == [db EXCEPT !.now = @ + 1]
  <1>1. TypeOK /\ PresentSeen /\ ReadSoFar /\ Change(new) /\ db.now < MaxTime
    BY DEF Tick, DecisionInv
  <1>2. /\ new \in Database
        /\ new.now = db.now + 1 /\ new.users = db.users /\ new.roles = db.roles
        /\ new.rolePerms = db.rolePerms /\ new.userPerms = db.userPerms
    BY <1>1, TickRows
  <1> HIDE DEF new
  <1>3. \A x \in db.rolePerms \cup db.userPerms : Expired(x, db.now) => Expired(x, new.now)
    <2>1. db.now \in Int /\ \A x \in db.rolePerms \cup db.userPerms : x.expires \in Int
      BY <1>1, AccessAssumption
         DEF TypeOK, Database, RolePermission, UserPermission, Expiry, Never
    <2> QED
      BY <1>2, <2>1 DEF Expired
  <1>4. \A r : GetRolePermissions(new, r) \subseteq GetRolePermissions(db, r)
    BY <1>2, <1>3, RolePermissionsByRow
  <1>5. GetUserPermissions(new, check.user) \subseteq GetUserPermissions(db, check.user)
    BY <1>2, <1>3, UserPermissionsByRow
  <1>6. check.pc \in {"overrides", "roles"} /\ check.changes = 0 => AnswerAhead'
    BY <1>1, <1>2, <1>4, <1>5, AheadOfRows
  <1>7. /\ \A u \in Users \ new.users :
             new.roles[u] = {} /\ \A x \in new.userPerms : x.user # u
        /\ \A x, y \in new.rolePerms : x.role = y.role /\ x.perm = y.perm => x = y
        /\ \A x, y \in new.userPerms : x.user = y.user /\ x.perm = y.perm => x = y
    BY <1>1, <1>2 DEF TypeOK
  <1> QED
    BY <1>1, <1>2, <1>6, <1>7, ChangeKeeps

LEMMA SetRolesKeeps ==
  ASSUME DecisionInv, NEW u \in Users, NEW roles \in SUBSET Roles, SetRoles(u, roles)
  PROVE  DecisionInv'
  <1> DEFINE new == [db EXCEPT !.roles[u] = roles]
  <1>1. TypeOK /\ PresentSeen /\ ReadSoFar /\ Change(new) /\ u \in db.users
    BY DEF SetRoles, DecisionInv
  <1>2. /\ new \in Database
        /\ new.now = db.now /\ new.users = db.users
        /\ new.rolePerms = db.rolePerms /\ new.userPerms = db.userPerms
        /\ \A v \in Users \ {u} : new.roles[v] = db.roles[v]
    BY <1>1, SetRolesRows
  <1> HIDE DEF new
  <1>3. \A r : GetRolePermissions(new, r) = GetRolePermissions(db, r)
    BY <1>2 DEF GetRolePermissions
  <1>4. GetUserPermissions(new, check.user) = GetUserPermissions(db, check.user)
    BY <1>2 DEF GetUserPermissions
  <1>5. check.pc \in {"overrides", "roles"} /\ check.changes = 0 => AnswerAhead'
    BY <1>1, <1>2, <1>3, <1>4, AheadOfUsers
  <1>6. /\ \A v \in Users \ new.users :
             new.roles[v] = {} /\ \A x \in new.userPerms : x.user # v
        /\ \A x, y \in new.rolePerms : x.role = y.role /\ x.perm = y.perm => x = y
        /\ \A x, y \in new.userPerms : x.user = y.user /\ x.perm = y.perm => x = y
    BY <1>1, <1>2 DEF TypeOK
  <1> QED
    BY <1>1, <1>2, <1>5, <1>6, ChangeKeeps

LEMMA DeleteUserKeeps ==
  ASSUME DecisionInv, NEW u \in Users, DeleteUser(u)
  PROVE  DecisionInv'
  <1> DEFINE new == [db EXCEPT !.users = @ \ {u}, !.roles[u] = {},
                               !.userPerms = {x \in @ : x.user # u}]
  <1>1. TypeOK /\ PresentSeen /\ ReadSoFar /\ Change(new)
    BY DEF DeleteUser, DecisionInv
  <1>0. new = [db EXCEPT !.users = @ \ {u}, !.roles[u] = {},
                         !.userPerms = {x \in @ : x.user # u}]
    OBVIOUS
  <1> HIDE DEF new
  <1>2. /\ new \in Database
        /\ new.now = db.now /\ new.users = db.users \ {u}
        /\ new.rolePerms = db.rolePerms
        /\ new.userPerms = {x \in db.userPerms : x.user # u}
        /\ \A v \in Users : new.roles[v] = IF v = u THEN {} ELSE db.roles[v]
    BY <1>0, <1>1 DEF TypeOK, Database
  <1>3. \A r : GetRolePermissions(new, r) = GetRolePermissions(db, r)
    BY <1>2 DEF GetRolePermissions
  <1>4. ASSUME check.pc \in {"overrides", "roles"}, check.changes = 0
        PROVE  AnswerAhead'
    <2>1. check.user \in db.users
      BY <1>1, <1>4 DEF ReadSoFar
    <2>2. CASE u = check.user
      <3>1. check'.deleted
        BY <1>1, <1>2, <1>4, <2>1, <2>2, ChangeSeen DEF Running
      <3> QED
        BY <1>1, <1>2, <1>3, <1>4, <3>1, AheadOfUsers
    <2>3. CASE u # check.user
      <3>1. GetUserPermissions(new, check.user) = GetUserPermissions(db, check.user)
        BY <1>2, <2>3 DEF GetUserPermissions
      <3> QED
        BY <1>1, <1>2, <1>3, <1>4, <3>1, AheadOfUsers
    <2> QED
      BY <2>2, <2>3
  <1>5. /\ \A v \in Users \ new.users :
             new.roles[v] = {} /\ \A x \in new.userPerms : x.user # v
        /\ \A x, y \in new.rolePerms : x.role = y.role /\ x.perm = y.perm => x = y
        /\ \A x, y \in new.userPerms : x.user = y.user /\ x.perm = y.perm => x = y
    BY <1>1, <1>2 DEF TypeOK
  <1> QED
    BY <1>1, <1>2, <1>4, <1>5, ChangeKeeps

\* A role's row for one permission is put in place of another, or taken out.
LEMMA RolePermissionKeeps ==
  ASSUME DecisionInv, NEW named \in Roles, NEW p \in Perms,
         NEW added \in SUBSET RolePermission,
         \A x \in added : x.role = named /\ x.perm = p,
         \A x, y \in added : x = y,
         NEW new, new = [db EXCEPT !.rolePerms = OtherRolePerms(named, p) \cup added], Change(new)
  PROVE  DecisionInv'
  <1> DEFINE rows == OtherRolePerms(named, p) \cup added
  <1>1. TypeOK /\ PresentSeen /\ ReadSoFar /\ new = [db EXCEPT !.rolePerms = rows]
    BY DEF DecisionInv
  <1>2. rows \in SUBSET RolePermission
    BY <1>1 DEF OtherRolePerms, TypeOK, Database
  <1>3. \A x : x \in rows <=>
                (x \in db.rolePerms /\ ~(x.role = named /\ x.perm = p)) \/ x \in added
    BY DEF OtherRolePerms
  <1> HIDE DEF rows
  <1>4. /\ new \in Database
        /\ new.now = db.now /\ new.users = db.users /\ new.roles = db.roles
        /\ new.rolePerms = rows /\ new.userPerms = db.userPerms
    BY <1>1, <1>2, RolePermRows
  <1>5. GetUserPermissions(new, check.user) = GetUserPermissions(db, check.user)
    BY <1>4 DEF GetUserPermissions
  <1>6. ASSUME NEW r, r # named
        PROVE  GetRolePermissions(new, r) = GetRolePermissions(db, r)
    <2>1. \A x : x.role = r => (x \in new.rolePerms <=> x \in db.rolePerms)
      BY <1>3, <1>4, <1>6
    <2>2. new.now = db.now
      BY <1>4
    <2>3. {x \in new.rolePerms : x.role = r /\ ~Expired(x, new.now)}
          = {x \in db.rolePerms : x.role = r /\ ~Expired(x, db.now)}
      BY <2>1, <2>2
    <2> QED
      BY <2>3 DEF GetRolePermissions
  <1>7. check.pc \in {"overrides", "roles"} /\ check.changes = 0 => AnswerAhead'
    <2>1. \E n : \A r : r # n => GetRolePermissions(new, r) = GetRolePermissions(db, r)
      BY <1>6
    <2> QED
      BY <1>1, <1>4, <1>5, <2>1, AheadOfRows
  <1>8. /\ \A v \in Users \ new.users :
             new.roles[v] = {} /\ \A x \in new.userPerms : x.user # v
        /\ \A x, y \in new.userPerms : x.user = y.user /\ x.perm = y.perm => x = y
    BY <1>1, <1>4 DEF TypeOK
  <1>9. \A x, y \in rows : x.role = y.role /\ x.perm = y.perm => x = y
    BY <1>1, <1>3 DEF TypeOK
  <1> QED
    BY <1>1, <1>4, <1>7, <1>8, <1>9, ChangeKeeps

\* A user's override for one permission is put in place of another, or taken out.
LEMMA UserPermissionKeeps ==
  ASSUME DecisionInv, NEW u \in Users, NEW p \in Perms,
         NEW added \in SUBSET UserPermission,
         \A x \in added : x.user = u /\ x.perm = p,
         \A x, y \in added : x = y,
         added # {} => u \in db.users,
         NEW new, new = [db EXCEPT !.userPerms = OtherUserPerms(u, p) \cup added], Change(new)
  PROVE  DecisionInv'
  <1> DEFINE rows == OtherUserPerms(u, p) \cup added
  <1>1. TypeOK /\ PresentSeen /\ ReadSoFar /\ new = [db EXCEPT !.userPerms = rows]
    BY DEF DecisionInv
  <1>2. rows \in SUBSET UserPermission
    BY <1>1 DEF OtherUserPerms, TypeOK, Database
  <1>3. \A x : x \in rows <=>
                (x \in db.userPerms /\ ~(x.user = u /\ x.perm = p)) \/ x \in added
    BY DEF OtherUserPerms
  <1> HIDE DEF rows
  <1>4. /\ new \in Database
        /\ new.now = db.now /\ new.users = db.users /\ new.roles = db.roles
        /\ new.rolePerms = db.rolePerms /\ new.userPerms = rows
    BY <1>1, <1>2, UserPermRows
  <1>5. \A r : GetRolePermissions(new, r) = GetRolePermissions(db, r)
    BY <1>4 DEF GetRolePermissions
  <1>6. check.pc \in {"overrides", "roles"} /\ check.changes = 0 => AnswerAhead'
    BY <1>1, <1>4, <1>5, AheadOfRows
  <1>7. /\ \A v \in Users \ new.users : new.roles[v] = {} /\ \A x \in rows : x.user # v
        /\ \A x, y \in new.rolePerms : x.role = y.role /\ x.perm = y.perm => x = y
    BY <1>1, <1>3, <1>4 DEF TypeOK
  <1>8. \A x, y \in rows : x.user = y.user /\ x.perm = y.perm => x = y
    BY <1>1, <1>3 DEF TypeOK
  <1> QED
    BY <1>1, <1>4, <1>6, <1>7, <1>8, ChangeKeeps

-----------------------------------------------------------------------------
(* Every step of a call keeps the invariant.                               *)

LEMMA BeginKeeps ==
  ASSUME DecisionInv, NEW u \in Users, NEW p \in Perms, Begin(u, p)
  PROVE  DecisionInv'
  <1> DEFINE right == HasPermission(db, u, p)
             grants == Granted(db, u, p)
  <1>1. right \in BOOLEAN /\ grants \in BOOLEAN
    BY DEF HasPermission, Granted
  <1>2. db' = db /\ TypeOK
        /\ check' = [pc |-> "user", user |-> u, perm |-> p, left |-> {}, answer |-> FALSE,
                     failed |-> FALSE, seen |-> {right}, granted |-> grants,
                     changes |-> 0, deleted |-> FALSE]
    BY DEF Begin, DecisionInv
  <1>3. /\ right => TRUE \in {right}
        /\ ~right => FALSE \in {right}
    BY <1>1
  <1> HIDE DEF right, grants
  <1>4. check' \in Call
    BY <1>1, <1>2 DEF Call
  <1>5. TypeOK'
    BY <1>2, <1>4 DEF TypeOK
  <1>6. PresentSeen'
    <2>1. /\ HasPermission(db, u, p) => TRUE \in check'.seen
          /\ ~HasPermission(db, u, p) => FALSE \in check'.seen
          /\ Granted(db, u, p) => check'.granted
      BY <1>2, <1>3 DEF right, grants
    <2>2. db' = db /\ check'.user = u /\ check'.perm = p
      BY <1>2
    <2> QED
      BY <2>1, <2>2 DEF PresentSeen, Seen
  <1>7. check'.pc = "user"
    BY <1>2
  <1> QED
    BY <1>5, <1>6, <1>7 DEF DecisionInv, ReadSoFar, AnswerAhead, AnswerExplained,
                            AnswerOfAnInstant, YesIsGranted

\* An answer keeps the invariant when it is right, or excused, and when a yes was
\* granted.
LEMMA AnswerKeeps ==
  ASSUME DecisionInv, Running, UNCHANGED db, NEW b \in BOOLEAN, NEW failed \in BOOLEAN,
         Answer(b, failed),
         check.changes <= 1 /\ ~check.failed /\ ~failed /\ ~check.deleted => Seen(b),
         check.changes <= 1 /\ b => check.granted
  PROVE  DecisionInv'
  <1>1. TypeOK /\ check \in Call
    BY DEF DecisionInv, TypeOK
  <1>2. /\ check' \in Call
        /\ check'.pc = "done" /\ check'.answer = b /\ check'.seen = check.seen
        /\ check'.failed = (check.failed \/ failed) /\ check'.granted = check.granted
        /\ check'.changes = check.changes /\ check'.deleted = check.deleted
    <2> DEFINE anyFailed == check.failed \/ failed
    <2>1. anyFailed \in BOOLEAN
      OBVIOUS
    <2>2. check' = [check EXCEPT !.pc = "done", !.answer = b, !.left = {},
                                 !.failed = anyFailed]
      BY DEF Answer
    <2> HIDE DEF anyFailed
    <2>3. /\ check' \in Call
          /\ check'.pc = "done" /\ check'.answer = b /\ check'.seen = check.seen
          /\ check'.failed = anyFailed /\ check'.granted = check.granted
          /\ check'.changes = check.changes /\ check'.deleted = check.deleted
      BY <1>1, <2>1, <2>2 DEF Call
    <2> QED
      BY <2>3 DEF anyFailed
  <1>3. TypeOK'
    BY <1>1, <1>2 DEF TypeOK
  <1>4. AnswerOfAnInstant'
    <2> SUFFICES ASSUME ~check'.failed, check'.changes <= 1, ~check'.deleted
                 PROVE  check'.answer \in check'.seen
      BY DEF AnswerOfAnInstant
    <2>1. Seen(b)
      BY <1>2
    <2>2. b \in check.seen
      <3>1. CASE b = TRUE
        BY <2>1, <3>1 DEF Seen
      <3>2. CASE b = FALSE
        BY <2>1, <3>2 DEF Seen
      <3> QED
        BY <3>1, <3>2
    <2> QED
      BY <1>2, <2>2
  <1>5. YesIsGranted'
    BY <1>2 DEF YesIsGranted
  <1> QED
    BY <1>2, <1>3, <1>4, <1>5
       DEF DecisionInv, PresentSeen, Running, ReadSoFar, AnswerAhead, AnswerExplained

\* A step that reads on keeps what it does not set, so that two conjuncts are left.
LEMMA ReadOnKeeps ==
  ASSUME DecisionInv, Running, UNCHANGED db, NEW pc \in {"overrides", "roles"},
         NEW left \in SUBSET Roles, NEW failed \in BOOLEAN,
         check' = [check EXCEPT !.pc = pc, !.left = left, !.failed = failed],
         ReadSoFar', AnswerAhead'
  PROVE  DecisionInv'
  <1>1. TypeOK /\ check \in Call
    BY DEF DecisionInv, TypeOK
  <1>2. /\ check' \in Call
        /\ check'.pc = pc /\ check'.user = check.user /\ check'.perm = check.perm
        /\ check'.seen = check.seen /\ check'.granted = check.granted
    BY <1>1 DEF Call
  <1>3. TypeOK'
    BY <1>1, <1>2 DEF TypeOK
  <1>4. PresentSeen'
    BY <1>2 DEF DecisionInv, PresentSeen, Seen
  <1> QED
    BY <1>2, <1>3, <1>4 DEF DecisionInv, AnswerExplained, AnswerOfAnInstant, YesIsGranted

LEMMA ReadUserKeeps == DecisionInv /\ ReadUser => DecisionInv'
  <1> SUFFICES ASSUME DecisionInv, ReadUser PROVE DecisionInv'
    OBVIOUS
  <1>1. check.pc = "user" /\ UNCHANGED db /\ Running
    BY DEF ReadUser, Running
  <1>2. TypeOK /\ PresentSeen /\ check \in Call
    BY DEF DecisionInv, TypeOK
  <1>3. /\ Seen(HasPermission(db, check.user, check.perm))
        /\ Granted(db, check.user, check.perm) => check.granted
    BY <1>1, <1>2 DEF PresentSeen
  <1>4. CASE DbFails /\ Answer(FALSE, TRUE)
    BY <1>1, <1>4, AnswerKeeps
  <1>5. CASE check.user \notin db.users /\ Answer(FALSE, FALSE)
    <2>1. Seen(FALSE)
      BY <1>3, <1>5, HasPermissionNow DEF Seen
    <2> QED
      BY <1>1, <1>5, <2>1, AnswerKeeps
  <1>6. CASE SuperAdmin \in db.roles[check.user] /\ Answer(TRUE, FALSE)
    <2>1. check.user \in db.users
      BY <1>2, <1>6 DEF TypeOK, Call
    <2>2. HasPermission(db, check.user, check.perm) /\ Granted(db, check.user, check.perm)
      BY <1>6, <2>1, HasPermissionNow, GrantedNow
    <2>3. Seen(TRUE) /\ check.granted
      BY <1>3, <2>2 DEF Seen
    <2> QED
      BY <1>1, <1>6, <2>3, AnswerKeeps
  <1>7. CASE /\ check.user \in db.users
             /\ SuperAdmin \notin db.roles[check.user]
             /\ check' = [check EXCEPT !.pc = "overrides", !.left = db.roles[check.user]]
    <2> DEFINE roles == db.roles[check.user]
    <2>1. roles \in SUBSET Roles /\ check.failed \in BOOLEAN
      BY <1>2 DEF TypeOK, Database, Call
    <2>2. check' = [check EXCEPT !.pc = "overrides", !.left = roles,
                                 !.failed = check.failed]
      BY <1>2, <1>7 DEF Call
    <2>3. /\ check'.pc = "overrides" /\ check'.left = roles /\ check'.user = check.user
          /\ check'.perm = check.perm /\ check'.seen = check.seen
          /\ check'.granted = check.granted
      BY <1>2, <1>7 DEF Call
    <2>4. ReadSoFar'
      BY <1>1, <1>7, <2>3 DEF ReadSoFar
    <2>5. /\ RolesGrant(check.left)' <=> RolesGrant(roles)
          /\ Outlook(check.left)' <=> Outlook(roles)
      BY <1>1, <2>3 DEF RolesGrant, Outlook, Overrides
    <2>6. RolesGrant(roles) => check.granted
      BY <1>3, <1>7, GrantedNow
    <2>7. Seen(Outlook(check.left))'
      <3>1. HasPermission(db, check.user, check.perm) <=> Outlook(roles)
        BY <1>7, HasPermissionNow
      <3> QED
        BY <1>3, <2>3, <2>5, <3>1 DEF Seen
    <2>8. AnswerAhead'
      BY <2>3, <2>5, <2>6, <2>7 DEF AnswerAhead
    <2> QED
      BY <1>1, <2>1, <2>2, <2>4, <2>8, ReadOnKeeps
  <1>8. CASE /\ check.user \in db.users
             /\ check' = [check EXCEPT !.pc = "overrides", !.left = {}, !.failed = TRUE]
    <2>1. /\ check'.pc = "overrides" /\ check'.left = {} /\ check'.failed
          /\ check'.user = check.user
      BY <1>2, <1>8 DEF Call
    <2>2. ReadSoFar'
      BY <1>1, <1>8, <2>1 DEF ReadSoFar
    <2>3. AnswerAhead'
      BY <2>1 DEF AnswerAhead, RolesGrant
    <2>4. {} \in SUBSET Roles /\ TRUE \in BOOLEAN
      OBVIOUS
    <2> QED
      BY <1>1, <1>8, <2>2, <2>3, <2>4, ReadOnKeeps
  <1> QED
    BY <1>4, <1>5, <1>6, <1>7, <1>8 DEF ReadUser

LEMMA ReadOverridesKeeps == DecisionInv /\ ReadOverrides => DecisionInv'
  <1> SUFFICES ASSUME DecisionInv, ReadOverrides PROVE DecisionInv'
    OBVIOUS
  <1>1. check.pc = "overrides" /\ UNCHANGED db /\ Running
    BY DEF ReadOverrides, Running
  <1>2. /\ TypeOK /\ PresentSeen /\ ReadSoFar /\ AnswerAhead
        /\ check \in Call /\ check.left \in SUBSET Roles /\ check.failed \in BOOLEAN
    BY DEF DecisionInv, TypeOK, Call
  <1>3. Granted(db, check.user, check.perm) => check.granted
    BY <1>1, <1>2 DEF PresentSeen
  <1>4. check.changes <= 1 => /\ RolesGrant(check.left) => check.granted
                              /\ ~check.failed /\ ~check.deleted => Seen(Outlook(check.left))
    BY <1>1, <1>2 DEF AnswerAhead
  <1>5. CASE DbFails /\ check' = [check EXCEPT !.pc = "roles", !.failed = TRUE]
    <2>1. check' = [check EXCEPT !.pc = "roles", !.left = check.left, !.failed = TRUE]
      BY <1>2, <1>5 DEF Call
    <2>2. /\ check'.pc = "roles" /\ check'.left = check.left /\ check'.failed
          /\ check'.user = check.user /\ check'.perm = check.perm
          /\ check'.granted = check.granted /\ check'.changes = check.changes
      BY <1>2, <1>5 DEF Call
    <2>3. ReadSoFar'
      BY <1>1, <1>2, <2>2 DEF ReadSoFar
    <2>4. RolesGrant(check.left)' <=> RolesGrant(check.left)
      BY <1>1, <2>2 DEF RolesGrant
    <2>5. AnswerAhead'
      BY <1>4, <2>2, <2>4 DEF AnswerAhead
    <2> QED
      BY <1>1, <1>2, <2>1, <2>3, <2>5, ReadOnKeeps
  <1>6. CASE Overrides = {} /\ check' = [check EXCEPT !.pc = "roles"]
    <2>1. check' = [check EXCEPT !.pc = "roles", !.left = check.left,
                                 !.failed = check.failed]
      BY <1>2, <1>6 DEF Call
    <2>2. /\ check'.pc = "roles" /\ check'.left = check.left /\ check'.failed = check.failed
          /\ check'.user = check.user /\ check'.perm = check.perm
          /\ check'.seen = check.seen /\ check'.granted = check.granted
          /\ check'.changes = check.changes /\ check'.deleted = check.deleted
      BY <1>2, <1>6 DEF Call
    <2>3. ReadSoFar'
      <3>1. Overrides' = {}
        BY <1>1, <1>6, <2>2 DEF Overrides
      <3>2. ~RolesGrant({})'
        BY DEF RolesGrant
      <3>3. check.changes = 0 /\ ~check.failed => db.roles[check.user] \ check.left = {}
        BY <1>1, <1>2 DEF ReadSoFar
      <3> QED
        BY <1>1, <1>2, <2>2, <3>1, <3>2, <3>3 DEF ReadSoFar
    <2>4. RolesGrant(check.left)' <=> RolesGrant(check.left)
      BY <1>1, <2>2 DEF RolesGrant
    <2>5. Outlook(check.left) <=> RolesGrant(check.left)
      BY <1>6 DEF Outlook
    <2>6. AnswerAhead'
      BY <1>4, <2>2, <2>4, <2>5 DEF AnswerAhead, Seen
    <2> QED
      BY <1>1, <1>2, <2>1, <2>3, <2>6, ReadOnKeeps
  <1>7. ASSUME NEW x \in Overrides, Answer(x.granted, FALSE)
        PROVE  DecisionInv'
    <2>1. /\ x \in db.userPerms /\ x.user = check.user /\ x.perm = check.perm
          /\ \A y \in Overrides : y \in db.userPerms /\ y.user = check.user
                                  /\ y.perm = check.perm
      BY <1>7, UserPermissionsByRow DEF Overrides
    <2>2. x.granted \in BOOLEAN /\ check.user \in db.users
      BY <1>2, <2>1 DEF TypeOK, Database, UserPermission, Call
    <2>3. \A y \in Overrides : y = x
      BY <1>2, <2>1 DEF TypeOK
    <2>4. Outlook(check.left) <=> x.granted
      BY <1>7, <2>3 DEF Outlook
    <2>5. x.granted => check.granted
      BY <1>3, <1>7, <2>2, GrantedNow
    <2>6. check.changes <= 1 /\ ~check.failed /\ ~check.deleted => Seen(x.granted)
      BY <1>4, <2>4 DEF Seen
    <2> QED
      BY <1>1, <1>7, <2>2, <2>5, <2>6, AnswerKeeps
  <1>8. \/ DbFails /\ check' = [check EXCEPT !.pc = "roles", !.failed = TRUE]
        \/ Overrides = {} /\ check' = [check EXCEPT !.pc = "roles"]
        \/ \E x \in Overrides : Answer(x.granted, FALSE)
    BY DEF ReadOverrides, Overrides
  <1> QED
    BY <1>5, <1>6, <1>7, <1>8

\* A role that does not grant the permission, or that could not be read, is struck
\* off: what the rest grants is what there is to say.
LEMMA RoleStruckOff ==
  ASSUME DecisionInv, check.pc = "roles", UNCHANGED db, NEW r \in check.left,
         NEW failed \in BOOLEAN,
         check' = [check EXCEPT !.left = @ \ {r}, !.failed = failed],
         check.failed => failed,
         ~failed => check.perm \notin GetRolePermissions(db, r)
  PROVE  DecisionInv'
  <1> DEFINE left == check.left \ {r}
  <1>1. /\ TypeOK /\ ReadSoFar /\ AnswerAhead /\ Running
        /\ check \in Call /\ left \in SUBSET Roles
    BY DEF DecisionInv, TypeOK, Call, Running
  <1>2. check' = [check EXCEPT !.pc = "roles", !.left = left, !.failed = failed]
    BY <1>1 DEF Call
  <1>3. /\ check'.pc = "roles" /\ check'.left = left /\ check'.failed = failed
        /\ check'.user = check.user /\ check'.perm = check.perm
        /\ check'.seen = check.seen /\ check'.granted = check.granted
        /\ check'.changes = check.changes /\ check'.deleted = check.deleted
    BY <1>1 DEF Call
  <1>4. RolesGrant(check.left)' <=> RolesGrant(left)
    BY <1>3 DEF RolesGrant
  <1>5. RolesGrant(left) => RolesGrant(check.left)
    BY MoreRolesGrantMore
  <1>6. ~failed => (RolesGrant(left) <=> RolesGrant(check.left))
    BY DEF RolesGrant
  <1>7. ReadSoFar'
    <2> SUFFICES ASSUME check.changes = 0
                 PROVE  ReadSoFar'
      BY <1>3 DEF ReadSoFar
    <2>1. /\ check.user \in db.users /\ check.left \subseteq db.roles[check.user]
          /\ ~check.failed => /\ SuperAdmin \notin db.roles[check.user]
                              /\ Overrides = {}
                              /\ ~RolesGrant(db.roles[check.user] \ check.left)
      BY <1>1 DEF ReadSoFar
    <2>2. ~failed => ~\E s \in db.roles[check.user] \ left :
                        check.perm \in GetRolePermissions(db, s)
      BY <2>1 DEF RolesGrant
    <2>3. Overrides' = Overrides
      BY <1>3 DEF Overrides
    <2> QED
      BY <1>3, <2>1, <2>2, <2>3 DEF ReadSoFar, RolesGrant
  <1>8. AnswerAhead'
    <2>1. check.changes <= 1 =>
            /\ RolesGrant(check.left) => check.granted
            /\ ~check.failed /\ ~check.deleted => Seen(RolesGrant(check.left))
      BY <1>1 DEF AnswerAhead
    <2> HIDE DEF left
    <2>2. check.changes <= 1 /\ ~failed /\ ~check.deleted => Seen(RolesGrant(check.left))'
      BY <1>3, <1>4, <1>6, <2>1 DEF Seen
    <2> QED
      BY <1>3, <1>4, <1>5, <2>1, <2>2 DEF AnswerAhead
  <1> QED
    BY <1>1, <1>2, <1>7, <1>8, ReadOnKeeps

LEMMA ReadRoleKeeps == DecisionInv /\ ReadRole => DecisionInv'
  <1> SUFFICES ASSUME DecisionInv, ReadRole PROVE DecisionInv'
    OBVIOUS
  <1>1. /\ check.pc = "roles" /\ UNCHANGED db /\ Running
        /\ check \in Call /\ check.failed \in BOOLEAN
    BY DEF ReadRole, Running, DecisionInv, TypeOK, Call
  <1>2. check.changes <= 1 =>
          /\ RolesGrant(check.left) => check.granted
          /\ ~check.failed /\ ~check.deleted => Seen(RolesGrant(check.left))
    BY <1>1 DEF DecisionInv, AnswerAhead
  <1>3. CASE check.left = {} /\ Answer(FALSE, FALSE)
    <2>1. ~RolesGrant(check.left)
      BY <1>3 DEF RolesGrant
    <2>2. check.changes <= 1 /\ ~check.failed /\ ~check.deleted => Seen(FALSE)
      BY <1>2, <2>1 DEF Seen
    <2> QED
      BY <1>1, <1>3, <2>2, AnswerKeeps
  <1>4. ASSUME NEW r \in check.left, DbFails,
               check' = [check EXCEPT !.left = @ \ {r}, !.failed = TRUE]
        PROVE  DecisionInv'
    BY <1>1, <1>4, RoleStruckOff
  <1>5. ASSUME NEW r \in check.left, check.perm \in GetRolePermissions(db, r),
               Answer(TRUE, FALSE)
        PROVE  DecisionInv'
    <2>1. RolesGrant(check.left)
      BY <1>5 DEF RolesGrant
    <2>2. check.changes <= 1 => /\ check.granted
                                /\ ~check.failed /\ ~check.deleted => Seen(TRUE)
      BY <1>2, <2>1 DEF Seen
    <2> QED
      BY <1>1, <1>5, <2>2, AnswerKeeps
  <1>6. ASSUME NEW r \in check.left, check.perm \notin GetRolePermissions(db, r),
               check' = [check EXCEPT !.left = @ \ {r}]
        PROVE  DecisionInv'
    <2>1. check' = [check EXCEPT !.left = @ \ {r}, !.failed = check.failed]
      BY <1>1, <1>6 DEF Call
    <2> QED
      BY <1>1, <1>6, <2>1, RoleStruckOff
  <1> QED
    BY <1>3, <1>4, <1>5, <1>6 DEF ReadRole

-----------------------------------------------------------------------------
(* The invariant, and the properties it holds.                             *)

LEMMA DecisionInit == Init => DecisionInv
  <1> SUFFICES ASSUME Init PROVE DecisionInv
    OBVIOUS
  <1>1. db \in Database
    BY AccessAssumption DEF Init, Database
  <1>2. check \in Call /\ check.pc = "idle"
    <2>1. check \in [pc : {"idle"}, user : Users, perm : Perms, left : {{}}, answer : {FALSE},
                     failed : {FALSE}, seen : {{}}, granted : {FALSE}, changes : {0},
                     deleted : {FALSE}]
      BY DEF Init
    <2>2. /\ {{}} \subseteq SUBSET Roles /\ {{}} \subseteq SUBSET BOOLEAN
          /\ {FALSE} \subseteq BOOLEAN /\ {0} \subseteq 0 .. 2
      OBVIOUS
    <2> QED
      BY <2>1, <2>2 DEF Call
  <1>3. TypeOK
    BY <1>1, <1>2 DEF TypeOK, Init
  <1> QED
    BY <1>2, <1>3 DEF DecisionInv, PresentSeen, Running, ReadSoFar, AnswerAhead,
                      AnswerExplained, AnswerOfAnInstant, YesIsGranted

LEMMA DecisionStep == DecisionInv /\ [Next]_vars => DecisionInv'
  <1> SUFFICES ASSUME DecisionInv, [Next]_vars PROVE DecisionInv'
    OBVIOUS
  <1>1. ASSUME NEW r \in Roles, NEW p \in Perms, RevokeRolePermission(r, p)
        PROVE  DecisionInv'
    <2>1. Change([db EXCEPT !.rolePerms = OtherRolePerms(r, p) \cup {}])
      <3>1. OtherRolePerms(r, p) \cup {} = OtherRolePerms(r, p)
        OBVIOUS
      <3> QED
        BY <1>1, <3>1 DEF RevokeRolePermission
    <2> QED
      BY <2>1, RolePermissionKeeps
  <1>2. ASSUME NEW r \in Roles, NEW p \in Perms, NEW e \in Expiry,
               GrantRolePermission(r, p, e)
        PROVE  DecisionInv'
    <2> DEFINE row == [role |-> r, perm |-> p, expires |-> e]
    <2>1. row \in RolePermission /\ row.role = r /\ row.perm = p
      BY DEF RolePermission
    <2>2. Change([db EXCEPT !.rolePerms = OtherRolePerms(r, p) \cup {row}])
      BY <1>2 DEF GrantRolePermission
    <2> HIDE DEF row
    <2> QED
      BY <2>1, <2>2, RolePermissionKeeps
  <1>3. ASSUME NEW u \in Users, NEW p \in Perms, RevokeUserPermission(u, p)
        PROVE  DecisionInv'
    <2>1. Change([db EXCEPT !.userPerms = OtherUserPerms(u, p) \cup {}])
      <3>1. OtherUserPerms(u, p) \cup {} = OtherUserPerms(u, p)
        OBVIOUS
      <3> QED
        BY <1>3, <3>1 DEF RevokeUserPermission
    <2> QED
      BY <2>1, UserPermissionKeeps
  <1>4. ASSUME NEW u \in Users, NEW p \in Perms, NEW g \in BOOLEAN, NEW e \in Expiry,
               GrantUserPermission(u, p, g, e)
        PROVE  DecisionInv'
    <2> DEFINE row == [user |-> u, perm |-> p, granted |-> g, expires |-> e]
    <2>1. row \in UserPermission /\ row.user = u /\ row.perm = p
      BY DEF UserPermission
    <2>2. /\ u \in db.users
          /\ Change([db EXCEPT !.userPerms = OtherUserPerms(u, p) \cup {row}])
      BY <1>4 DEF GrantUserPermission
    <2> HIDE DEF row
    <2> QED
      BY <2>1, <2>2, UserPermissionKeeps
  <1>5. CASE UNCHANGED vars
    <2>1. TypeOK'
      BY <1>5 DEF DecisionInv, TypeOK, vars
    <2>2. PresentSeen'
      BY <1>5 DEF DecisionInv, PresentSeen, Seen, Running, vars
    <2>3. ReadSoFar'
      BY <1>5 DEF DecisionInv, ReadSoFar, Overrides, RolesGrant, vars
    <2>4. AnswerAhead'
      BY <1>5 DEF DecisionInv, AnswerAhead, Outlook, Overrides, RolesGrant, Seen, vars
    <2>5. AnswerExplained'
      BY <1>5 DEF DecisionInv, AnswerExplained, AnswerOfAnInstant, YesIsGranted, vars
    <2> QED
      BY <2>1, <2>2, <2>3, <2>4, <2>5 DEF DecisionInv
  <1> QED
    BY <1>1, <1>2, <1>3, <1>4, <1>5, TickKeeps, SetRolesKeeps, DeleteUserKeeps,
       BeginKeeps, ReadUserKeeps, ReadOverridesKeeps, ReadRoleKeeps DEF Next

\* DecisionInv holds in every reachable state: whatever administrators change
\* between the queries of a call of HasPermission, and whichever queries fail.
THEOREM DecisionInvariant == Spec => []DecisionInv
  <1> QED
    BY DecisionInit, DecisionStep, PTL DEF Spec

\* The rows stay well formed: one per role and permission and per user and
\* permission, and none for a user that is gone.
THEOREM TypeCorrect == Spec => []TypeOK
  <1>1. DecisionInv => TypeOK
    BY DEF DecisionInv
  <1> QED
    BY <1>1, DecisionInvariant, PTL

\* HasPermission answers what was right at some instant of the call, and yes only
\* to what was granted then, as AnswerExplained says, for any sizes.
THEOREM AnswersAlwaysExplained == Spec => []AnswerExplained
  <1>1. DecisionInv => AnswerExplained
    BY DEF DecisionInv
  <1> QED
    BY <1>1, DecisionInvariant, PTL

\* The list the client is given, HasPermission and the middleware agree on every
\* state of the rows that can be reached.
THEOREM DecisionsAlwaysAgree == Spec => []DecisionsAgree
  <1>1. TypeOK => DecisionsAgree
    BY ComputedAgreesFromRows, RouteAdmitsFromRows DEF DecisionsAgree
  <1> QED
    BY <1>1, TypeCorrect, PTL

=============================================================================
