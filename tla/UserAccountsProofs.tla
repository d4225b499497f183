------------------------- MODULE UserAccountsProofs -------------------------
(***************************************************************************)
(* Proofs about UserAccounts for any sets of ids, emails, roles,           *)
(* permissions and calls, with or without failures.  AccountsInv is the    *)
(* inductive invariant; each of its parts has a lemma with one step per    *)
(* action.  A step changes the state of one call, which EndsType and       *)
(* GoesType state for the steps that answer a request or go on with it.    *)
(***************************************************************************)
EXTENDS UserAccounts, TLAPS

\* A call begins: only its own state changes, to the request that was made.
LEMMA RequestType ==
  ASSUME TypeOK, NEW c \in Calls, NEW r \in CallState, call' = [call EXCEPT ![c] = r]
  PROVE  /\ call' \in [Calls -> CallState] /\ call'[c] = r
         /\ \A d \in Calls : d # c => call'[d] = call[d]
  BY DEF TypeOK

\* An answer keeps what a call is about and forgets what it was to write.
LEMMA EndsType ==
  ASSUME TypeOK, NEW c \in Calls, NEW pc \in {"done", "rejected", "failed"}, Ends(c, pc)
  PROVE  /\ call' \in [Calls -> CallState]
         /\ call'[c].pc = pc /\ call'[c].kind = call[c].kind
         /\ call'[c].id = call[c].id /\ call'[c].actor = call[c].actor
         /\ call'[c].perm = call[c].perm
         /\ \A d \in Calls : d # c => call'[d] = call[d]
  <1> DEFINE r == [call[c] EXCEPT !.pc = pc, !.email = Nobody, !.cols = Unset,
                                  !.roles = {}, !.twice = FALSE]
  <1>1. call' = [call EXCEPT ![c] = r]
    BY DEF Ends
  <1>2. call[c] \in CallState /\ Unset \in Columns
    BY DEF TypeOK, Unset, Columns
  <1>3. /\ r \in CallState /\ r.pc = pc /\ r.kind = call[c].kind /\ r.id = call[c].id
        /\ r.actor = call[c].actor /\ r.perm = call[c].perm
    BY <1>2 DEF CallState
  <1> HIDE DEF r
  <1> QED
    BY <1>1, <1>3, RequestType

\* A call that goes on changes its phase alone.
LEMMA GoesType ==
  ASSUME TypeOK, NEW c \in Calls, NEW pc \in {"insert", "clear", "roles", "log"}, Goes(c, pc)
  PROVE  /\ call' \in [Calls -> CallState]
         /\ call'[c] = [call[c] EXCEPT !.pc = pc]
         /\ call'[c].pc = pc /\ call'[c].kind = call[c].kind
         /\ call'[c].id = call[c].id /\ call'[c].actor = call[c].actor
         /\ call'[c].perm = call[c].perm /\ call'[c].cols = call[c].cols
         /\ call'[c].roles = call[c].roles /\ call'[c].email = call[c].email
         /\ \A d \in Calls : d # c => call'[d] = call[d]
  BY DEF Goes, TypeOK, CallState

\* A request is well formed when it names an actor and a user that are.
LEMMA RequestState ==
  ASSUME TypeOK, NEW c \in Calls,
         NEW pc \in {"email", "insert", "readRoles", "update", "delete", "change", "rejected"},
         NEW kind \in {"create", "update", "seed", "delete", "grant", "deny", "revoke"},
         NEW actor \in Ids \cup {Nobody}, NEW u \in Ids \cup {Nobody}
  PROVE  /\ Request(c, pc, kind, actor, u) \in CallState
         /\ Request(c, pc, kind, actor, u).pc = pc
         /\ Request(c, pc, kind, actor, u).kind = kind
         /\ Request(c, pc, kind, actor, u).actor = actor
         /\ Request(c, pc, kind, actor, u).id = u
  <1>1. call[c] \in CallState
    BY DEF TypeOK
  <1>2. /\ pc \in {"idle", "email", "insert", "readRoles", "update", "clear", "roles",
                   "delete", "change", "log", "done", "rejected", "failed"}
    OBVIOUS
  <1>3. [call[c] EXCEPT !.pc = pc, !.kind = kind] \in CallState
    BY <1>1, <1>2 DEF CallState
  <1>4. Request(c, pc, kind, actor, u) \in CallState
    BY <1>3 DEF Request, CallState
  <1> QED
    BY <1>1, <1>4 DEF Request, CallState

\* What a request is about, whatever it is.
LEMMA RequestFields ==
  ASSUME TypeOK, NEW c \in Calls, NEW pc, NEW kind, NEW actor, NEW u
  PROVE  /\ Request(c, pc, kind, actor, u).pc = pc
         /\ Request(c, pc, kind, actor, u).kind = kind
         /\ Request(c, pc, kind, actor, u).actor = actor
         /\ Request(c, pc, kind, actor, u).id = u
  BY DEF Request, TypeOK, CallState

\* The columns a call chooses itself, and those an update takes over.
LEMMA ColumnsType ==
  ASSUME TypeOK, NEW c \in Calls
  PROVE  /\ [g \in Groups |-> c] \in Columns
         /\ \A u \in DOMAIN account :
              /\ account[u] \in [email : Emails, cols : Columns]
              /\ [account[u].cols EXCEPT !["password"] = c] \in Columns
              /\ \A sets \in SUBSET {"profile"} :
                   [g \in Groups |-> IF g \in sets THEN c ELSE account[u].cols[g]] \in Columns
  <1>1. ASSUME NEW u \in DOMAIN account PROVE account[u].cols \in Columns
    BY DEF TypeOK
  <1> QED
    BY <1>1 DEF Columns, TypeOK

-----------------------------------------------------------------------------
(* The types.                                                              *)

\* The phases name users of the right type, which is what the rows refer to.
LEMMA TypeStep == AccountsInv /\ [Next]_vars => TypeOK'
  <1> SUFFICES ASSUME AccountsInv, [Next]_vars PROVE TypeOK'
    OBVIOUS
  <1>0. TypeOK /\ PhasesOK
    BY DEF AccountsInv
  <1>1. ASSUME NEW r \in Roles, CreateRole(r) PROVE TypeOK'
    BY <1>0, <1>1 DEF CreateRole, TypeOK, history
  <1>2. ASSUME NEW c \in Calls, BeginCreate(c) PROVE TypeOK'
    <2>1. PICK actor \in DOMAIN account, e \in Emails, roles \in (SUBSET Roles) \ {{}},
               twice \in BOOLEAN :
            /\ roles \subseteq roleRows \/ roleRows = {} \/ DbFails
            /\ call' = [call EXCEPT ![c] =
                     [Request(c, "email", "create", actor, Nobody)
                        EXCEPT !.email = e, !.roles = roles, !.twice = twice,
                               !.cols = [g \in Groups |-> c]]]
      BY <1>2 DEF BeginCreate
    <2>2. [Request(c, "email", "create", actor, Nobody)
             EXCEPT !.email = e, !.roles = roles, !.twice = twice,
                    !.cols = [g \in Groups |-> c]] \in CallState
      <3>1. actor \in Ids
        BY <1>0 DEF TypeOK
      <3>2. Request(c, "email", "create", actor, Nobody) \in CallState
        BY <1>0, <3>1, RequestState
      <3> QED
        BY <1>0, <3>2, ColumnsType DEF CallState
    <2> QED
      BY <1>0, <1>2, <2>1, <2>2, RequestType DEF BeginCreate, TypeOK, tables, history
  <1>3. ASSUME NEW c \in Calls, CheckEmail(c) PROVE TypeOK'
    <2>1. call' \in [Calls -> CallState]
      BY <1>0, <1>3, EndsType, GoesType DEF CheckEmail
    <2> QED
      BY <1>0, <1>3, <2>1 DEF CheckEmail, TypeOK, tables, history
  <1>4. ASSUME NEW c \in Calls, InsertUser(c) PROVE TypeOK'
    <2>1. CASE Ends(c, "failed") /\ UNCHANGED <<account, issued>>
      BY <1>0, <1>4, <2>1, EndsType DEF InsertUser, TypeOK, history
    <2>2. ASSUME NEW u \in Ids \ issued, NewAccount(c, u) PROVE TypeOK'
      <3>1. call[c].email \in Emails /\ call[c].cols \in Columns
        BY <1>0, <1>4 DEF InsertUser, PhasesOK, PhaseOK, TypeOK, CallState
      <3>2. /\ account' \in [DOMAIN account' -> [email : Emails, cols : Columns]]
            /\ DOMAIN account' \subseteq issued' /\ issued' \subseteq Ids
        <4>1. /\ DOMAIN account' = DOMAIN account \cup {u}
              /\ account'[u] = [email |-> call[c].email, cols |-> call[c].cols]
              /\ \A v \in DOMAIN account : v # u => account'[v] = account[v]
              /\ account' = [v \in DOMAIN account' |-> account'[v]]
          BY <2>2 DEF NewAccount
        <4>2. [email |-> call[c].email, cols |-> call[c].cols] \in [email : Emails, cols : Columns]
          BY <3>1
        <4>3. \A v \in DOMAIN account : account[v] \in [email : Emails, cols : Columns]
          BY <1>0, ColumnsType
        <4>4. \A v \in DOMAIN account' : account'[v] \in [email : Emails, cols : Columns]
          BY <4>1, <4>2, <4>3
        <4> QED
          BY <1>0, <2>2, <4>1, <4>4 DEF NewAccount, TypeOK
      <3>3. call' \in [Calls -> CallState]
        <4>1. call[c] \in CallState
          BY <1>0 DEF TypeOK
        <4>2. [call[c] EXCEPT !.pc = "roles", !.id = u] \in CallState
          BY <4>1 DEF CallState
        <4>3. call' = [call EXCEPT ![c] = [call[c] EXCEPT !.pc = "roles", !.id = u]]
          BY <1>0, <2>2 DEF NewAccount, TypeOK
        <4> QED
          BY <1>0, <4>2, <4>3, RequestType
      <3> QED
        BY <1>0, <1>4, <3>2, <3>3 DEF InsertUser, TypeOK, history
    <2> QED
      BY <1>4, <2>1, <2>2 DEF InsertUser
  <1>5. ASSUME NEW c \in Calls, BeginUpdate(c) PROVE TypeOK'
    <2>1. PICK actor \in DOMAIN account, u \in issued, roles \in SUBSET Roles,
               twice \in BOOLEAN, sets \in SUBSET {"profile"} :
            /\ twice => roles # {}
            /\ call' = [call EXCEPT ![c] =
              IF Exists(u)
                THEN [Request(c, "readRoles", "update", actor, u)
                        EXCEPT !.roles = roles, !.twice = twice,
                               !.cols = [g \in Groups |-> IF g \in sets THEN c
                                                          ELSE account[u].cols[g]]]
                ELSE Request(c, "rejected", "update", actor, u)]
      BY <1>5 DEF BeginUpdate
    <2>2. actor \in Ids /\ u \in Ids
      BY <1>0 DEF TypeOK
    <2> DEFINE kept == [g \in Groups |-> IF g \in sets THEN c ELSE account[u].cols[g]]
    <2>3. Exists(u) => kept \in Columns
      BY <1>0, ColumnsType DEF Exists
    <2>4. call' \in [Calls -> CallState]
      <3>1. /\ Request(c, "readRoles", "update", actor, u) \in CallState
            /\ Request(c, "rejected", "update", actor, u) \in CallState
        BY <1>0, <2>2, RequestState
      <3>2. CASE Exists(u)
        <4>1. kept \in Columns
          BY <2>3, <3>2
        <4> HIDE DEF kept
        <4>2. [Request(c, "readRoles", "update", actor, u)
                 EXCEPT !.roles = roles, !.twice = twice, !.cols = kept] \in CallState
          BY <3>1, <4>1 DEF CallState
        <4> QED
          BY <1>0, <2>1, <3>2, <4>2, RequestType DEF kept
      <3>3. CASE ~Exists(u)
        BY <1>0, <2>1, <3>1, <3>3, RequestType
      <3> QED
        BY <3>2, <3>3
    <2> QED
      BY <1>0, <1>5, <2>4 DEF BeginUpdate, TypeOK, tables, history
  <1>6. ASSUME NEW c \in Calls, ReadRoles(c) PROVE TypeOK'
    <2>1. PICK found \in {RolesOf(call[c].id)} \cup (IF DbFails THEN {{}} ELSE {}) :
            /\ call' = [call EXCEPT ![c].pc = "update",
                                    ![c].roles = IF @ # {} THEN @ ELSE found]
            /\ exposed' = exposed \cup {call[c].id} \/ exposed' = exposed
      BY <1>6 DEF ReadRoles
    <2>2. found \in SUBSET Roles /\ call[c].id \in Ids
      BY <1>0, <1>6 DEF RolesOf, TypeOK, PhasesOK, PhaseOK, ReadRoles
    <2>3. call' \in [Calls -> CallState]
      <3>1. call[c] \in CallState
        BY <1>0 DEF TypeOK
      <3>2. [call[c] EXCEPT !.pc = "update", !.roles = IF @ # {} THEN @ ELSE found]
              \in CallState
        BY <2>2, <3>1 DEF CallState
      <3>3. call' = [call EXCEPT ![c] =
                [call[c] EXCEPT !.pc = "update", !.roles = IF @ # {} THEN @ ELSE found]]
        BY <1>0, <2>1 DEF TypeOK
      <3> QED
        BY <1>0, <3>2, <3>3, RequestType
    <2> QED
      BY <1>0, <1>6, <2>1, <2>2, <2>3 DEF ReadRoles, TypeOK, tables
  <1>7. ASSUME NEW c \in Calls, WriteUser(c) PROVE TypeOK'
    <2>1. CASE Ends(c, "failed") /\ UNCHANGED <<account, disturbed>>
      BY <1>0, <1>7, <2>1, EndsType DEF WriteUser, TypeOK
    <2>2. CASE Goes(c, "clear") /\ Disturb(c, call[c].id, AccountKinds)
      <3>1. /\ account' \in [DOMAIN account' -> [email : Emails, cols : Columns]]
            /\ DOMAIN account' = DOMAIN account
        BY <1>0, <1>7, <2>2 DEF WriteUser, TypeOK, CallState
      <3> QED
        BY <1>0, <1>7, <2>2, <3>1, GoesType DEF WriteUser, Disturb, TypeOK
    <2> QED
      BY <1>7, <2>1, <2>2 DEF WriteUser
  <1>8. ASSUME NEW c \in Calls, ClearRoles(c) PROVE TypeOK'
    <2>1. call' \in [Calls -> CallState]
      BY <1>0, <1>8, EndsType, GoesType DEF ClearRoles
    <2> QED
      BY <1>0, <1>8, <2>1 DEF ClearRoles, Disturb, TypeOK
  <1>9. ASSUME NEW c \in Calls, InsertRoles(c) PROVE TypeOK'
    <2>1. call' \in [Calls -> CallState]
      BY <1>0, <1>9, EndsType DEF InsertRoles
    <2>2. call[c].id \in Ids /\ call[c].actor \in Ids \cup {Nobody} /\ call[c].roles \subseteq Roles
      BY <1>0, <1>9 DEF InsertRoles, PhasesOK, PhaseOK, TypeOK, CallState
    <2> QED
      BY <1>0, <1>9, <2>1, <2>2 DEF InsertRoles, Disturb, TypeOK
  <1>10. ASSUME NEW c \in Calls, BeginSeed(c) PROVE TypeOK'
    <2>1. call' \in [Calls -> CallState]
      <3>1. ASSUME NEW u \in DOMAIN account,
                   call' = [call EXCEPT ![c] =
                     [Request(c, "update", "seed", Nobody, u)
                        EXCEPT !.roles = {SuperAdmin},
                               !.cols = [account[u].cols EXCEPT !["password"] = c]]]
            PROVE  call' \in [Calls -> CallState]
        <4> DEFINE kept == [account[u].cols EXCEPT !["password"] = c]
        <4>1. kept \in Columns
          BY <1>0, ColumnsType
        <4> HIDE DEF kept
        <4>2. Request(c, "update", "seed", Nobody, u) \in CallState
          <5> DEFINE seeder == Nobody
          <5>1. u \in Ids \cup {Nobody} /\ seeder \in Ids \cup {Nobody}
            BY <1>0 DEF TypeOK
          <5> HIDE DEF seeder
          <5>2. Request(c, "update", "seed", seeder, u) \in CallState
            BY <1>0, <5>1, RequestState
          <5> QED
            BY <5>2 DEF seeder
        <4>3. [Request(c, "update", "seed", Nobody, u)
                 EXCEPT !.roles = {SuperAdmin}, !.cols = kept] \in CallState
          BY <4>1, <4>2, UserAccountsAssumption DEF CallState
        <4> QED
          BY <1>0, <3>1, <4>3, RequestType DEF kept
      <3>2. ASSUME NEW e \in Emails,
                   call' = [call EXCEPT ![c] =
                     [Request(c, "insert", "seed", Nobody, Nobody)
                        EXCEPT !.email = e, !.roles = {SuperAdmin},
                               !.cols = [g \in Groups |-> c]]]
            PROVE  call' \in [Calls -> CallState]
        <4> DEFINE own == [g \in Groups |-> c]
        <4>1. own \in Columns
          BY <1>0, ColumnsType
        <4>2. Request(c, "insert", "seed", Nobody, Nobody) \in CallState
          BY <1>0, RequestState
        <4> HIDE DEF own
        <4>3. [Request(c, "insert", "seed", Nobody, Nobody)
                 EXCEPT !.email = e, !.roles = {SuperAdmin}, !.cols = own] \in CallState
          BY <4>1, <4>2, UserAccountsAssumption DEF CallState
        <4> QED
          BY <1>0, <3>2, <4>3, RequestType DEF own
      <3> QED
        BY <1>10, <3>1, <3>2 DEF BeginSeed
    <2> QED
      BY <1>0, <1>10, <2>1 DEF BeginSeed, TypeOK, tables, history
  <1>11. ASSUME NEW c \in Calls, BeginDelete(c) PROVE TypeOK'
    <2>1. call' \in [Calls -> CallState]
      <3>1. PICK actor \in DOMAIN account, u \in issued :
              call' = [call EXCEPT ![c] =
                Request(c, IF Exists(u) THEN "delete" ELSE "rejected", "delete", actor, u)]
        BY <1>11 DEF BeginDelete
      <3>2. actor \in Ids /\ u \in Ids
        BY <1>0 DEF TypeOK
      <3>3. Request(c, IF Exists(u) THEN "delete" ELSE "rejected", "delete", actor, u)
              \in CallState
        BY <1>0, <3>2, RequestState
      <3> QED
        BY <1>0, <3>1, <3>3, RequestType
    <2> QED
      BY <1>0, <1>11, <2>1 DEF BeginDelete, TypeOK, tables, history
  <1>12. ASSUME NEW c \in Calls, DeleteUser(c) PROVE TypeOK'
    <2>1. call' \in [Calls -> CallState]
      BY <1>0, <1>12, EndsType DEF DeleteUser, Remove
    <2>2. /\ userRoles' \subseteq [user : Ids, role : Roles, by : Ids \cup {Nobody}]
          /\ userPerms' \subseteq [user : Ids, perm : Permissions, granted : BOOLEAN,
                                   by : Ids \cup {Nobody}]
      BY <1>0, <1>12 DEF DeleteUser, Remove, Forget, TypeOK
    <2>3. /\ account' \in [DOMAIN account' -> [email : Emails, cols : Columns]]
          /\ DOMAIN account' \subseteq issued
      BY <1>0, <1>12 DEF DeleteUser, Remove, TypeOK
    <2> QED
      BY <1>0, <1>12, <2>1, <2>2, <2>3 DEF DeleteUser, Remove, Disturb, TypeOK
  <1>13. ASSUME NEW c \in Calls, BeginChange(c) PROVE TypeOK'
    <2>1. call' \in [Calls -> CallState]
      <3>1. PICK actor \in DOMAIN account, u \in issued, p \in Permissions,
                  kind \in ChangeKinds :
              call' = [call EXCEPT ![c] =
                         [Request(c, "change", kind, actor, u) EXCEPT !.perm = p]]
        BY <1>13 DEF BeginChange
      <3>2. actor \in Ids /\ u \in Ids
        BY <1>0 DEF TypeOK
      <3>3. Request(c, "change", kind, actor, u) \in CallState
        BY <1>0, <3>2, RequestState DEF ChangeKinds
      <3>4. [Request(c, "change", kind, actor, u) EXCEPT !.perm = p] \in CallState
        BY <3>3 DEF CallState
      <3> QED
        BY <1>0, <3>1, <3>4, RequestType
    <2> QED
      BY <1>0, <1>13, <2>1 DEF BeginChange, TypeOK, tables, history
  <1>14. ASSUME NEW c \in Calls, ChangeRow(c) PROVE TypeOK'
    <2>1. call' \in [Calls -> CallState]
      BY <1>0, <1>14, EndsType, GoesType DEF ChangeRow
    <2>2. call[c].id \in Ids /\ call[c].actor \in Ids /\ call[c].perm \in Permissions
      BY <1>0, <1>14 DEF ChangeRow, PhasesOK, PhaseOK, TypeOK
    <2> QED
      <3>1. userPerms' \subseteq [user : Ids, perm : Permissions, granted : BOOLEAN,
                                  by : Ids \cup {Nobody}]
        <4>1. OtherPerms(c) \subseteq userPerms
          BY DEF OtherPerms
        <4>2. [user |-> call[c].id, perm |-> call[c].perm,
               granted |-> call[c].kind = "grant", by |-> call[c].actor]
                \in [user : Ids, perm : Permissions, granted : BOOLEAN, by : Ids \cup {Nobody}]
          BY <2>2
        <4> QED
          BY <1>0, <1>14, <4>1, <4>2 DEF ChangeRow, TypeOK
      <3> QED
        BY <1>0, <1>14, <2>1, <3>1 DEF ChangeRow, Disturb, TypeOK
  <1>15. ASSUME NEW c \in Calls, WriteLog(c) PROVE TypeOK'
    <2>1. call' \in [Calls -> CallState]
      BY <1>0, <1>15, EndsType DEF WriteLog
    <2>2. call[c].id \in Ids /\ call[c].actor \in Ids /\ call[c].perm \in Permissions
      BY <1>0, <1>15 DEF WriteLog, PhasesOK, PhaseOK, TypeOK
    <2> QED
      BY <1>0, <1>15, <2>1, <2>2 DEF WriteLog, Entry, TypeOK
  <1>16. CASE UNCHANGED vars
    BY <1>0, <1>16 DEF TypeOK, vars
  <1> QED
    BY <1>1, <1>2, <1>3, <1>4, <1>5, <1>6, <1>7, <1>8, <1>9, <1>10, <1>11, <1>12, <1>13,
       <1>14, <1>15, <1>16 DEF Next, CallStep

-----------------------------------------------------------------------------
(* The keys.                                                               *)

\* The steps that change the accounts: an insertion, an update of one row and a
\* deletion.
LEMMA AccountStep ==
  ASSUME AccountsInv, [Next]_vars
  PROVE  \/ UNCHANGED account
         \/ \E c \in Calls, u \in Ids \ issued :
              /\ call[c].pc = "insert" /\ ~EmailTaken(call[c].email) /\ NewAccount(c, u)
              /\ UNCHANGED <<roleRows, userRoles, userPerms, log, history>>
         \/ \E c \in Calls : WriteUser(c) /\ DOMAIN account' = DOMAIN account
         \/ \E c \in Calls : /\ call[c].pc = "delete" /\ ~Auditor(call[c].id)
                             /\ Remove(c, call[c].id)
                             /\ UNCHANGED <<roleRows, log, issued, swallowed, exposed, unlogged>>
  BY DEF Next, CallStep, vars, tables, CreateRole, BeginCreate, CheckEmail, InsertUser,
         BeginUpdate, ReadRoles, WriteUser, ClearRoles, InsertRoles, BeginSeed,
         BeginDelete, DeleteUser, BeginChange, ChangeRow, WriteLog

\* UNIQUE (email): an account keeps its email, and a new one takes a free one.
LEMMA EmailStep == AccountsInv /\ [Next]_vars => EmailIdentifies'
  <1> SUFFICES ASSUME AccountsInv, [Next]_vars PROVE EmailIdentifies'
    OBVIOUS
  <1>0. TypeOK /\ EmailIdentifies
    BY DEF AccountsInv, KeysHold
  <1>1. CASE UNCHANGED account
    BY <1>0, <1>1 DEF EmailIdentifies
  <1>2. ASSUME NEW c \in Calls, NEW u \in Ids \ issued, ~EmailTaken(call[c].email),
               NewAccount(c, u)
        PROVE  EmailIdentifies'
    BY <1>0, <1>2 DEF NewAccount, EmailTaken, EmailIdentifies
  <1>3. ASSUME NEW c \in Calls, WriteUser(c), DOMAIN account' = DOMAIN account
        PROVE  EmailIdentifies'
    <2>1. \A v \in DOMAIN account : account'[v].email = account[v].email
      BY <1>0, <1>3 DEF WriteUser, TypeOK
    <2> QED
      BY <1>0, <1>3, <2>1 DEF EmailIdentifies
  <1>4. ASSUME NEW c \in Calls, Remove(c, call[c].id) PROVE EmailIdentifies'
    BY <1>0, <1>4 DEF Remove, EmailIdentifies
  <1> QED
    BY <1>1, <1>2, <1>3, <1>4, AccountStep

\* What the cascades of a deletion leave: the rows of other users, without the
\* deleted user as their author.
LEMMA ForgetRows ==
  ASSUME TypeOK, NEW u
  PROVE  /\ \A z \in Forget(userRoles, u) : \E x \in userRoles :
              /\ x.user # u /\ z.user = x.user /\ z.role = x.role
              /\ z.by = IF x.by = u THEN Nobody ELSE x.by
         /\ \A x \in userRoles : x.user # u => \E z \in Forget(userRoles, u) :
              z.user = x.user /\ z.role = x.role
         /\ \A z \in Forget(userPerms, u) : \E x \in userPerms :
              /\ x.user # u /\ z.user = x.user /\ z.perm = x.perm
              /\ z.by = IF x.by = u THEN Nobody ELSE x.by
  <1> DEFINE kept(x) == [x EXCEPT !.by = IF @ = u THEN Nobody ELSE @]
  <1>1. ASSUME NEW x \in userRoles
        PROVE  /\ kept(x).user = x.user /\ kept(x).role = x.role
               /\ kept(x).by = IF x.by = u THEN Nobody ELSE x.by
    BY DEF TypeOK
  <1>2. ASSUME NEW x \in userPerms
        PROVE  /\ kept(x).user = x.user /\ kept(x).perm = x.perm
               /\ kept(x).by = IF x.by = u THEN Nobody ELSE x.by
    BY DEF TypeOK
  <1>3. /\ Forget(userRoles, u) = {kept(x) : x \in {y \in userRoles : y.user # u}}
        /\ Forget(userPerms, u) = {kept(x) : x \in {y \in userPerms : y.user # u}}
    BY DEF Forget
  <1> HIDE DEF kept
  <1> QED
    BY <1>1, <1>2, <1>3

\* The foreign keys: rows are written only for users, roles and authors that
\* exist, and the deletion of a user takes its rows along, or is refused because
\* of the log.
LEMMA ReferencesStep == AccountsInv /\ [Next]_vars => References'
  <1> SUFFICES ASSUME AccountsInv, [Next]_vars PROVE References'
    OBVIOUS
  <1>0. TypeOK /\ References /\ PhasesOK
    BY DEF AccountsInv, KeysHold
  <1>1. ASSUME NEW r \in Roles, CreateRole(r) PROVE References'
    BY <1>0, <1>1 DEF CreateRole, References, Exists, history
  <1>2. ASSUME NEW c \in Calls, InsertUser(c) PROVE References'
    BY <1>0, <1>2 DEF InsertUser, NewAccount, References, Exists
  <1>3. ASSUME NEW c \in Calls, WriteUser(c) PROVE References'
    BY <1>0, <1>3 DEF WriteUser, References, Exists
  <1>4. ASSUME NEW c \in Calls, ClearRoles(c) PROVE References'
    BY <1>0, <1>4 DEF ClearRoles, References, Exists
  <1>5. ASSUME NEW c \in Calls, InsertRoles(c) PROVE References'
    BY <1>0, <1>5 DEF InsertRoles, RolesInsertable, References, Exists
  <1>6. ASSUME NEW c \in Calls, DeleteUser(c) PROVE References'
    <2>1. CASE UNCHANGED <<account, userRoles, userPerms>>
      BY <1>0, <1>6, <2>1 DEF DeleteUser, References, Exists
    <2>2. CASE ~Auditor(call[c].id) /\ Remove(c, call[c].id)
      <3> DEFINE u == call[c].id
      <3>1. /\ \A v : v \in DOMAIN account' <=> v \in DOMAIN account /\ v # u
            /\ userRoles' = Forget(userRoles, u) /\ userPerms' = Forget(userPerms, u)
            /\ UNCHANGED <<roleRows, log>>
        BY <1>6, <2>2 DEF DeleteUser, Remove
      <3>2. \A e \in log : e.by # u
        BY <2>2 DEF Auditor
      <3> HIDE DEF u
      <3>3. /\ \A z \in userRoles' : \E x \in userRoles :
                  /\ x.user # u /\ z.user = x.user /\ z.role = x.role
                  /\ z.by = IF x.by = u THEN Nobody ELSE x.by
            /\ \A z \in userPerms' : \E x \in userPerms :
                  /\ x.user # u /\ z.user = x.user
                  /\ z.by = IF x.by = u THEN Nobody ELSE x.by
        BY <1>0, <3>1, ForgetRows
      <3>4. \A x \in userRoles' :
              x.user \in DOMAIN account' /\ x.role \in roleRows'
                /\ (x.by = Nobody \/ x.by \in DOMAIN account')
        BY <1>0, <3>1, <3>3 DEF References, Exists
      <3>5. \A x \in userPerms' :
              x.user \in DOMAIN account' /\ (x.by = Nobody \/ x.by \in DOMAIN account')
        BY <1>0, <3>1, <3>3 DEF References, Exists
      <3>6. \A e \in log' : e.by \in DOMAIN account'
        BY <1>0, <3>1, <3>2 DEF References, Exists
      <3> QED
        BY <3>4, <3>5, <3>6 DEF References, Exists
    <2> QED
      BY <1>6, <2>1, <2>2 DEF DeleteUser
  <1>7. ASSUME NEW c \in Calls, ChangeRow(c) PROVE References'
    BY <1>0, <1>7 DEF ChangeRow, OtherPerms, References, Exists
  <1>8. ASSUME NEW c \in Calls, WriteLog(c) PROVE References'
    BY <1>0, <1>8 DEF WriteLog, Entry, References, Exists
  <1>9. CASE UNCHANGED tables
    BY <1>0, <1>9 DEF tables, References, Exists
  <1> QED
    BY <1>1, <1>2, <1>3, <1>4, <1>5, <1>6, <1>7, <1>8, <1>9
    DEF Next, CallStep, vars, tables, BeginCreate, CheckEmail, BeginUpdate, ReadRoles,
        BeginSeed, BeginDelete, BeginChange

-----------------------------------------------------------------------------
(* What a step does to the calls.                                          *)

Begins(c) ==
  BeginCreate(c) \/ BeginUpdate(c) \/ BeginSeed(c) \/ BeginDelete(c) \/ BeginChange(c)

\* A step of a call leaves the others alone; ids and the users that are known to
\* be without roles are never taken back.
LEMMA StepOfOne ==
  ASSUME TypeOK, NEW c \in Calls, CallStep(c)
  PROVE  /\ \A d \in Calls : d # c => call'[d] = call[d]
         /\ issued \subseteq issued' /\ exposed \subseteq exposed'
  <1>1. \A d \in Calls : d # c => call'[d] = call[d]
    BY DEF CallStep, BeginCreate, CheckEmail, InsertUser, NewAccount, BeginUpdate, ReadRoles,
           WriteUser, ClearRoles, InsertRoles, BeginSeed, BeginDelete, DeleteUser, Remove,
           BeginChange, ChangeRow, WriteLog, Ends, Goes, TypeOK
  <1>2. issued \subseteq issued'
    BY DEF CallStep, BeginCreate, CheckEmail, InsertUser, NewAccount, BeginUpdate, ReadRoles,
           WriteUser, ClearRoles, InsertRoles, BeginSeed, BeginDelete, DeleteUser, Remove,
           BeginChange, ChangeRow, WriteLog, tables
  <1>3. exposed \subseteq exposed'
    BY DEF CallStep, BeginCreate, CheckEmail, InsertUser, NewAccount, BeginUpdate, ReadRoles,
           WriteUser, ClearRoles, InsertRoles, BeginSeed, BeginDelete, DeleteUser, Remove,
           BeginChange, ChangeRow, WriteLog, history
  <1> QED
    BY <1>1, <1>2, <1>3

\* What the request of a call that begins is, as far as the phases tell.
LEMMA BeginsAs ==
  ASSUME TypeOK, NEW c \in Calls, Begins(c)
  PROVE  /\ Idle(c) /\ UNCHANGED tables /\ UNCHANGED history
         /\ \/ /\ call'[c].pc = "email" /\ call'[c].kind = "create" /\ call'[c].id = Nobody
               /\ call'[c].email \in Emails /\ call'[c].roles # {}
            \/ /\ call'[c].pc = "readRoles" /\ call'[c].kind = "update" /\ Exists(call'[c].id)
            \/ /\ call'[c].pc = "update" /\ call'[c].kind = "seed" /\ Exists(call'[c].id)
               /\ call'[c].roles # {}
            \/ /\ call'[c].pc = "insert" /\ call'[c].kind = "seed" /\ call'[c].id = Nobody
               /\ call'[c].email \in Emails /\ call'[c].roles # {}
            \/ /\ call'[c].pc = "delete" /\ call'[c].id \in issued
            \/ /\ call'[c].pc = "change" /\ call'[c].kind \in ChangeKinds
               /\ call'[c].id \in issued /\ call'[c].actor \in Ids
               /\ call'[c].perm \in Permissions
            \/ /\ call'[c].pc = "rejected"
  <1> DEFINE own == [g \in Groups |-> c]
             nobody == Nobody
  <1>0. nobody \in Ids \cup {Nobody} /\ nobody = Nobody
    OBVIOUS
  <1>a. nobody \in Ids \cup {Nobody}
    OBVIOUS
  <1> HIDE DEF own, nobody
  <1>1. CASE BeginCreate(c)
    <2>1. PICK actor \in DOMAIN account, e \in Emails, roles \in (SUBSET Roles) \ {{}},
               twice \in BOOLEAN :
            /\ roles \subseteq roleRows \/ roleRows = {} \/ DbFails
            /\ call' = [call EXCEPT ![c] =
                     [Request(c, "email", "create", actor, Nobody)
                        EXCEPT !.email = e, !.roles = roles, !.twice = twice,
                               !.cols = [g \in Groups |-> c]]]
      BY <1>1 DEF BeginCreate
    <2> DEFINE r == Request(c, "email", "create", actor, nobody)
    <2>2. actor \in Ids
      BY DEF TypeOK
    <2>3. r \in CallState /\ r.pc = "email" /\ r.kind = "create" /\ r.id = nobody
      BY <1>0, <2>2, RequestState
    <2>4. call'[c] = [r EXCEPT !.email = e, !.roles = roles, !.twice = twice, !.cols = own]
      BY <1>0, <2>1 DEF TypeOK, own
    <2> HIDE DEF r
    <2>5. /\ call'[c].pc = "email" /\ call'[c].kind = "create" /\ call'[c].id = nobody
          /\ call'[c].email = e /\ call'[c].roles = roles
      BY <2>3, <2>4 DEF CallState
    <2>6. Idle(c) /\ UNCHANGED tables /\ UNCHANGED history
      BY <1>1 DEF BeginCreate
    <2>7. roles # {}
      BY <2>1
    <2>8. /\ call'[c].pc = "email" /\ call'[c].kind = "create" /\ call'[c].id = Nobody
          /\ call'[c].email \in Emails /\ call'[c].roles # {}
      BY <1>0, <2>5, <2>7
    <2> QED
      BY <2>6, <2>8
  <1>2. CASE BeginUpdate(c)
    BY <1>2, SMTT(20) DEF BeginUpdate, Request, TypeOK, CallState
  <1>3. CASE BeginSeed(c)
    <2>1. Idle(c) /\ UNCHANGED tables /\ UNCHANGED history
      BY <1>3 DEF BeginSeed
    <2>2. ASSUME NEW u \in DOMAIN account,
                 call' = [call EXCEPT ![c] =
                   [Request(c, "update", "seed", Nobody, u)
                      EXCEPT !.roles = {SuperAdmin},
                             !.cols = [account[u].cols EXCEPT !["password"] = c]]]
          PROVE  /\ call'[c].pc = "update" /\ call'[c].kind = "seed"
                 /\ call'[c].id = u /\ call'[c].roles = {SuperAdmin}
      <3> DEFINE r == Request(c, "update", "seed", nobody, u)
                 cols == [account[u].cols EXCEPT !["password"] = c]
      <3>1. call'[c] = [r EXCEPT !.roles = {SuperAdmin}, !.cols = cols]
        BY <1>0, <2>2 DEF TypeOK
      <3> HIDE DEF cols
      <3>2. u \in Ids \cup {Nobody}
        BY DEF TypeOK
      <3>3. r \in CallState /\ r.pc = "update" /\ r.kind = "seed" /\ r.id = u
        <4>1. r \in CallState
          BY <1>a, <3>2, RequestState, Z3
        <4>2. r.pc = "update" /\ r.kind = "seed" /\ r.id = u
          BY RequestFields
        <4> QED
          BY <4>1, <4>2
      <3> HIDE DEF r
      <3> QED
        BY <3>1, <3>3 DEF CallState
    <2>3. ASSUME NEW e \in Emails,
                 call' = [call EXCEPT ![c] =
                   [Request(c, "insert", "seed", Nobody, Nobody)
                      EXCEPT !.email = e, !.roles = {SuperAdmin},
                             !.cols = [g \in Groups |-> c]]]
          PROVE  /\ call'[c].pc = "insert" /\ call'[c].kind = "seed" /\ call'[c].id = Nobody
                 /\ call'[c].email = e /\ call'[c].roles = {SuperAdmin}
      <3> DEFINE r == Request(c, "insert", "seed", nobody, nobody)
      <3>1. call'[c] = [r EXCEPT !.email = e, !.roles = {SuperAdmin}, !.cols = own]
        BY <1>0, <2>3 DEF TypeOK, own
      <3>2. r \in CallState /\ r.pc = "insert" /\ r.kind = "seed" /\ r.id = nobody
        BY <1>0, RequestState
      <3> HIDE DEF r
      <3> QED
        BY <1>0, <3>1, <3>2 DEF CallState
    <2> QED
      BY <1>3, <2>1, <2>2, <2>3 DEF BeginSeed, Exists
  <1>4. CASE BeginDelete(c)
    BY <1>4, SMTT(20) DEF BeginDelete, Request, TypeOK, CallState
  <1>5. CASE BeginChange(c)
    BY <1>5, SMTT(20) DEF BeginChange, Request, TypeOK, CallState
  <1> QED
    BY <1>1, <1>2, <1>3, <1>4, <1>5 DEF Begins

\* An insertion gives the call its user.
LEMMA NewAccountCall ==
  ASSUME TypeOK, NEW c \in Calls, NEW u \in Ids, NewAccount(c, u)
  PROVE  /\ call'[c].pc = "roles" /\ call'[c].id = u
         /\ call'[c].kind = call[c].kind /\ call'[c].roles = call[c].roles
         /\ call'[c].cols = call[c].cols
         /\ \A d \in Calls : d # c => call'[d] = call[d]
  BY DEF NewAccount, TypeOK, CallState

\* An update that names no role takes those it finds; where it finds none that
\* nothing accounts for, the user has been without roles already.
LEMMA ReadRolesCall ==
  ASSUME TypeOK, NEW c \in Calls, ReadRoles(c)
  PROVE  /\ call'[c].pc = "update" /\ call'[c].id = call[c].id
         /\ call'[c].kind = call[c].kind /\ call'[c].cols = call[c].cols
         /\ \/ call'[c].roles # {}
            \/ call[c].id \in exposed'
            \/ /\ RolesOf(call[c].id) = {} /\ Exists(call[c].id)
               /\ ~InBetween(call[c].id)
  <1>1. PICK found \in {RolesOf(call[c].id)} \cup (IF DbFails THEN {{}} ELSE {}) :
          /\ call' = [call EXCEPT ![c].pc = "update",
                                  ![c].roles = IF @ # {} THEN @ ELSE found]
          /\ exposed' = IF /\ found = {}
                           /\ \/ InBetween(call[c].id) \/ found # RolesOf(call[c].id)
                              \/ ~Exists(call[c].id)
                          THEN exposed \cup {call[c].id} ELSE exposed
    BY DEF ReadRoles
  <1>2. /\ call'[c].pc = "update" /\ call'[c].id = call[c].id
        /\ call'[c].kind = call[c].kind /\ call'[c].cols = call[c].cols
        /\ call'[c].roles = IF call[c].roles # {} THEN call[c].roles ELSE found
    BY <1>1 DEF TypeOK, CallState
  <1> QED
    BY <1>1, <1>2

-----------------------------------------------------------------------------
(* The phases of the calls.                                                *)

\* A call that is over is not about to do anything.
LEMMA OverPhase ==
  ASSUME NEW k, NEW ids, k.pc \in {"done", "rejected", "failed"}
  PROVE  PhaseOK(k, ids)
  BY DEF PhaseOK

LEMMA PhasesStep == AccountsInv /\ [Next]_vars => PhasesOK'
  <1> SUFFICES ASSUME AccountsInv, [Next]_vars PROVE PhasesOK'
    OBVIOUS
  <1>0. TypeOK /\ PhasesOK
    BY DEF AccountsInv
  <1>1. ASSUME NEW c \in Calls, CallStep(c) PROVE PhasesOK'
    <2>0. /\ \A d \in Calls : d # c => call'[d] = call[d]
          /\ issued \subseteq issued'
      BY <1>0, <1>1, StepOfOne
    <2>1. ASSUME NEW d \in Calls, d # c PROVE PhaseOK(call'[d], issued')
      <3>1. PhaseOK(call[d], issued)
        BY <1>0 DEF PhasesOK
      <3> QED
        BY <2>0, <2>1, <3>1 DEF PhaseOK
    <2>2. PhaseOK(call[c], issued)
      BY <1>0 DEF PhasesOK
    <2> SUFFICES PhaseOK(call'[c], issued')
      BY <2>1 DEF PhasesOK
    <2>3. CASE Begins(c)
      <3>1. \A u : Exists(u) => u \in issued
        BY <1>0 DEF Exists, TypeOK
      <3>2. issued' = issued
        BY <1>0, <2>3, BeginsAs DEF tables
      <3> QED
        BY <1>0, <2>3, <3>1, <3>2, BeginsAs DEF PhaseOK, AccountKinds
    <2>4. CASE CheckEmail(c)
      <3>1. CASE Ends(c, "rejected")
        BY <1>0, <3>1, EndsType, OverPhase
      <3>2. CASE Goes(c, "insert")
        BY <1>0, <2>2, <2>4, <3>2, GoesType DEF CheckEmail, PhaseOK
      <3> QED
        BY <2>4, <3>1, <3>2 DEF CheckEmail
    <2>5. CASE InsertUser(c)
      <3>1. CASE Ends(c, "failed")
        BY <1>0, <3>1, EndsType, OverPhase
      <3>2. ASSUME NEW u \in Ids \ issued, NewAccount(c, u)
            PROVE  PhaseOK(call'[c], issued')
        <4>1. u \in issued'
          BY <3>2 DEF NewAccount
        <4> QED
          BY <1>0, <2>2, <2>5, <3>2, <4>1, NewAccountCall DEF InsertUser, PhaseOK, AccountKinds
      <3> QED
        BY <2>5, <3>1, <3>2 DEF InsertUser
    <2>6. CASE ReadRoles(c)
      BY <1>0, <2>0, <2>2, <2>6, ReadRolesCall DEF ReadRoles, PhaseOK
    <2>7. CASE WriteUser(c)
      <3>1. CASE Ends(c, "failed")
        BY <1>0, <3>1, EndsType, OverPhase
      <3>2. CASE Goes(c, "clear")
        BY <1>0, <2>0, <2>2, <2>7, <3>2, GoesType DEF WriteUser, PhaseOK
      <3> QED
        BY <2>7, <3>1, <3>2 DEF WriteUser
    <2>8. CASE ClearRoles(c)
      <3>1. CASE call[c].roles = {} /\ Ends(c, "done")
        BY <1>0, <3>1, EndsType, OverPhase
      <3>2. CASE call[c].roles # {} /\ Goes(c, "roles")
        BY <1>0, <2>0, <2>2, <2>8, <3>2, GoesType DEF ClearRoles, PhaseOK
      <3> QED
        BY <2>8, <3>1, <3>2 DEF ClearRoles
    <2>9. CASE InsertRoles(c) \/ DeleteUser(c) \/ WriteLog(c)
      BY <1>0, <2>9, EndsType, OverPhase DEF InsertRoles, DeleteUser, Remove, WriteLog
    <2>10. CASE ChangeRow(c)
      <3>1. CASE Ends(c, "failed")
        BY <1>0, <3>1, EndsType, OverPhase
      <3>2. CASE Goes(c, "log")
        BY <1>0, <2>0, <2>2, <2>10, <3>2, GoesType DEF ChangeRow, PhaseOK
      <3> QED
        BY <2>10, <3>1, <3>2 DEF ChangeRow
    <2> QED
      BY <1>1, <2>3, <2>4, <2>5, <2>6, <2>7, <2>8, <2>9, <2>10 DEF CallStep, Begins
  <1>2. ASSUME NEW r \in Roles, CreateRole(r) PROVE PhasesOK'
    BY <1>0, <1>2 DEF CreateRole, PhasesOK, PhaseOK
  <1>3. CASE UNCHANGED vars
    BY <1>0, <1>3 DEF vars, PhasesOK, PhaseOK
  <1> QED
    BY <1>1, <1>2, <1>3 DEF Next

-----------------------------------------------------------------------------
(* Users without roles.                                                    *)

\* An update that is left with no role knows why its user has none.
LEMMA NoneFoundStep == AccountsInv /\ [Next]_vars => NoneFound'
  <1> SUFFICES ASSUME AccountsInv, [Next]_vars PROVE NoneFound'
    OBVIOUS
  <1>0. TypeOK /\ NoneFound /\ RolelessExplained
    BY DEF AccountsInv
  <1>1. ASSUME NEW c \in Calls, CallStep(c) PROVE NoneFound'
    <2>0. /\ \A d \in Calls : d # c => call'[d] = call[d]
          /\ exposed \subseteq exposed'
      BY <1>0, <1>1, StepOfOne
    <2> SUFFICES ASSUME call'[c].pc \in {"update", "clear"}, call'[c].roles = {}
                 PROVE  call'[c].id \in exposed'
      BY <1>0, <2>0 DEF NoneFound
    <2>1. CASE Begins(c)
      BY <1>0, <2>1, BeginsAs
    <2>2. CASE CheckEmail(c)
      BY <1>0, <2>2, EndsType, GoesType DEF CheckEmail
    <2>3. CASE InsertUser(c)
      BY <1>0, <2>3, EndsType, NewAccountCall DEF InsertUser
    <2>4. CASE ReadRoles(c)
      <3>1. ASSUME RolesOf(call[c].id) = {}, Exists(call[c].id), ~InBetween(call[c].id)
            PROVE  call[c].id \in exposed
        BY <1>0, <3>1 DEF RolelessExplained, Exists
      <3> QED
        BY <1>0, <2>0, <2>4, <3>1, ReadRolesCall
    <2>5. CASE WriteUser(c)
      BY <1>0, <2>0, <2>5, EndsType, GoesType DEF WriteUser, NoneFound
    <2>6. CASE ClearRoles(c)
      BY <1>0, <2>6, EndsType, GoesType DEF ClearRoles
    <2>7. CASE InsertRoles(c) \/ DeleteUser(c) \/ WriteLog(c)
      BY <1>0, <2>7, EndsType DEF InsertRoles, DeleteUser, Remove, WriteLog
    <2>8. CASE ChangeRow(c)
      BY <1>0, <2>8, EndsType, GoesType DEF ChangeRow
    <2> QED
      BY <1>1, <2>1, <2>2, <2>3, <2>4, <2>5, <2>6, <2>7, <2>8 DEF CallStep, Begins
  <1>2. ASSUME NEW r \in Roles, CreateRole(r) PROVE NoneFound'
    BY <1>0, <1>2 DEF CreateRole, NoneFound, history
  <1>3. CASE UNCHANGED vars
    BY <1>0, <1>3 DEF vars, NoneFound
  <1> QED
    BY <1>1, <1>2, <1>3 DEF Next

\* A user is left without roles only by the insertion of the roles itself.
LEMMA BetweenStays ==
  ASSUME TypeOK, NEW c \in Calls, CallStep(c), NEW u, InBetween(u),
         call[c].pc # "roles" \/ call[c].id # u
  PROVE  InBetween(u)'
  <1>1. PICK d \in Calls : call[d].pc = "roles" /\ call[d].id = u
    BY DEF InBetween
  <1>2. call'[d] = call[d]
    BY <1>1, StepOfOne
  <1> QED
    BY <1>1, <1>2 DEF InBetween

\* A step that changes no account and no role of a user keeps its explanation.
LEMMA RolelessStays ==
  ASSUME AccountsInv, NEW c \in Calls, CallStep(c), NEW u \in DOMAIN account,
         RolesOf(u)' = RolesOf(u), call[c].pc # "roles" \/ call[c].id # u
  PROVE  RolesOf(u)' # {} \/ u \in exposed' \/ InBetween(u)'
  <1>1. TypeOK /\ RolelessExplained
    BY DEF AccountsInv
  <1>2. exposed \subseteq exposed'
    BY <1>1, StepOfOne
  <1> QED
    BY <1>1, <1>2, BetweenStays DEF RolelessExplained

LEMMA RolelessStep == AccountsInv /\ [Next]_vars => RolelessExplained'
  <1> SUFFICES ASSUME AccountsInv, [Next]_vars PROVE RolelessExplained'
    OBVIOUS
  <1>0. TypeOK /\ KeysHold /\ PhasesOK /\ NoneFound /\ RolelessExplained
    BY DEF AccountsInv
  <1>1. ASSUME NEW c \in Calls, CallStep(c) PROVE RolelessExplained'
    <2> DEFINE u == call[c].id
               Known(v) == RolesOf(v)' # {} \/ v \in exposed' \/ InBetween(v)'
    <2> SUFFICES ASSUME NEW v \in DOMAIN account' PROVE Known(v)
      BY DEF RolelessExplained
    <2>0. ASSUME v \in DOMAIN account, RolesOf(v)' = RolesOf(v), call[c].pc # "roles" \/ u # v
          PROVE  Known(v)
      BY <1>1, <2>0, RolelessStays
    <2>1. CASE Begins(c) \/ CheckEmail(c) \/ ReadRoles(c) \/ ChangeRow(c) \/ WriteLog(c)
      <3>1. UNCHANGED <<account, userRoles>> /\ call[c].pc # "roles"
        BY <2>1 DEF Begins, BeginCreate, BeginUpdate, BeginSeed, BeginDelete, BeginChange,
                    Idle, CheckEmail, ReadRoles, ChangeRow, WriteLog, tables
      <3> QED
        BY <2>0, <3>1 DEF RolesOf
    <2>2. CASE InsertUser(c)
      <3>1. UNCHANGED userRoles /\ call[c].pc # "roles"
        BY <2>2 DEF InsertUser
      <3>2. CASE v \in DOMAIN account
        BY <2>0, <3>1, <3>2 DEF RolesOf
      <3>3. CASE v \notin DOMAIN account
        <4>1. NewAccount(c, v) /\ v \in Ids
          <5>1. PICK w \in Ids \ issued : NewAccount(c, w)
            BY <2>2, <3>3 DEF InsertUser
          <5>2. v = w
            BY <3>3, <5>1 DEF NewAccount
          <5> QED
            BY <5>1, <5>2
        <4> QED
          BY <1>0, <4>1, NewAccountCall DEF InBetween
      <3> QED
        BY <3>2, <3>3
    <2>3. CASE WriteUser(c)
      BY <2>0, <2>3 DEF WriteUser, RolesOf
    <2>4. CASE ClearRoles(c)
      <3>1. v \in DOMAIN account /\ call[c].pc = "clear"
        BY <2>4 DEF ClearRoles
      <3>2. CASE v # u
        BY <2>0, <2>4, <3>1, <3>2 DEF ClearRoles, RolesOf
      <3>3. CASE v = u /\ call[c].roles = {}
        BY <1>0, <2>4, <3>1, <3>3 DEF NoneFound, ClearRoles
      <3>4. CASE v = u /\ call[c].roles # {}
        BY <1>0, <2>4, <3>4, GoesType DEF ClearRoles, InBetween
      <3> QED
        BY <3>2, <3>3, <3>4
    <2>5. CASE InsertRoles(c)
      <3>1. v \in DOMAIN account
        BY <2>5 DEF InsertRoles
      <3>2. CASE v # u
        BY <2>0, <2>5, <3>1, <3>2 DEF InsertRoles, RolesOf
      <3>3. CASE v = u
        <4>1. call[c].roles # {}
          BY <1>0, <2>5 DEF InsertRoles, PhasesOK, PhaseOK
        <4>2. ASSUME userRoles' = userRoles \cup
                       {[user |-> v, role |-> r, by |-> call[c].actor] : r \in call[c].roles}
              PROVE  RolesOf(v)' # {}
          <5>1. PICK r \in call[c].roles : TRUE
            BY <4>1
          <5>2. [user |-> v, role |-> r, by |-> call[c].actor] \in userRoles'
            BY <4>2, <5>1
          <5>3. r \in {x.role : x \in {y \in userRoles' : y.user = v}}
            BY <5>2
          <5> QED
            BY <5>3 DEF RolesOf
        <4>3. \/ v \in exposed'
              \/ userRoles' = userRoles \cup
                   {[user |-> v, role |-> r, by |-> call[c].actor] : r \in call[c].roles}
          BY <2>5, <3>3 DEF InsertRoles
        <4> QED
          BY <4>2, <4>3
      <3> QED
        BY <3>2, <3>3
    <2>6. CASE DeleteUser(c)
      <3>1. v \in DOMAIN account /\ call[c].pc = "delete"
        BY <2>6 DEF DeleteUser, Remove
      <3>2. CASE UNCHANGED userRoles
        BY <2>0, <3>1, <3>2 DEF RolesOf
      <3>3. CASE Remove(c, u)
        <4>1. v # u /\ userRoles' = Forget(userRoles, u)
          BY <3>3 DEF Remove
        <4> HIDE DEF u
        <4>2. RolesOf(v)' = RolesOf(v)
          BY <1>0, <4>1, ForgetRows DEF RolesOf
        <4> QED
          BY <2>0, <3>1, <4>2
      <3> QED
        BY <2>6, <3>2, <3>3 DEF DeleteUser
    <2> QED
      BY <1>1, <2>1, <2>2, <2>3, <2>4, <2>5, <2>6 DEF CallStep, Begins
  <1>2. ASSUME NEW r \in Roles, CreateRole(r) PROVE RolelessExplained'
    BY <1>0, <1>2 DEF CreateRole, RolelessExplained, RolesOf, InBetween, history
  <1>3. CASE UNCHANGED vars
    BY <1>0, <1>3 DEF vars, RolelessExplained, RolesOf, InBetween
  <1> QED
    BY <1>1, <1>2, <1>3 DEF Next

-----------------------------------------------------------------------------
(* Overrides and their log.                                                *)

\* A call that is over takes no step.
LEMMA OverIsOver ==
  ASSUME NEW c \in Calls, CallStep(c)
  PROVE  call[c].pc \notin {"done", "failed"}
  BY DEF CallStep, BeginCreate, CheckEmail, InsertUser, BeginUpdate, ReadRoles, WriteUser,
         ClearRoles, InsertRoles, BeginSeed, BeginDelete, DeleteUser, BeginChange, ChangeRow,
         WriteLog, Idle

\* Only WriteLog writes the log, or misses it.
LEMMA LogStep ==
  ASSUME NEW c \in Calls, CallStep(c)
  PROVE  \/ UNCHANGED <<log, unlogged>>
         \/ /\ call[c].pc = "log" /\ UNCHANGED userPerms
            /\ \/ /\ unlogged' = unlogged \cup {c} /\ UNCHANGED log /\ Ends(c, "failed")
               \/ /\ log' = log \cup {Entry(c)} /\ UNCHANGED unlogged /\ Ends(c, "done")
  BY DEF CallStep, BeginCreate, CheckEmail, InsertUser, BeginUpdate, ReadRoles, WriteUser,
         ClearRoles, InsertRoles, BeginSeed, BeginDelete, DeleteUser, BeginChange, ChangeRow,
         WriteLog, tables, history

LEMMA LoggedOverStep == AccountsInv /\ [Next]_vars => LoggedOver'
  <1> SUFFICES ASSUME AccountsInv, [Next]_vars PROVE LoggedOver'
    OBVIOUS
  <1>0. TypeOK /\ LoggedOver /\ unlogged \subseteq Calls /\ \A e \in log : e.call \in Calls
    BY DEF AccountsInv, TypeOK
  <1>1. ASSUME NEW c \in Calls, CallStep(c) PROVE LoggedOver'
    <2>0. \A d \in Calls : d # c => call'[d] = call[d]
      BY <1>0, <1>1, StepOfOne
    <2>1. call[c].pc \notin {"done", "failed"}
      BY <1>1, OverIsOver
    <2>2. CASE UNCHANGED <<log, unlogged>>
      BY <1>0, <2>0, <2>1, <2>2 DEF LoggedOver
    <2>3. CASE unlogged' = unlogged \cup {c} /\ UNCHANGED log /\ Ends(c, "failed")
      BY <1>0, <2>0, <2>1, <2>3, EndsType DEF LoggedOver
    <2>4. CASE log' = log \cup {Entry(c)} /\ UNCHANGED unlogged /\ Ends(c, "done")
      BY <1>0, <2>0, <2>1, <2>4, EndsType DEF LoggedOver, Entry
    <2> QED
      BY <1>1, <2>2, <2>3, <2>4, LogStep
  <1>2. ASSUME NEW r \in Roles, CreateRole(r) PROVE LoggedOver'
    BY <1>0, <1>2 DEF CreateRole, LoggedOver, history
  <1>3. CASE UNCHANGED vars
    BY <1>0, <1>3 DEF vars, LoggedOver
  <1> QED
    BY <1>1, <1>2, <1>3 DEF Next

\* The call that accounts for a row of user_permissions.
Audits(d, x) ==
  /\ call[d].actor = x.by /\ call[d].id = x.user /\ call[d].perm = x.perm
  /\ call[d].pc = "log" \/ d \in unlogged \/ \E e \in log : e.call = d

\* It accounts for the row until it is over, and from then on.
LEMMA AuditsStays ==
  ASSUME AccountsInv, NEW c \in Calls, CallStep(c), call[c].pc # "log" \/ WriteLog(c),
         NEW d \in Calls, NEW x, Audits(d, x)
  PROVE  Audits(d, x)'
  <1>0. TypeOK /\ LoggedOver
    BY DEF AccountsInv
  <1>1. log \subseteq log' /\ unlogged \subseteq unlogged'
    BY LogStep
  <1>2. CASE d # c
    BY <1>0, <1>1, <1>2, StepOfOne DEF Audits
  <1>3. CASE d = c
    <2>1. call[c].pc = "log"
      BY <1>0, <1>3, OverIsOver DEF Audits, LoggedOver
    <2>2. WriteLog(c)
      BY <2>1
    <2>3. Ends(c, "done") \/ Ends(c, "failed")
      BY <2>2 DEF WriteLog
    <2>4. call'[c].actor = call[c].actor /\ call'[c].id = call[c].id /\ call'[c].perm = call[c].perm
      BY <1>0, <2>3, EndsType
    <2>5. c \in unlogged' \/ \E e \in log' : e.call = c
      <3>1. Entry(c).call = c
        BY DEF Entry
      <3>2. c \in unlogged' \/ Entry(c) \in log'
        BY <2>2 DEF WriteLog
      <3> QED
        BY <3>1, <3>2
    <2> QED
      BY <1>3, <2>4, <2>5 DEF Audits
  <1> QED
    BY <1>2, <1>3

LEMMA AuditedStep == AccountsInv /\ [Next]_vars => OverridesAudited'
  <1> SUFFICES ASSUME AccountsInv, [Next]_vars PROVE OverridesAudited'
    OBVIOUS
  <1>0. TypeOK /\ PhasesOK
    BY DEF AccountsInv
  <1>a. \A x \in userPerms : x.by # Nobody => \E d \in Calls : Audits(d, x)
    BY DEF AccountsInv, OverridesAudited, Audits
  <1>1. ASSUME NEW c \in Calls, CallStep(c) PROVE OverridesAudited'
    <2> SUFFICES ASSUME NEW x \in userPerms', x.by # Nobody
                 PROVE  \E d \in Calls : Audits(d, x)'
      BY DEF OverridesAudited, Audits
    <2>0. call[c].pc # "log" \/ WriteLog(c)
      BY <1>1 DEF CallStep, BeginCreate, CheckEmail, InsertUser, BeginUpdate, ReadRoles,
                  WriteUser, ClearRoles, InsertRoles, BeginSeed, BeginDelete, DeleteUser,
                  BeginChange, ChangeRow, Idle
    <2>1. CASE x \in userPerms
      BY <1>1, <1>a, <2>0, <2>1, AuditsStays
    <2>2. CASE DeleteUser(c)
      <3> DEFINE u == call[c].id
      <3>1. CASE Remove(c, u)
        <4>1. userPerms' = Forget(userPerms, u)
          BY <3>1 DEF Remove
        <4> HIDE DEF u
        <4>2. PICK y \in userPerms :
                /\ y.user # u /\ x.user = y.user /\ x.perm = y.perm
                /\ x.by = IF y.by = u THEN Nobody ELSE y.by
          BY <1>0, <4>1, ForgetRows
        <4>3. PICK d \in Calls : Audits(d, y)
          BY <1>a, <4>2
        <4>4. Audits(d, x)
          BY <4>2, <4>3 DEF Audits
        <4> QED
          BY <1>1, <2>0, <4>4, AuditsStays
      <3> QED
        BY <2>1, <2>2, <3>1 DEF DeleteUser
    <2>3. CASE ChangeRow(c)
      <3>1. CASE x.by = call[c].actor /\ x.user = call[c].id /\ x.perm = call[c].perm
                   /\ Goes(c, "log")
        BY <1>0, <3>1, GoesType DEF Audits
      <3> QED
        BY <2>1, <2>3, <3>1 DEF ChangeRow, OtherPerms
    <2>4. CASE UNCHANGED userPerms
      BY <2>1, <2>4
    <2> QED
      BY <1>1, <2>2, <2>3, <2>4
      DEF CallStep, BeginCreate, CheckEmail, InsertUser, BeginUpdate, ReadRoles, WriteUser,
          ClearRoles, InsertRoles, BeginSeed, BeginDelete, BeginChange, WriteLog, tables
  <1>2. ASSUME NEW r \in Roles, CreateRole(r) PROVE OverridesAudited'
    BY <1>a, <1>2 DEF CreateRole, OverridesAudited, Audits, history
  <1>3. CASE UNCHANGED vars
    BY <1>a, <1>3 DEF vars, OverridesAudited, Audits
  <1> QED
    BY <1>1, <1>2, <1>3 DEF Next

-----------------------------------------------------------------------------
(* Updates that nobody disturbs.                                           *)

Working == {"readRoles", "update", "clear", "roles"}

\* A step of a call does not reach the rows of the user of another call that is
\* not marked as disturbed by it.
LEMMA OthersUndisturbed ==
  ASSUME AccountsInv, NEW c \in Calls, CallStep(c), NEW d \in Calls, d # c,
         d \notin disturbed', call[d].pc \in Working
  PROVE  /\ d \notin disturbed /\ (d \notin swallowed' => d \notin swallowed)
         /\ Exists(call[d].id)'
         /\ account'[call'[d].id] = account[call[d].id]
         /\ RolesOf(call[d].id)' = RolesOf(call[d].id)
  <1> DEFINE u == call[d].id
  <1>0. TypeOK /\ PhasesOK /\ UndisturbedSoFar
    BY DEF AccountsInv
  <1>1. call'[d] = call[d]
    BY <1>0, StepOfOne
  <1>2. call[d].kind \in AccountKinds /\ u \in issued /\ ~Over(d)
    BY <1>0 DEF PhasesOK, PhaseOK, Working, Over
  <1>3. d \notin disturbed
    BY DEF CallStep, BeginCreate, CheckEmail, InsertUser, BeginUpdate, ReadRoles, WriteUser,
           ClearRoles, InsertRoles, BeginSeed, BeginDelete, DeleteUser, Remove, BeginChange,
           ChangeRow, WriteLog, Disturb, tables, history
  <1>4. d \notin swallowed' => d \notin swallowed
    BY DEF CallStep, BeginCreate, CheckEmail, InsertUser, BeginUpdate, ReadRoles, WriteUser,
           ClearRoles, InsertRoles, BeginSeed, BeginDelete, DeleteUser, BeginChange,
           ChangeRow, WriteLog, tables, history
  <1>5. Exists(u)
    BY <1>0, <1>3 DEF UndisturbedSoFar, Working
  <1>6. ASSUME NEW kinds, Disturb(c, call[c].id, kinds), AccountKinds \subseteq kinds
        PROVE  call[c].id # u
    BY <1>2, <1>6 DEF Disturb
  <1>7. /\ u \in DOMAIN account' /\ account'[u] = account[u]
        /\ {x.role : x \in {y \in userRoles' : y.user = u}} = RolesOf(u)
    <2>1. CASE InsertUser(c)
      <3>1. UNCHANGED userRoles
        BY <2>1 DEF InsertUser
      <3>2. u \in DOMAIN account' /\ account'[u] = account[u]
        BY <1>2, <1>5, <2>1 DEF InsertUser, NewAccount, Exists
      <3> QED
        BY <3>1, <3>2 DEF RolesOf
    <2>2. CASE WriteUser(c)
      <3>1. CASE Disturb(c, call[c].id, AccountKinds)
        <4>1. call[c].id # u /\ UNCHANGED userRoles
          BY <1>6, <2>2, <3>1 DEF WriteUser
        <4>2. u \in DOMAIN account' /\ account'[u] = account[u]
          BY <1>5, <2>2, <4>1 DEF WriteUser, Exists
        <4> QED
          BY <4>1, <4>2 DEF RolesOf
      <3> QED
        BY <1>5, <2>2, <3>1 DEF WriteUser, RolesOf, Exists
    <2>3. CASE ClearRoles(c)
      <3>1. CASE Disturb(c, call[c].id, AccountKinds) /\ userRoles' = {x \in userRoles : x.user # call[c].id}
        <4>1. call[c].id # u
          BY <1>6, <3>1
        <4> QED
          BY <1>5, <2>3, <3>1, <4>1 DEF ClearRoles, RolesOf, Exists
      <3> QED
        BY <1>5, <2>3, <3>1 DEF ClearRoles, RolesOf, Exists
    <2>4. CASE InsertRoles(c)
      <3>1. CASE Disturb(c, call[c].id, AccountKinds)
        <4>1. call[c].id # u
          BY <1>6, <3>1
        <4> QED
          BY <1>5, <2>4, <4>1 DEF InsertRoles, RolesOf, Exists
      <3> QED
        BY <1>5, <2>4, <3>1 DEF InsertRoles, RolesOf, Exists
    <2>5. CASE DeleteUser(c)
      <3> DEFINE w == call[c].id
      <3>1. CASE Remove(c, w)
        <4>1. /\ w # u /\ userRoles' = Forget(userRoles, w)
              /\ account' = [v \in DOMAIN account \ {w} |-> account[v]]
          BY <1>6, <3>1 DEF Remove
        <4> HIDE DEF w, u
        <4>2. u \in DOMAIN account' /\ account'[u] = account[u]
          BY <1>5, <4>1 DEF Exists
        <4>3. {x.role : x \in {y \in userRoles' : y.user = u}} = RolesOf(u)
          BY <1>0, <4>1, ForgetRows DEF RolesOf
        <4> QED
          BY <4>2, <4>3
      <3> QED
        BY <1>5, <2>5, <3>1 DEF DeleteUser, RolesOf, Exists
    <2>6. CASE UNCHANGED <<account, userRoles>>
      BY <1>5, <2>6 DEF RolesOf, Exists
    <2> QED
      BY <2>1, <2>2, <2>3, <2>4, <2>5, <2>6
      DEF CallStep, BeginCreate, CheckEmail, BeginUpdate, ReadRoles, BeginSeed, BeginDelete,
          BeginChange, ChangeRow, WriteLog, tables
  <1> QED
    BY <1>1, <1>3, <1>4, <1>7 DEF Exists, RolesOf

\* What a call has done so far, read off its own state.
DoneSoFar(c) ==
  /\ call[c].pc \in Working => Exists(call[c].id)
  /\ call[c].pc \in {"clear", "roles"} => account[call[c].id].cols = call[c].cols
  /\ call[c].pc = "roles" /\ c \notin swallowed => RolesOf(call[c].id) = {}

LEMMA UndisturbedStep == AccountsInv /\ [Next]_vars => UndisturbedSoFar'
  <1> SUFFICES ASSUME AccountsInv, [Next]_vars PROVE UndisturbedSoFar'
    OBVIOUS
  <1>0. TypeOK /\ PhasesOK /\ References
    BY DEF AccountsInv, KeysHold
  <1>a. \A d \in Calls \ disturbed : DoneSoFar(d)
    BY DEF AccountsInv, UndisturbedSoFar, DoneSoFar, Working
  <1>1. ASSUME NEW c \in Calls, CallStep(c) PROVE UndisturbedSoFar'
    <2> SUFFICES ASSUME NEW d \in Calls \ disturbed' PROVE DoneSoFar(d)'
      BY DEF UndisturbedSoFar, DoneSoFar, Working
    <2>1. CASE d # c
      <3>1. call'[d] = call[d]
        BY <1>0, <1>1, <2>1, StepOfOne
      <3>2. CASE call[d].pc \in Working
        BY <1>1, <1>a, <2>1, <3>1, <3>2, OthersUndisturbed DEF DoneSoFar
      <3> QED
        BY <3>1, <3>2 DEF DoneSoFar, Working
    <2> SUFFICES ASSUME d = c PROVE DoneSoFar(c)'
      BY <2>1
    <2>0. ASSUME call'[c].pc \notin Working PROVE DoneSoFar(c)'
      BY <2>0 DEF DoneSoFar, Working
    <2>2. CASE Begins(c)
      BY <1>0, <2>0, <2>2, BeginsAs DEF DoneSoFar, Working, Exists, tables
    <2>3. CASE CheckEmail(c) \/ DeleteUser(c) \/ ChangeRow(c) \/ WriteLog(c) \/ InsertRoles(c)
      BY <1>0, <2>0, <2>3, EndsType, GoesType
      DEF CheckEmail, DeleteUser, Remove, ChangeRow, WriteLog, InsertRoles, Working
    <2>4. CASE InsertUser(c)
      <3>1. CASE Ends(c, "failed")
        BY <1>0, <2>0, <3>1, EndsType DEF Working
      <3>2. ASSUME NEW u \in Ids \ issued, NewAccount(c, u) PROVE DoneSoFar(c)'
        <4>1. call'[c].pc = "roles" /\ call'[c].id = u /\ call'[c].cols = call[c].cols
          BY <1>0, <3>2, NewAccountCall
        <4>2. u \in DOMAIN account' /\ account'[u].cols = call[c].cols
          BY <3>2 DEF NewAccount
        <4>3. {x.role : x \in {y \in userRoles : y.user = u}} = {}
          BY <1>0, <3>2 DEF References, Exists, TypeOK
        <4>4. userRoles' = userRoles
          BY <2>4 DEF InsertUser
        <4> QED
          BY <4>1, <4>2, <4>3, <4>4 DEF DoneSoFar, Exists, RolesOf, Working
      <3> QED
        BY <2>4, <3>1, <3>2 DEF InsertUser
    <2>5. CASE ReadRoles(c)
      <3>1. call'[c].pc = "update" /\ call'[c].id = call[c].id
        BY <1>0, <2>5, ReadRolesCall
      <3>2. UNCHANGED <<account, disturbed>> /\ call[c].pc = "readRoles"
        BY <2>5 DEF ReadRoles, tables
      <3> QED
        BY <1>a, <3>1, <3>2 DEF DoneSoFar, Working, Exists
    <2>6. CASE WriteUser(c)
      <3>1. CASE Ends(c, "failed")
        BY <1>0, <2>0, <3>1, EndsType DEF Working
      <3>2. CASE Disturb(c, call[c].id, AccountKinds) /\ Goes(c, "clear")
                 /\ account' = [v \in DOMAIN account |->
                       IF v = call[c].id THEN [account[call[c].id] EXCEPT !.cols = call[c].cols]
                                         ELSE account[v]]
        <4>1. c \notin disturbed
          BY <3>2 DEF Disturb
        <4>2. call[c].id \in DOMAIN account
          BY <1>a, <2>6, <4>1 DEF WriteUser, DoneSoFar, Working, Exists
        <4>3. /\ call[c].id \in DOMAIN account'
              /\ account'[call[c].id].cols = call[c].cols
          BY <1>0, <3>2, <4>2 DEF TypeOK
        <4>4. /\ call'[c].pc = "clear" /\ call'[c].id = call[c].id
              /\ call'[c].cols = call[c].cols
          BY <1>0, <3>2, GoesType
        <4> QED
          BY <4>3, <4>4 DEF DoneSoFar, Exists
      <3> QED
        BY <2>6, <3>1, <3>2 DEF WriteUser
    <2>7. CASE ClearRoles(c)
      <3>1. CASE Ends(c, "done")
        BY <1>0, <2>0, <3>1, EndsType DEF Working
      <3>2. CASE Goes(c, "roles")
        <4>1. /\ call'[c].pc = "roles" /\ call'[c].id = call[c].id
              /\ call'[c].cols = call[c].cols
          BY <1>0, <3>2, GoesType
        <4>2. account' = account /\ disturbed \subseteq disturbed' /\ call[c].pc = "clear"
          BY <2>7 DEF ClearRoles, Disturb
        <4>3. c \in swallowed' \/ userRoles' = {x \in userRoles : x.user # call[c].id}
          BY <2>7 DEF ClearRoles
        <4>4. c \in swallowed'
                \/ {x.role : x \in {y \in userRoles' : y.user = call[c].id}} = {}
          BY <4>3
        <4>5. Exists(call[c].id) /\ account[call[c].id].cols = call[c].cols
          BY <1>a, <4>2 DEF DoneSoFar, Working
        <4> QED
          BY <4>1, <4>2, <4>4, <4>5 DEF DoneSoFar, Exists, RolesOf
      <3> QED
        BY <2>7, <3>1, <3>2 DEF ClearRoles
    <2> QED
      BY <1>1, <2>2, <2>3, <2>4, <2>5, <2>6, <2>7 DEF CallStep, Begins
  <1>2. ASSUME NEW r \in Roles, CreateRole(r) PROVE UndisturbedSoFar'
    BY <1>a, <1>2
    DEF CreateRole, UndisturbedSoFar, DoneSoFar, Working, Exists, RolesOf, history
  <1>3. CASE UNCHANGED vars
    BY <1>a, <1>3 DEF vars, UndisturbedSoFar, DoneSoFar, Working, Exists, RolesOf
  <1> QED
    BY <1>1, <1>2, <1>3 DEF Next

-----------------------------------------------------------------------------
(* The theorems.                                                           *)

LEMMA InitInv == Init => AccountsInv
  <1> SUFFICES ASSUME Init PROVE AccountsInv
    OBVIOUS
  <1>1. /\ issued = Founders /\ roleRows \in SUBSET Roles
        /\ userPerms = {} /\ log = {} /\ disturbed = {} /\ swallowed = {} /\ unlogged = {}
    BY DEF Init
  <1>2. PICK email \in Injection(Founders, Emails) :
          account = [u \in Founders |-> [email |-> email[u], cols |-> Unset]]
    BY DEF Init
  <1>3. PICK given \in SUBSET (Founders \X roleRows) :
          /\ userRoles = {[user |-> g[1], role |-> g[2], by |-> Nobody] : g \in given}
          /\ exposed = {u \in Founders : \A g \in given : g[1] # u}
    BY DEF Init
  <1>4. \A c \in Calls : call[c].pc = "idle"
    BY DEF Init
  <1>5. call \in [Calls -> CallState]
    <2> DEFINE k == [pc |-> "idle", kind |-> "create", actor |-> Nobody, id |-> Nobody,
                     email |-> Nobody, cols |-> Unset, roles |-> {}, twice |-> FALSE,
                     perm |-> Nobody]
    <2>1. k \in CallState
      BY DEF CallState, Unset, Columns
    <2> HIDE DEF k
    <2>2. call = [c \in Calls |-> k]
      BY DEF Init, k
    <2> QED
      BY <2>1, <2>2
  <1>6. /\ email \in [Founders -> Emails]
        /\ \A u, v \in Founders : email[u] = email[v] => u = v
    BY DEF Injection, IsInjective
  <1>7. /\ DOMAIN account = Founders
        /\ \A u \in Founders : account[u] = [email |-> email[u], cols |-> Unset]
    BY <1>2
  <1>8. Founders \subseteq Ids
    BY UserAccountsAssumption
  <1>9. \A g \in given : g[1] \in Founders /\ g[2] \in roleRows
    BY <1>3
  <1>10. TypeOK
    <2>1. account \in [DOMAIN account -> [email : Emails, cols : Columns]]
      <3>1. Unset \in Columns
        BY DEF Unset, Columns
      <3> QED
        BY <1>2, <1>6, <1>7, <3>1
    <2>2. userRoles \subseteq [user : Ids, role : Roles, by : Ids \cup {Nobody}]
      BY <1>1, <1>3, <1>8, <1>9
    <2>3. exposed \subseteq Ids
      BY <1>3, <1>8
    <2> QED
      BY <1>1, <1>5, <1>7, <1>8, <2>1, <2>2, <2>3 DEF TypeOK
  <1>11. KeysHold
    BY <1>1, <1>3, <1>6, <1>7, <1>9 DEF KeysHold, References, EmailIdentifies, Exists
  <1>12. RolelessExplained
    <2> SUFFICES ASSUME NEW u \in Founders, u \notin exposed PROVE RolesOf(u) # {}
      BY <1>7 DEF RolelessExplained
    <2>1. PICK g \in given : g[1] = u
      BY <1>3
    <2>2. [user |-> u, role |-> g[2], by |-> Nobody] \in userRoles
      BY <1>3, <2>1
    <2>3. g[2] \in {x.role : x \in {y \in userRoles : y.user = u}}
      BY <2>2
    <2> QED
      BY <2>3 DEF RolesOf
  <1>13. PhasesOK /\ NoneFound /\ LoggedOver /\ UndisturbedSoFar /\ OverridesAudited
    BY <1>1, <1>4
    DEF PhasesOK, PhaseOK, NoneFound, LoggedOver, UndisturbedSoFar, OverridesAudited
  <1> QED
    BY <1>10, <1>11, <1>12, <1>13 DEF AccountsInv

\* Every reachable state satisfies the inductive invariant.
THEOREM AccountsInvariant == Spec => []AccountsInv
  <1>1. AccountsInv /\ [Next]_vars => AccountsInv'
    BY TypeStep, EmailStep, ReferencesStep, PhasesStep, NoneFoundStep, LoggedOverStep,
       UndisturbedStep, RolelessStep, AuditedStep
    DEF AccountsInv, KeysHold
  <1> QED
    BY InitInv, <1>1, PTL DEF Spec

\* The tables and the calls keep their types.
THEOREM TypeCorrect == Spec => []TypeOK
  BY AccountsInvariant, PTL DEF AccountsInv

\* The foreign keys and the unique email hold between any two statements.
THEOREM KeysAlwaysHold == Spec => []KeysHold
  BY AccountsInvariant, PTL DEF AccountsInv

\* An account without a role has a known reason.
THEOREM RolelessAlwaysExplained == Spec => []RolelessExplained
  BY AccountsInvariant, PTL DEF AccountsInv

\* An override whose author exists is logged, about to be, or known not to be.
THEOREM OverridesAlwaysAudited == Spec => []OverridesAudited
  BY AccountsInvariant, PTL DEF AccountsInv

\* A success that nobody else's write disturbed leaves what was computed.
LEMMA DeliveryStep ==
  ASSUME AccountsInv, [Next]_vars, NEW c \in Calls, c \notin disturbed \cup swallowed',
         call[c].pc \in {"clear", "roles"}, call'[c].pc = "done"
  PROVE  /\ account'[call[c].id].cols = call[c].cols
         /\ {x.role : x \in {y \in userRoles' : y.user = call[c].id}} = call[c].roles
  <1>0. TypeOK /\ PhasesOK
    BY DEF AccountsInv
  <1>1. CallStep(c)
    <2>1. call'[c] # call[c]
      OBVIOUS
    <2>2. \A r \in Roles : ~CreateRole(r)
      BY <2>1 DEF CreateRole
    <2>3. \A d \in Calls : CallStep(d) => d = c
      BY <1>0, <2>1, StepOfOne
    <2> QED
      BY <2>1, <2>2, <2>3 DEF Next, vars
  <1>2. account[call[c].id].cols = call[c].cols
    BY DEF AccountsInv, UndisturbedSoFar
  <1>3. ClearRoles(c) \/ InsertRoles(c)
    BY <1>1 DEF CallStep, BeginCreate, CheckEmail, InsertUser, BeginUpdate, ReadRoles, WriteUser,
                BeginSeed, BeginDelete, DeleteUser, BeginChange, ChangeRow, WriteLog, Idle
  <1>4. account' = account
    BY <1>3 DEF ClearRoles, InsertRoles
  <1>5. CASE ClearRoles(c)
    <2>1. call[c].roles = {}
      BY <1>0, <1>5, GoesType DEF ClearRoles
    <2>2. userRoles' = {x \in userRoles : x.user # call[c].id}
      BY <1>5 DEF ClearRoles
    <2> QED
      BY <1>2, <1>4, <2>1, <2>2
  <1>6. CASE InsertRoles(c)
    <2> DEFINE added == {[user |-> call[c].id, role |-> r, by |-> call[c].actor] :
                           r \in call[c].roles}
    <2>1. userRoles' = userRoles \cup added
      BY <1>0, <1>6, EndsType DEF InsertRoles
    <2>2. c \notin swallowed /\ call[c].pc = "roles"
      BY <1>6 DEF InsertRoles
    <2>3. \A y \in userRoles : y.user # call[c].id
      BY <2>2 DEF AccountsInv, UndisturbedSoFar, RolesOf
    <2>4. {y \in userRoles' : y.user = call[c].id} = added
      BY <2>1, <2>3
    <2>5. {x.role : x \in added} = call[c].roles
      <3>1. \A r \in call[c].roles :
              [user |-> call[c].id, role |-> r, by |-> call[c].actor] \in added
        OBVIOUS
      <3>2. \A x \in added : x.role \in call[c].roles
        OBVIOUS
      <3> HIDE DEF added
      <3>3. ASSUME NEW r \in call[c].roles PROVE \E x \in added : r = x.role
        <4> DEFINE row == [user |-> call[c].id, role |-> r, by |-> call[c].actor]
        <4>1. row \in added /\ row.role = r
          BY <3>1
        <4> QED
          BY <4>1
      <3> QED
        BY <3>2, <3>3
    <2> QED
      BY <1>2, <1>4, <2>4, <2>5
  <1> QED
    BY <1>3, <1>5, <1>6

\* A create, update or seed that succeeds with nobody else writing the user's
\* rows leaves exactly the columns and the roles it computed.
THEOREM UpdatesDeliver == Spec => UpdateDelivers
  <1>1. AccountsInv /\ [Next]_vars =>
          \A c \in Calls :
            ( /\ c \notin disturbed \cup swallowed'
              /\ call[c].pc \in {"clear", "roles"} /\ call'[c].pc = "done" )
            => /\ account'[call[c].id].cols = call[c].cols
               /\ {x.role : x \in {y \in userRoles' : y.user = call[c].id}} = call[c].roles
    BY DeliveryStep
  <1> QED
    BY <1>1, AccountsInvariant, PTL DEF Spec, UpdateDelivers

\* An id that was given out and has no account gets none.
THEOREM DeletedStayDeleted == Spec => DeletedStaysDeleted
  <1>1. AccountsInv /\ [Next]_vars =>
          \A u \in issued : ~Exists(u) => u \notin DOMAIN account'
    <2> SUFFICES ASSUME AccountsInv, [Next]_vars, NEW u \in issued, u \notin DOMAIN account
                 PROVE  u \notin DOMAIN account'
      BY DEF Exists
    <2>1. ASSUME NEW c \in Calls, NEW v \in Ids \ issued, NewAccount(c, v)
          PROVE  u \notin DOMAIN account'
      BY <2>1 DEF NewAccount
    <2>2. ASSUME NEW c \in Calls, Remove(c, call[c].id) PROVE u \notin DOMAIN account'
      BY <2>2 DEF Remove
    <2> QED
      BY <2>1, <2>2, AccountStep
  <1> QED
    BY <1>1, AccountsInvariant, PTL DEF Spec, DeletedStaysDeleted

=============================================================================
