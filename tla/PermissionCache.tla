-------------------------- MODULE PermissionCache --------------------------
(***************************************************************************)
(* The permission check of the API and the Redis cache behind it.          *)
(*                                                                         *)
(* A request passes the AllowedPermissions middleware, which reads the     *)
(* user, then the permission rows of each of the user's roles and of the   *)
(* user itself through a cache-aside repository (Redis GET, on a miss      *)
(* SELECT and SET with a TTL).  Administrators change the rows in Postgres *)
(* and delete the cache entry afterwards; the role seeder and the deletion *)
(* of a user change rows and leave the cache alone.  Nothing in the code   *)
(* runs in a transaction, so one statement or one Redis command is one     *)
(* step here, and the steps of all requests and operations interleave.     *)
(*                                                                         *)
(* What is abstracted.  A key is a role or a user (role_perms:<role>,      *)
(* user_perms:<id>).  The value of a key is the set of permissions that    *)
(* have a row, since presence is all the middleware looks at (columns      *)
(* is_granted and expires_at are the subject of AccessDecision).  The      *)
(* patterns a route asks for are the set Wanted of permissions they match. *)
(* A Redis or Postgres call may fail when Faults allows it; a Redis client *)
(* that is nil is one whose every call fails.  Each member of Requests and *)
(* of Ops is one HTTP request, used once.                                  *)
(***************************************************************************)

CONSTANTS
  Roles,        \* role names
  SuperAdmin,   \* the role that passes every check
  Users,        \* user ids; an id is a fresh UUIDv7, never used again
  Permissions,  \* permission names
  Wanted,       \* the permissions matching the patterns of the route
  Requests,     \* requests that reach the middleware
  Ops,          \* administrative requests that change permission rows
  SeedMatrix,   \* the <<role, permission>> pairs of the seeder
  Faults,       \* which services may fail: a subset of {"redis", "db"}
  Miss          \* the absence of a cache entry

ASSUME PermissionCacheAssumption ==
  /\ Roles \cap Users = {}
  /\ SuperAdmin \in Roles
  /\ Wanted \subseteq Permissions
  /\ SeedMatrix \subseteq Roles \X Permissions
  /\ \A ps \in SUBSET Permissions : Miss # ps

Keys == Roles \cup Users

VARIABLES
  users,     \* rows of table users
  rows,      \* tables role_permissions and user_permissions, by key
  cache,     \* Redis
  req,       \* the middleware's local state, per request
  op,        \* the service's local state, per administrative request
  logged,    \* operations with a row in permission_changes_log
  seeder,    \* the seeding command: [pc, todo]
  \* History, read by no step:
  leftover,    \* keys whose entry outlived a write that should have removed
               \* it, or was stored by a fill that a write overtook
  overlapped,  \* requests about to store rows that changed since the SELECT
  disturbed,   \* operations whose key somebody else wrote since they began
  late         \* requests that arrived after their user was deleted

vars == <<users, rows, cache, req, op, logged, seeder,
          leftover, overlapped, disturbed, late>>

CacheValue == {ps \in SUBSET Permissions : ps # {}} \cup {Miss}

RequestState ==
  [pc   : {"idle", "user", "get", "read", "set", "allowed", "denied"},
   user : Users,             \* c.Locals("userID")
   todo : SUBSET Roles,      \* roles not looked at yet
   key  : Keys,              \* key of the current cached read
   got  : SUBSET Permissions]

OpState ==
  [pc       : {"idle", "apply", "log", "done", "failed"},
   kind     : {"update", "grant", "revoke"},
   key      : Keys,
   target   : SUBSET Permissions,   \* the list of UpdateRolePermissions
   toGrant  : SUBSET Permissions,   \* upserts still to run
   toRevoke : SUBSET Permissions]   \* deletes still to run

TypeOK ==
  /\ users \subseteq Users
  /\ rows \in [Keys -> SUBSET Permissions]
  /\ cache \in [Keys -> CacheValue]
  /\ req \in [Requests -> RequestState]
  /\ op \in [Ops -> OpState]
  /\ logged \subseteq Ops
  /\ seeder \in [pc : {"idle", "granting", "done"}, todo : SUBSET SeedMatrix]
  /\ leftover \subseteq Keys
  /\ overlapped \subseteq Requests
  /\ disturbed \subseteq Ops
  /\ late \subseteq Requests

Init ==
  /\ users = Users
  /\ rows \in [Keys -> SUBSET Permissions]
  /\ cache = [k \in Keys |-> Miss]
  /\ req \in [Requests -> [pc : {"idle"}, user : Users, todo : {{}},
                           key : {SuperAdmin}, got : {{}}]]
  /\ op = [w \in Ops |-> [pc |-> "idle", kind |-> "update", key |-> SuperAdmin,
                          target |-> {}, toGrant |-> {}, toRevoke |-> {}]]
  /\ logged = {}
  /\ seeder = [pc |-> "idle", todo |-> {}]
  /\ leftover = {}
  /\ overlapped = {}
  /\ disturbed = {}
  /\ late = {}

-----------------------------------------------------------------------------
(* A request in the AllowedPermissions middleware.                         *)

\* AuthMiddleware has put the user id into the request.
Arrive(q) ==
  /\ req[q].pc = "idle"
  /\ req' = [req EXCEPT ![q].pc = "user"]
  /\ late' = IF req[q].user \in users THEN late ELSE late \cup {q}
  /\ UNCHANGED <<users, rows, cache, op, logged, seeder,
                 leftover, overlapped, disturbed>>

\* Mutant of GetUserByID: the lookup's error is ignored.
GetUserByIDUnchecked(q) ==
  /\ req[q].pc = "user"
  /\ \E roles \in SUBSET Roles :
       req' = IF SuperAdmin \in roles
                THEN [req EXCEPT ![q].pc = "allowed"]
                ELSE [req EXCEPT ![q].pc = "get", ![q].todo = roles]
  /\ UNCHANGED <<users, rows, cache, op, logged, seeder,
                 leftover, overlapped, disturbed, late>>

\* GetUserByID, never cached.  The roles it returns are any set: user_roles is
\* changed by UpdateUser meanwhile, and a failed SELECT yields none.
GetUserByID(q) ==
  /\ req[q].pc = "user"
  /\ \/ /\ req[q].user \notin users \/ "db" \in Faults
        /\ req' = [req EXCEPT ![q].pc = "denied"]
     \/ /\ req[q].user \in users
        /\ \E roles \in SUBSET Roles :
             req' = IF SuperAdmin \in roles
                      THEN [req EXCEPT ![q].pc = "allowed"]
                      ELSE [req EXCEPT ![q].pc = "get", ![q].todo = roles]
  /\ UNCHANGED <<users, rows, cache, op, logged, seeder,
                 leftover, overlapped, disturbed, late>>

\* The roles in any order (SELECT without ORDER BY), the user id last.
NextKeys(q) == IF req[q].todo # {} THEN req[q].todo ELSE {req[q].user}

\* What the middleware does with the rows of key k.
Judge(q, k, perms) ==
  [req[q] EXCEPT !.pc   = CASE perms \cap Wanted # {} -> "allowed"
                            [] perms \cap Wanted = {} /\ k \in Roles -> "get"
                            [] OTHER -> "denied",
                 !.todo = @ \ {k},
                 !.key  = k,
                 !.got  = {}]

\* Mutant of CacheGet: roles and users share one entry per name prefix, so the
\* entry of another key is judged.
CacheGetWrongKey(q) ==
  /\ req[q].pc = "get"
  /\ \E k \in NextKeys(q), j \in Keys :
       \/ /\ cache[j] # Miss
          /\ req' = [req EXCEPT ![q] = Judge(q, k, cache[j])]
       \/ /\ cache[j] = Miss \/ "redis" \in Faults
          /\ req' = [req EXCEPT ![q].pc = "read", ![q].key = k]
  /\ UNCHANGED <<users, rows, cache, op, logged, seeder,
                 leftover, overlapped, disturbed, late>>

\* Redis GET: a hit is judged, a miss or an error goes to the database.
CacheGet(q) ==
  /\ req[q].pc = "get"
  /\ \E k \in NextKeys(q) :
       \/ /\ cache[k] # Miss
          /\ req' = [req EXCEPT ![q] = Judge(q, k, cache[k])]
       \/ /\ cache[k] = Miss \/ "redis" \in Faults
          /\ req' = [req EXCEPT ![q].pc = "read", ![q].key = k]
  /\ UNCHANGED <<users, rows, cache, op, logged, seeder,
                 leftover, overlapped, disturbed, late>>

\* Mutant of DbRead: the test len(perms) > 0 is gone.
DbReadKeepsEmpty(q) ==
  LET k == req[q].key IN
  /\ req[q].pc = "read"
  /\ req' = [req EXCEPT ![q].pc = "set", ![q].got = rows[k]]
  /\ overlapped' = overlapped \ {q}
  /\ UNCHANGED <<users, rows, cache, op, logged, seeder,
                 leftover, disturbed, late>>

\* SELECT of the key's rows: an error skips the key, no row is not cached.
DbRead(q) ==
  LET k == req[q].key IN
  /\ req[q].pc = "read"
  /\ \/ /\ rows[k] = {} \/ "db" \in Faults
        /\ req' = [req EXCEPT ![q] = Judge(q, k, {})]
        /\ UNCHANGED overlapped
     \/ /\ rows[k] # {}
        /\ req' = [req EXCEPT ![q].pc = "set", ![q].got = rows[k]]
        /\ overlapped' = overlapped \ {q}
  /\ UNCHANGED <<users, rows, cache, op, logged, seeder,
                 leftover, disturbed, late>>

\* Redis SET with CacheTTL, its error ignored; then the rows are judged.
CacheSet(q) ==
  LET k == req[q].key IN
  /\ req[q].pc = "set"
  /\ req' = [req EXCEPT ![q] = Judge(q, k, req[q].got)]
  /\ \/ /\ cache' = [cache EXCEPT ![k] = req[q].got]
        /\ leftover' = IF q \in overlapped THEN leftover \cup {k}
                                           ELSE leftover \ {k}
     \/ /\ "redis" \in Faults
        /\ UNCHANGED <<cache, leftover>>
  /\ UNCHANGED <<users, rows, op, logged, seeder,
                 overlapped, disturbed, late>>

\* Mutant of Expire: SET without a TTL.
ExpireNever(k) == cache[k] # Miss /\ UNCHANGED vars

\* An entry lives at most CacheTTL.
Expire(k) ==
  /\ cache[k] # Miss
  /\ cache' = [cache EXCEPT ![k] = Miss]
  /\ leftover' = leftover \ {k}
  /\ UNCHANGED <<users, rows, req, op, logged, seeder,
                 overlapped, disturbed, late>>

-----------------------------------------------------------------------------
(* Statements that change permission rows.                                 *)

\* The requests that hold rows of a key of ks they have not stored yet.
Filling(ks) == {q \in Requests : req[q].pc = "set" /\ req[q].key \in ks}

\* The operations at work on a key of ks.
Working(ks) == {w \in Ops : op[w].pc = "apply" /\ op[w].key \in ks}

\* A committed statement: the rows of the keys ks become those of new.
Commit(ks, new) ==
  /\ rows' = [k \in Keys |-> IF k \in ks THEN new[k] ELSE rows[k]]
  /\ overlapped' = overlapped \cup Filling(ks)

\* The entries of ks that stay in the cache after the writer is done with them.
LeaveEntries(ks) == leftover' = leftover \cup {k \in ks : cache[k] # Miss}

\* A row of user_permissions needs its user (foreign key).
Insertable(k) == k \in Roles \/ k \in users

-----------------------------------------------------------------------------
(* The administrative operations of the auth service.                      *)

\* Mutant of BeginUpdate: the second loop is gone.
BeginUpdateGrantsOnly(w) ==
  /\ op[w].pc = "idle"
  /\ \E role \in Roles, target \in SUBSET Permissions :
       op' = [op EXCEPT ![w] =
                [pc |-> "apply", kind |-> "update", key |-> role,
                 target |-> target, toGrant |-> target \ rows[role],
                 toRevoke |-> {}]]
  /\ disturbed' = disturbed \ {w}
  /\ UNCHANGED <<users, rows, cache, req, logged, seeder,
                 leftover, overlapped, late>>

\* UpdateRolePermissions reads the rows and computes the two loops' work.
BeginUpdate(w) ==
  /\ op[w].pc = "idle"
  /\ \E role \in Roles, target \in SUBSET Permissions :
       op' = [op EXCEPT ![w] =
                [pc |-> "apply", kind |-> "update", key |-> role,
                 target   |-> target,
                 toGrant  |-> target \ rows[role],
                 toRevoke |-> rows[role] \ target]]
  /\ disturbed' = disturbed \ {w}
  /\ UNCHANGED <<users, rows, cache, req, logged, seeder,
                 leftover, overlapped, late>>

\* GrantUserPermission or RevokeUserPermission, for a role or a user.
BeginChange(w) ==
  /\ op[w].pc = "idle"
  /\ \E k \in Keys, p \in Permissions, kind \in {"grant", "revoke"} :
       op' = [op EXCEPT ![w] =
                [pc |-> "apply", kind |-> kind, key |-> k, target |-> {},
                 toGrant  |-> IF kind = "grant" THEN {p} ELSE {},
                 toRevoke |-> IF kind = "revoke" THEN {p} ELSE {}]]
  /\ disturbed' = disturbed \ {w}
  /\ UNCHANGED <<users, rows, cache, req, logged, seeder,
                 leftover, overlapped, late>>

\* One upsert of the first loop.
GrantRow(w) ==
  LET k == op[w].key IN
  /\ op[w].pc = "apply"
  /\ Insertable(k)
  /\ \E p \in op[w].toGrant :
       /\ Commit({k}, [rows EXCEPT ![k] = @ \cup {p}])
       /\ op' = [op EXCEPT ![w].toGrant = @ \ {p}]
  /\ disturbed' = disturbed \cup (Working({k}) \ {w})
  /\ UNCHANGED <<users, cache, req, logged, seeder, leftover, late>>

\* One delete of the second loop, which follows the first.
RevokeRow(w) ==
  LET k == op[w].key IN
  /\ op[w].pc = "apply"
  /\ op[w].toGrant = {}
  /\ \E p \in op[w].toRevoke :
       /\ Commit({k}, [rows EXCEPT ![k] = @ \ {p}])
       /\ op' = [op EXCEPT ![w].toRevoke = @ \ {p}]
  /\ disturbed' = disturbed \cup (Working({k}) \ {w})
  /\ UNCHANGED <<users, cache, req, logged, seeder, leftover, late>>

\* A failed statement ends the operation: no invalidation, no log row.
AbortOp(w) ==
  /\ op[w].pc = "apply"
  /\ op[w].toGrant \cup op[w].toRevoke # {}
  /\ \/ "db" \in Faults
     \/ op[w].toGrant # {} /\ ~Insertable(op[w].key)
  /\ op' = [op EXCEPT ![w].pc = "failed"]
  /\ LeaveEntries({op[w].key})
  /\ UNCHANGED <<users, rows, cache, req, logged, seeder,
                 overlapped, disturbed, late>>

\* Mutant of Invalidate: the service returns without deleting the entry.
InvalidateNothing(w) ==
  /\ op[w].pc = "apply"
  /\ op[w].toGrant \cup op[w].toRevoke = {}
  /\ op' = [op EXCEPT ![w].pc = IF op[w].kind = "update" THEN "done" ELSE "log"]
  /\ UNCHANGED <<users, rows, cache, req, logged, seeder,
                 leftover, overlapped, disturbed, late>>

\* Redis DEL after the last statement, its error ignored.  The bulk update
\* ends here; the single changes still have their log row to write.
Invalidate(w) ==
  LET k == op[w].key IN
  /\ op[w].pc = "apply"
  /\ op[w].toGrant \cup op[w].toRevoke = {}
  /\ op' = [op EXCEPT ![w].pc = IF op[w].kind = "update" THEN "done" ELSE "log"]
  /\ \/ /\ cache' = [cache EXCEPT ![k] = Miss]
        /\ leftover' = leftover \ {k}
     \/ /\ "redis" \in Faults
        /\ LeaveEntries({k})
        /\ UNCHANGED cache
  /\ UNCHANGED <<users, rows, req, logged, seeder,
                 overlapped, disturbed, late>>

\* LogPermissionChange; its error is the operation's error.
LogPermissionChange(w) ==
  /\ op[w].pc = "log"
  /\ \/ /\ logged' = logged \cup {w}
        /\ op' = [op EXCEPT ![w].pc = "done"]
     \/ /\ "db" \in Faults
        /\ op' = [op EXCEPT ![w].pc = "failed"]
        /\ UNCHANGED logged
  /\ UNCHANGED <<users, rows, cache, req, seeder,
                 leftover, overlapped, disturbed, late>>

-----------------------------------------------------------------------------
(* Writers that know nothing of the cache.                                 *)

\* DELETE of a user; its user_permissions rows go with it (ON DELETE CASCADE).
DeleteUser(u) ==
  /\ u \in users
  /\ users' = users \ {u}
  /\ Commit({u}, [k \in Keys |-> {}])
  /\ LeaveEntries({u})
  /\ disturbed' = disturbed \cup Working({u})
  /\ UNCHANGED <<cache, req, op, logged, seeder, late>>

\* The seeder counts the rows and truncates the table if it saw any; a failed
\* count reads as zero, a failed TRUNCATE ends the seeder.  One step stands for
\* both: it is the TRUNCATE when there were rows, which nothing the seeder did
\* before shows, and the COUNT when there were none.
SeedTruncate ==
  /\ seeder.pc = "idle"
  /\ \/ /\ seeder' = [pc |-> "granting", todo |-> SeedMatrix]
        /\ Commit(Roles, [k \in Keys |-> {}])
        /\ LeaveEntries(Roles)
        /\ disturbed' = disturbed \cup Working(Roles)
     \/ /\ "db" \in Faults
        /\ \/ seeder' = [pc |-> "granting", todo |-> SeedMatrix]
           \/ seeder' = [pc |-> "done", todo |-> {}]
        /\ UNCHANGED <<rows, overlapped, leftover, disturbed>>
  /\ UNCHANGED <<users, cache, req, op, logged, late>>

\* One upsert of the seeder; its errors are skipped.
SeedGrant ==
  /\ seeder.pc = "granting"
  /\ \E rp \in seeder.todo :
       /\ seeder' = [pc   |-> IF seeder.todo = {rp} THEN "done" ELSE "granting",
                     todo |-> seeder.todo \ {rp}]
       /\ \/ /\ Commit({rp[1]}, [rows EXCEPT ![rp[1]] = @ \cup {rp[2]}])
             /\ LeaveEntries({rp[1]})
             /\ disturbed' = disturbed \cup Working({rp[1]})
          \/ /\ "db" \in Faults
             /\ UNCHANGED <<rows, overlapped, leftover, disturbed>>
  /\ UNCHANGED <<users, cache, req, op, logged, late>>

-----------------------------------------------------------------------------

RequestStep(q) ==
  Arrive(q) \/ GetUserByID(q) \/ CacheGet(q) \/ DbRead(q) \/ CacheSet(q)

OpStep(w) ==
  \/ BeginUpdate(w) \/ BeginChange(w)
  \/ GrantRow(w) \/ RevokeRow(w) \/ AbortOp(w)
  \/ Invalidate(w) \/ LogPermissionChange(w)

Next ==
  \/ \E q \in Requests : RequestStep(q)
  \/ \E w \in Ops : OpStep(w)
  \/ \E k \in Keys : Expire(k)
  \/ \E u \in Users : DeleteUser(u)
  \/ SeedTruncate
  \/ SeedGrant

Spec == Init /\ [][Next]_vars

\* A request that has arrived is served by its goroutine until it is answered,
\* and Redis removes an entry whose TTL has run out.  Nobody has to administer.
Fairness ==
  /\ \A q \in Requests :
       WF_vars(GetUserByID(q) \/ CacheGet(q) \/ DbRead(q) \/ CacheSet(q))
  /\ \A k \in Keys : WF_vars(Expire(k))

FairSpec == Spec /\ Fairness

-----------------------------------------------------------------------------
(* Properties.                                                             *)

Coherent(k) == cache[k] = Miss \/ cache[k] = rows[k]

\* A stale entry always has a cause one can name: an operation still at work on
\* that key, or an entry left behind by a failed DEL, an aborted bulk update,
\* the seeder, a user deletion, or a fill that a write overtook.  Without these
\* the cache agrees with Postgres, whatever the interleaving of fills and
\* invalidations (CachedGetRolePermissions against invalidateRolePermissionCache).
StaleExplained ==
  \A k \in Keys : Coherent(k) \/ k \in leftover \/ Working({k}) # {}

\* A request that arrives after its user was deleted is never let through, even
\* though DeleteUser leaves the user's permissions in Redis for a day: the
\* uncached GetUserByID comes first.
DeletedUserRefused ==
  \A q \in late : req[q].pc # "allowed"

\* A cache hit lets a request through only for a permission that has a row at
\* that moment, unless the entry is one StaleExplained accounts for.
HitMeansGranted ==
  [][\A q \in Requests :
       LET k == req'[q].key IN
       ( /\ req[q].pc = "get" /\ req'[q].pc = "allowed"
         /\ k \notin leftover /\ Working({k}) = {} )
       => rows[k] \cap Wanted # {}]_vars

\* A bulk update that reaches its end while nobody else writes the role leaves
\* exactly the requested permissions (the two loops of UpdateRolePermissions).
UpdateDelivers ==
  [][\A w \in Ops \ disturbed :
       ( /\ op[w].pc = "apply" /\ op'[w].pc = "done" )
       => rows'[op[w].key] = op[w].target]_vars

\* A permission that was revoked in Postgres does not stay in the cache: once
\* the last request is answered, the TTL ends every staleness, whatever caused
\* it, also when an administrative request never went on after its write.
StaleGrantEnds == <>[](\A k \in Keys : Coherent(k))

-----------------------------------------------------------------------------
(* The inductive strengthening the proofs use.                             *)

\* Rows on their way to Redis are never empty, and are those of Postgres unless
\* a write has overtaken them.
FillFresh ==
  \A q \in Requests : req[q].pc = "set" =>
    /\ req[q].got # {}
    /\ q \in overlapped \/ req[q].got = rows[req[q].key]

\* A request of a deleted user gets no further than GetUserByID.
LateStopped ==
  \A q \in late : req[q].pc \in {"user", "denied"} /\ req[q].user \notin users

\* The loops of a bulk update: what is granted is requested, what is revoked is
\* not, and an undisturbed role lacks exactly the work still to do.
UpdateProgress ==
  \A w \in Ops : op[w].pc = "apply" /\ op[w].kind = "update" =>
    /\ op[w].toGrant \subseteq op[w].target
    /\ op[w].toRevoke \cap op[w].target = {}
    /\ \/ w \in disturbed
       \/ rows[op[w].key] = (op[w].target \ op[w].toGrant) \cup op[w].toRevoke

CacheInv ==
  /\ TypeOK
  /\ FillFresh
  /\ StaleExplained
  /\ LateStopped
  /\ UpdateProgress

-----------------------------------------------------------------------------
\* What the documentation says of a row that does not exist: once every request
\* and operation is over, Redis grants nothing that has no row.
NoRowNotGranted ==
  ( /\ \A q \in Requests : req[q].pc \in {"idle", "allowed", "denied"}
    /\ \A w \in Ops : op[w].pc \in {"idle", "done"} )
  => \A k \in Keys : cache[k] # Miss => cache[k] \subseteq rows[k]

=============================================================================
