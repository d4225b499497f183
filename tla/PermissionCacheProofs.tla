----------------------- MODULE PermissionCacheProofs -----------------------
(***************************************************************************)
(* Proofs about PermissionCache for any sets of roles, users, permissions, *)
(* requests and operations, with or without failures.  CacheInv is the     *)
(* inductive invariant; each conjunct has a lemma with one step per action.*)
(***************************************************************************)
EXTENDS PermissionCache, TLAPS

\* A non-empty set of permissions can be cached.
LEMMA CacheableType ==
  ASSUME NEW perms \in SUBSET Permissions, perms # {}
  PROVE  perms \in CacheValue
  BY DEF CacheValue

\* Judging rows moves a request on and keeps its state well formed.
LEMMA JudgeType ==
  ASSUME TypeOK, NEW q \in Requests, NEW k \in Keys, NEW perms
  PROVE  /\ Judge(q, k, perms) \in RequestState
         /\ Judge(q, k, perms).pc \in {"get", "allowed", "denied"}
         /\ Judge(q, k, perms).key = k
         /\ Judge(q, k, perms).user = req[q].user
         /\ Judge(q, k, perms).pc = "allowed" => perms \cap Wanted # {}
  BY DEF Judge, TypeOK, RequestState, Keys

\* A committed statement leaves rows a function of the keys, changes only the
\* keys it names, and marks every fill in progress on them.
LEMMA CommitType ==
  ASSUME TypeOK, NEW ks \in SUBSET Keys, NEW new \in [Keys -> SUBSET Permissions],
         Commit(ks, new)
  PROVE  /\ rows' \in [Keys -> SUBSET Permissions]
         /\ \A k \in Keys : rows'[k] = IF k \in ks THEN new[k] ELSE rows[k]
         /\ overlapped' = overlapped \cup Filling(ks)
         /\ overlapped' \subseteq Requests
  BY DEF Commit, Filling, TypeOK

\* Every step keeps the variables in their types; rows stored in Redis are not
\* empty because FillFresh holds (the len(perms) > 0 test).
LEMMA TypeStep == TypeOK /\ FillFresh /\ [Next]_vars => TypeOK'
  <1> SUFFICES ASSUME TypeOK, FillFresh, [Next]_vars PROVE TypeOK'
    OBVIOUS
  <1>1. ASSUME NEW q \in Requests, Arrive(q) PROVE TypeOK'
    BY <1>1 DEF Arrive, TypeOK, RequestState
  <1>2. ASSUME NEW q \in Requests, GetUserByID(q) PROVE TypeOK'
    BY <1>2 DEF GetUserByID, TypeOK, RequestState
  <1>3. ASSUME NEW q \in Requests, CacheGet(q) PROVE TypeOK'
    <2>1. PICK k \in NextKeys(q) :
            \/ req' = [req EXCEPT ![q] = Judge(q, k, cache[k])]
            \/ req' = [req EXCEPT ![q].pc = "read", ![q].key = k]
      BY <1>3 DEF CacheGet
    <2>2. k \in Keys
      BY <2>1 DEF NextKeys, TypeOK, RequestState, Keys
    <2>3. Judge(q, k, cache[k]) \in RequestState
      BY <2>2, JudgeType
    <2>4. [req[q] EXCEPT !.pc = "read", !.key = k] \in RequestState
      BY <2>2 DEF TypeOK, RequestState
    <2>5. CASE req' = [req EXCEPT ![q] = Judge(q, k, cache[k])]
      <3>1. req' \in [Requests -> RequestState]
        BY <2>3, <2>5 DEF TypeOK
      <3> QED
        BY <1>3, <3>1 DEF CacheGet, TypeOK
    <2>6. CASE req' = [req EXCEPT ![q].pc = "read", ![q].key = k]
      <3>1. req' = [req EXCEPT ![q] = [req[q] EXCEPT !.pc = "read", !.key = k]]
        BY <2>6 DEF TypeOK, RequestState
      <3>2. req' \in [Requests -> RequestState]
        BY <2>4, <3>1 DEF TypeOK
      <3> QED
        BY <1>3, <3>2 DEF CacheGet, TypeOK
    <2> QED
      BY <2>1, <2>5, <2>6
  <1>4. ASSUME NEW q \in Requests, DbRead(q) PROVE TypeOK'
    <2>1. req[q].key \in Keys
      BY DEF TypeOK, RequestState
    <2>2. Judge(q, req[q].key, {}) \in RequestState
      BY <2>1, JudgeType
    <2>3. req' \in [Requests -> RequestState]
      BY <1>4, <2>1, <2>2 DEF DbRead, TypeOK, RequestState
    <2> QED
      BY <1>4, <2>3 DEF DbRead, TypeOK
  <1>5. ASSUME NEW q \in Requests, CacheSet(q) PROVE TypeOK'
    <2>1. req[q].key \in Keys /\ req[q].got \in SUBSET Permissions /\ req[q].got # {}
      BY <1>5 DEF TypeOK, RequestState, FillFresh, CacheSet
    <2>2. Judge(q, req[q].key, req[q].got) \in RequestState
      BY <2>1, JudgeType
    <2>3. req' \in [Requests -> RequestState]
      BY <1>5, <2>2 DEF CacheSet, TypeOK
    <2>4. req[q].got \in CacheValue
      BY <2>1, CacheableType
    <2>5. cache' \in [Keys -> CacheValue] /\ leftover' \subseteq Keys
      <3>1. \/ cache' = [cache EXCEPT ![req[q].key] = req[q].got]
            \/ cache' = cache
        BY <1>5 DEF CacheSet
      <3>2. cache' \in [Keys -> CacheValue]
        BY <2>4, <3>1 DEF TypeOK
      <3> QED
        BY <1>5, <2>1, <3>2 DEF CacheSet, TypeOK
    <2> QED
      BY <1>5, <2>3, <2>5 DEF CacheSet, TypeOK
  <1>6. ASSUME NEW w \in Ops, BeginUpdate(w) PROVE TypeOK'
    BY <1>6 DEF BeginUpdate, TypeOK, OpState, Keys
  <1>7. ASSUME NEW w \in Ops, BeginChange(w) PROVE TypeOK'
    BY <1>7 DEF BeginChange, TypeOK, OpState
  <1>8. ASSUME NEW w \in Ops, GrantRow(w) PROVE TypeOK'
    <2> DEFINE k == op[w].key
    <2>1. PICK p \in op[w].toGrant :
            /\ Commit({k}, [rows EXCEPT ![k] = @ \cup {p}])
            /\ op' = [op EXCEPT ![w].toGrant = @ \ {p}]
      BY <1>8 DEF GrantRow
    <2>2. k \in Keys /\ p \in Permissions
      BY DEF TypeOK, OpState
    <2>3. [rows EXCEPT ![k] = @ \cup {p}] \in [Keys -> SUBSET Permissions]
      BY <2>2 DEF TypeOK
    <2>4. rows' \in [Keys -> SUBSET Permissions] /\ overlapped' \subseteq Requests
      BY <2>1, <2>2, <2>3, CommitType
    <2>5. op' \in [Ops -> OpState]
      BY <2>1 DEF TypeOK, OpState
    <2> QED
      BY <1>8, <2>4, <2>5 DEF GrantRow, TypeOK, Working
  <1>9. ASSUME NEW w \in Ops, RevokeRow(w) PROVE TypeOK'
    <2> DEFINE k == op[w].key
    <2>1. PICK p \in op[w].toRevoke :
            /\ Commit({k}, [rows EXCEPT ![k] = @ \ {p}])
            /\ op' = [op EXCEPT ![w].toRevoke = @ \ {p}]
      BY <1>9 DEF RevokeRow
    <2>2. k \in Keys
      BY DEF TypeOK, OpState
    <2>3. [rows EXCEPT ![k] = @ \ {p}] \in [Keys -> SUBSET Permissions]
      BY <2>2 DEF TypeOK
    <2>4. rows' \in [Keys -> SUBSET Permissions] /\ overlapped' \subseteq Requests
      BY <2>1, <2>2, <2>3, CommitType
    <2>5. op' \in [Ops -> OpState]
      BY <2>1 DEF TypeOK, OpState
    <2> QED
      BY <1>9, <2>4, <2>5 DEF RevokeRow, TypeOK, Working
  <1>10. ASSUME NEW w \in Ops, AbortOp(w) PROVE TypeOK'
    BY <1>10 DEF AbortOp, LeaveEntries, TypeOK, OpState
  <1>11. ASSUME NEW w \in Ops, Invalidate(w) PROVE TypeOK'
    <2>1. op[w].key \in Keys /\ Miss \in CacheValue
      BY DEF TypeOK, OpState, CacheValue
    <2>2. op' \in [Ops -> OpState]
      BY <1>11 DEF Invalidate, TypeOK, OpState
    <2> QED
      BY <1>11, <2>1, <2>2 DEF Invalidate, LeaveEntries, TypeOK
  <1>12. ASSUME NEW w \in Ops, LogPermissionChange(w) PROVE TypeOK'
    BY <1>12 DEF LogPermissionChange, TypeOK, OpState
  <1>13. ASSUME NEW k \in Keys, Expire(k) PROVE TypeOK'
    BY <1>13 DEF Expire, TypeOK, CacheValue
  <1>14. ASSUME NEW u \in Users, DeleteUser(u) PROVE TypeOK'
    <2>1. rows' \in [Keys -> SUBSET Permissions] /\ overlapped' \subseteq Requests
      BY <1>14, CommitType, {u} \subseteq Keys,
         [k \in Keys |-> {}] \in [Keys -> SUBSET Permissions] DEF DeleteUser, Keys
    <2> QED
      BY <1>14, <2>1 DEF DeleteUser, LeaveEntries, Working, TypeOK, Keys
  <1>15. ASSUME SeedTruncate PROVE TypeOK'
    <2>1. rows' \in [Keys -> SUBSET Permissions] /\ overlapped' \subseteq Requests
      BY <1>15, CommitType, Roles \subseteq Keys,
         [k \in Keys |-> {}] \in [Keys -> SUBSET Permissions]
         DEF SeedTruncate, Keys, TypeOK
    <2> QED
      BY <1>15, <2>1 DEF SeedTruncate, LeaveEntries, Working, TypeOK, Keys
  <1>16. ASSUME SeedGrant PROVE TypeOK'
    <2>1. PICK rp \in seeder.todo :
            /\ seeder' = [pc |-> IF seeder.todo = {rp} THEN "done" ELSE "granting",
                          todo |-> seeder.todo \ {rp}]
            /\ \/ /\ Commit({rp[1]}, [rows EXCEPT ![rp[1]] = @ \cup {rp[2]}])
                  /\ LeaveEntries({rp[1]})
                  /\ disturbed' = disturbed \cup Working({rp[1]})
               \/ UNCHANGED <<rows, overlapped, leftover, disturbed>>
      BY <1>16 DEF SeedGrant
    <2>2. rp[1] \in Keys /\ rp[2] \in Permissions /\ rp \in SeedMatrix
      BY PermissionCacheAssumption DEF TypeOK, Keys
    <2>3. [rows EXCEPT ![rp[1]] = @ \cup {rp[2]}] \in [Keys -> SUBSET Permissions]
      BY <2>2 DEF TypeOK
    <2>4. rows' \in [Keys -> SUBSET Permissions] /\ overlapped' \subseteq Requests
      BY <2>1, <2>2, <2>3, CommitType DEF TypeOK
    <2>5. leftover' \subseteq Keys /\ disturbed' \subseteq Ops
      BY <2>1, <2>2 DEF LeaveEntries, Working, TypeOK
    <2>6. seeder' \in [pc : {"idle", "granting", "done"}, todo : SUBSET SeedMatrix]
      BY <2>1 DEF TypeOK
    <2> QED
      BY <1>16, <2>4, <2>5, <2>6 DEF SeedGrant, TypeOK
  <1>17. ASSUME UNCHANGED vars PROVE TypeOK'
    BY <1>17 DEF vars, TypeOK
  <1> QED
    BY <1>1, <1>2, <1>3, <1>4, <1>5, <1>6, <1>7, <1>8, <1>9, <1>10, <1>11,
       <1>12, <1>13, <1>14, <1>15, <1>16, <1>17 DEF Next, RequestStep, OpStep

-----------------------------------------------------------------------------

\* A committed statement overtakes the fills of its keys and no other fill.
LEMMA CommitFill ==
  ASSUME TypeOK, FillFresh, UNCHANGED req,
         NEW ks \in SUBSET Keys, NEW new \in [Keys -> SUBSET Permissions],
         Commit(ks, new)
  PROVE  FillFresh'
  <1> SUFFICES ASSUME NEW q \in Requests, req[q].pc = "set"
               PROVE  /\ req[q].got # {}
                      /\ q \in overlapped' \/ req[q].got = rows'[req[q].key]
    BY DEF FillFresh
  <1>1. req[q].key \in Keys
    BY DEF TypeOK, RequestState
  <1>2. /\ rows'[req[q].key] = IF req[q].key \in ks THEN new[req[q].key]
                                                    ELSE rows[req[q].key]
        /\ overlapped' = overlapped \cup Filling(ks)
    BY <1>1, CommitType
  <1> QED
    BY <1>2 DEF FillFresh, Filling

\* Rows on their way to Redis stay those of Postgres or are marked.
LEMMA FillStep == TypeOK /\ FillFresh /\ [Next]_vars => FillFresh'
  <1> SUFFICES ASSUME TypeOK, FillFresh, [Next]_vars PROVE FillFresh'
    OBVIOUS
  <1>1. ASSUME NEW q \in Requests, Arrive(q) PROVE FillFresh'
    BY <1>1 DEF Arrive, FillFresh, TypeOK, RequestState
  <1>2. ASSUME NEW q \in Requests, GetUserByID(q) PROVE FillFresh'
    BY <1>2 DEF GetUserByID, FillFresh, TypeOK, RequestState
  <1>3. ASSUME NEW q \in Requests, CacheGet(q) PROVE FillFresh'
    <2>1. PICK k \in NextKeys(q) :
            \/ req' = [req EXCEPT ![q] = Judge(q, k, cache[k])]
            \/ req' = [req EXCEPT ![q].pc = "read", ![q].key = k]
      BY <1>3 DEF CacheGet
    <2>2. k \in Keys
      BY <2>1 DEF NextKeys, TypeOK, RequestState, Keys
    <2>3. Judge(q, k, cache[k]).pc # "set"
      BY <2>2, JudgeType
    <2>4. req'[q].pc # "set" /\ \A r \in Requests \ {q} : req'[r] = req[r]
      BY <2>1, <2>3 DEF TypeOK, RequestState
    <2> QED
      BY <1>3, <2>4 DEF CacheGet, FillFresh
  <1>4. ASSUME NEW q \in Requests, DbRead(q) PROVE FillFresh'
    <2>1. req[q].key \in Keys
      BY DEF TypeOK, RequestState
    <2>2. Judge(q, req[q].key, {}).pc # "set"
      BY <2>1, JudgeType
    <2>3. \A r \in Requests \ {q} : req'[r] = req[r] /\ (r \in overlapped' <=> r \in overlapped)
      BY <1>4 DEF DbRead, TypeOK
    <2>4. req'[q].pc = "set" => req'[q].got = rows[req'[q].key] /\ req'[q].got # {}
      BY <1>4, <2>2 DEF DbRead, TypeOK, RequestState
    <2> QED
      BY <1>4, <2>3, <2>4 DEF DbRead, FillFresh
  <1>5. ASSUME NEW q \in Requests, CacheSet(q) PROVE FillFresh'
    <2>1. Judge(q, req[q].key, req[q].got).pc # "set"
      BY JudgeType DEF TypeOK, RequestState
    <2>2. req'[q].pc # "set" /\ \A r \in Requests \ {q} : req'[r] = req[r]
      BY <1>5, <2>1 DEF CacheSet, TypeOK
    <2> QED
      BY <1>5, <2>2 DEF CacheSet, FillFresh
  <1>6. ASSUME NEW w \in Ops, BeginUpdate(w) \/ BeginChange(w) PROVE FillFresh'
    BY <1>6 DEF BeginUpdate, BeginChange, FillFresh
  <1>7. ASSUME NEW w \in Ops, GrantRow(w) PROVE FillFresh'
    <2>1. PICK p \in op[w].toGrant :
            Commit({op[w].key}, [rows EXCEPT ![op[w].key] = @ \cup {p}])
      BY <1>7 DEF GrantRow
    <2>2. /\ op[w].key \in Keys
          /\ [rows EXCEPT ![op[w].key] = @ \cup {p}] \in [Keys -> SUBSET Permissions]
      BY DEF TypeOK, OpState
    <2> QED
      BY <1>7, <2>1, <2>2, CommitFill DEF GrantRow
  <1>8. ASSUME NEW w \in Ops, RevokeRow(w) PROVE FillFresh'
    <2>1. PICK p \in op[w].toRevoke :
            Commit({op[w].key}, [rows EXCEPT ![op[w].key] = @ \ {p}])
      BY <1>8 DEF RevokeRow
    <2>2. /\ op[w].key \in Keys
          /\ [rows EXCEPT ![op[w].key] = @ \ {p}] \in [Keys -> SUBSET Permissions]
      BY DEF TypeOK, OpState
    <2> QED
      BY <1>8, <2>1, <2>2, CommitFill DEF RevokeRow
  <1>9. ASSUME NEW w \in Ops, AbortOp(w) \/ Invalidate(w) \/ LogPermissionChange(w)
        PROVE  FillFresh'
    BY <1>9 DEF AbortOp, Invalidate, LogPermissionChange, FillFresh
  <1>10. ASSUME NEW k \in Keys, Expire(k) PROVE FillFresh'
    BY <1>10 DEF Expire, FillFresh
  <1>11. ASSUME NEW u \in Users, DeleteUser(u) PROVE FillFresh'
    BY <1>11, CommitFill, {u} \subseteq Keys,
       [k \in Keys |-> {}] \in [Keys -> SUBSET Permissions] DEF DeleteUser, Keys
  <1>12. ASSUME SeedTruncate PROVE FillFresh'
    <2>1. CASE Commit(Roles, [k \in Keys |-> {}])
      BY <1>12, <2>1, CommitFill, Roles \subseteq Keys,
         [k \in Keys |-> {}] \in [Keys -> SUBSET Permissions] DEF SeedTruncate, Keys
    <2>2. CASE UNCHANGED <<rows, overlapped>>
      BY <1>12, <2>2 DEF SeedTruncate, FillFresh
    <2> QED
      BY <1>12, <2>1, <2>2 DEF SeedTruncate
  <1>13. ASSUME SeedGrant PROVE FillFresh'
    <2>1. PICK rp \in seeder.todo :
            \/ Commit({rp[1]}, [rows EXCEPT ![rp[1]] = @ \cup {rp[2]}])
            \/ UNCHANGED <<rows, overlapped>>
      BY <1>13 DEF SeedGrant
    <2>2. rp[1] \in Keys /\ rp[2] \in Permissions
      BY PermissionCacheAssumption DEF TypeOK, Keys
    <2>3. [rows EXCEPT ![rp[1]] = @ \cup {rp[2]}] \in [Keys -> SUBSET Permissions]
      BY <2>2 DEF TypeOK
    <2>4. CASE Commit({rp[1]}, [rows EXCEPT ![rp[1]] = @ \cup {rp[2]}])
      BY <1>13, <2>2, <2>3, <2>4, CommitFill DEF SeedGrant
    <2>5. CASE UNCHANGED <<rows, overlapped>>
      BY <1>13, <2>5 DEF SeedGrant, FillFresh
    <2> QED
      BY <2>1, <2>4, <2>5
  <1>14. ASSUME UNCHANGED vars PROVE FillFresh'
    BY <1>14 DEF vars, FillFresh
  <1> QED
    BY <1>1, <1>2, <1>3, <1>4, <1>5, <1>6, <1>7, <1>8, <1>9, <1>10, <1>11,
       <1>12, <1>13, <1>14 DEF Next, RequestStep, OpStep

-----------------------------------------------------------------------------

\* A key somebody is at work on, without the set.
LEMMA WorkingKey ==
  ASSUME NEW k
  PROVE  /\ Working({k}) # {} <=> \E w \in Ops : op[w].pc = "apply" /\ op[w].key = k
         /\ Working({k})' # {} <=> \E w \in Ops : op'[w].pc = "apply" /\ op'[w].key = k
  BY DEF Working

\* Steps that touch neither the rows nor the cache and end no operation.
LEMMA StaleKept ==
  ASSUME StaleExplained, UNCHANGED <<rows, cache, leftover>>,
         \A w \in Ops : op[w].pc = "apply" =>
                          op'[w].pc = "apply" /\ op'[w].key = op[w].key
  PROVE  StaleExplained'
  <1> SUFFICES ASSUME NEW k \in Keys
               PROVE  Coherent(k)' \/ k \in leftover' \/ Working({k})' # {}
    BY DEF StaleExplained
  <1> QED
    BY WorkingKey DEF StaleExplained, Coherent

\* A statement on the keys ks explains itself if its author is still at work on
\* them afterwards or declares the entries it leaves.
LEMMA CommitStale ==
  ASSUME TypeOK, StaleExplained, UNCHANGED cache,
         NEW ks \in SUBSET Keys, NEW new \in [Keys -> SUBSET Permissions],
         Commit(ks, new),
         \/ LeaveEntries(ks)
         \/ UNCHANGED leftover /\ \A k \in ks : Working({k})' # {},
         \A w \in Ops : op[w].pc = "apply" =>
                          op'[w].pc = "apply" /\ op'[w].key = op[w].key
  PROVE  StaleExplained'
  <1> SUFFICES ASSUME NEW k \in Keys
               PROVE  Coherent(k)' \/ k \in leftover' \/ Working({k})' # {}
    BY DEF StaleExplained
  <1>1. rows'[k] = IF k \in ks THEN new[k] ELSE rows[k]
    BY CommitType
  <1>2. CASE k \in ks
    BY <1>2 DEF LeaveEntries, Coherent
  <1>3. CASE k \notin ks
    <2>1. Coherent(k) \/ k \in leftover \/ Working({k}) # {}
      BY DEF StaleExplained
    <2>2. leftover \subseteq leftover'
      BY DEF LeaveEntries
    <2> QED
      BY <1>1, <1>3, <2>1, <2>2, WorkingKey DEF Coherent
  <1> QED
    BY <1>2, <1>3

\* No step leaves a stale entry without a cause.
LEMMA StaleStep == TypeOK /\ FillFresh /\ StaleExplained /\ [Next]_vars => StaleExplained'
  <1> SUFFICES ASSUME TypeOK, FillFresh, StaleExplained, [Next]_vars
               PROVE  StaleExplained'
    OBVIOUS
  <1>1. ASSUME NEW q \in Requests, Arrive(q) \/ GetUserByID(q) \/ CacheGet(q) \/ DbRead(q)
        PROVE  StaleExplained'
    BY <1>1, StaleKept DEF Arrive, GetUserByID, CacheGet, DbRead
  <1>2. ASSUME NEW q \in Requests, CacheSet(q) PROVE StaleExplained'
    <2> DEFINE kq == req[q].key
    <2> SUFFICES ASSUME NEW k \in Keys
                 PROVE  Coherent(k)' \/ k \in leftover' \/ Working({k})' # {}
      BY DEF StaleExplained
    <2>1. CASE UNCHANGED <<cache, leftover>>
      <3>1. StaleExplained'
        BY <1>2, <2>1, StaleKept DEF CacheSet
      <3> QED
        BY <3>1 DEF StaleExplained
    <2>2. CASE /\ cache' = [cache EXCEPT ![kq] = req[q].got]
               /\ leftover' = IF q \in overlapped THEN leftover \cup {kq}
                                                  ELSE leftover \ {kq}
      <3>1. CASE k = kq
        BY <1>2, <2>2, <3>1 DEF CacheSet, FillFresh, Coherent, TypeOK
      <3>2. CASE k # kq
        <4>1. cache'[k] = cache[k] /\ rows'[k] = rows[k] /\ (k \in leftover => k \in leftover')
          BY <1>2, <2>2, <3>2 DEF CacheSet, TypeOK
        <4>2. op' = op
          BY <1>2 DEF CacheSet
        <4> QED
          BY <4>1, <4>2, WorkingKey DEF StaleExplained, Coherent
      <3> QED
        BY <3>1, <3>2
    <2> QED
      BY <1>2, <2>1, <2>2 DEF CacheSet
  <1>3. ASSUME NEW w \in Ops, BeginUpdate(w) \/ BeginChange(w) PROVE StaleExplained'
    <2>1. op[w].pc = "idle" /\ \A v \in Ops \ {w} : op'[v] = op[v]
      BY <1>3 DEF BeginUpdate, BeginChange, TypeOK
    <2> QED
      BY <1>3, <2>1, StaleKept DEF BeginUpdate, BeginChange
  <1>4. ASSUME NEW w \in Ops, GrantRow(w) PROVE StaleExplained'
    <2>1. PICK p \in op[w].toGrant :
            /\ Commit({op[w].key}, [rows EXCEPT ![op[w].key] = @ \cup {p}])
            /\ op' = [op EXCEPT ![w].toGrant = @ \ {p}]
      BY <1>4 DEF GrantRow
    <2>2. /\ op[w].key \in Keys
          /\ [rows EXCEPT ![op[w].key] = @ \cup {p}] \in [Keys -> SUBSET Permissions]
      BY DEF TypeOK, OpState
    <2>3. \A v \in Ops : op'[v].pc = op[v].pc /\ op'[v].key = op[v].key
      BY <2>1 DEF TypeOK, OpState
    <2>4. op[w].pc = "apply"
      BY <1>4 DEF GrantRow
    <2>5. ASSUME NEW k \in {op[w].key} PROVE Working({k})' # {}
      BY <2>3, <2>4, WorkingKey
    <2>6. UNCHANGED cache /\ UNCHANGED leftover
      BY <1>4 DEF GrantRow
    <2>7. {op[w].key} \in SUBSET Keys
      BY <2>2
    <2>8. \A v \in Ops : op[v].pc = "apply" =>
                           op'[v].pc = "apply" /\ op'[v].key = op[v].key
      BY <2>3
    <2> QED
      BY <2>1, <2>2, <2>5, <2>6, <2>7, <2>8, CommitStale
  <1>5. ASSUME NEW w \in Ops, RevokeRow(w) PROVE StaleExplained'
    <2>1. PICK p \in op[w].toRevoke :
            /\ Commit({op[w].key}, [rows EXCEPT ![op[w].key] = @ \ {p}])
            /\ op' = [op EXCEPT ![w].toRevoke = @ \ {p}]
      BY <1>5 DEF RevokeRow
    <2>2. /\ op[w].key \in Keys
          /\ [rows EXCEPT ![op[w].key] = @ \ {p}] \in [Keys -> SUBSET Permissions]
      BY DEF TypeOK, OpState
    <2>3. \A v \in Ops : op'[v].pc = op[v].pc /\ op'[v].key = op[v].key
      BY <2>1 DEF TypeOK, OpState
    <2>4. op[w].pc = "apply"
      BY <1>5 DEF RevokeRow
    <2>5. ASSUME NEW k \in {op[w].key} PROVE Working({k})' # {}
      BY <2>3, <2>4, WorkingKey
    <2>6. UNCHANGED cache /\ UNCHANGED leftover
      BY <1>5 DEF RevokeRow
    <2>7. {op[w].key} \in SUBSET Keys
      BY <2>2
    <2>8. \A v \in Ops : op[v].pc = "apply" =>
                           op'[v].pc = "apply" /\ op'[v].key = op[v].key
      BY <2>3
    <2> QED
      BY <2>1, <2>2, <2>5, <2>6, <2>7, <2>8, CommitStale
  <1>6. ASSUME NEW w \in Ops, AbortOp(w) \/ Invalidate(w) PROVE StaleExplained'
    <2> SUFFICES ASSUME NEW k \in Keys
                 PROVE  Coherent(k)' \/ k \in leftover' \/ Working({k})' # {}
      BY DEF StaleExplained
    <2>1. rows' = rows /\ \A v \in Ops \ {w} : op'[v] = op[v]
      BY <1>6 DEF AbortOp, Invalidate, TypeOK
    <2>2. CASE k = op[w].key
      BY <1>6, <2>1, <2>2 DEF AbortOp, Invalidate, LeaveEntries, Coherent, TypeOK
    <2>3. CASE k # op[w].key
      <3>1. cache'[k] = cache[k] /\ (k \in leftover => k \in leftover')
        BY <1>6, <2>3 DEF AbortOp, Invalidate, LeaveEntries, TypeOK
      <3>2. Coherent(k) => Coherent(k)'
        BY <2>1, <3>1 DEF Coherent
      <3>3. Working({k}) # {} => Working({k})' # {}
        BY <2>1, <2>3, WorkingKey
      <3> QED
        BY <3>1, <3>2, <3>3 DEF StaleExplained
    <2> QED
      BY <2>2, <2>3
  <1>7. ASSUME NEW w \in Ops, LogPermissionChange(w) PROVE StaleExplained'
    <2>1. op[w].pc = "log" /\ \A v \in Ops \ {w} : op'[v] = op[v]
      BY <1>7 DEF LogPermissionChange, TypeOK
    <2> QED
      BY <1>7, <2>1, StaleKept DEF LogPermissionChange
  <1>8. ASSUME NEW e \in Keys, Expire(e) PROVE StaleExplained'
    <2> SUFFICES ASSUME NEW k \in Keys
                 PROVE  Coherent(k)' \/ k \in leftover' \/ Working({k})' # {}
      BY DEF StaleExplained
    <2>1. CASE k = e
      BY <1>8, <2>1 DEF Expire, Coherent, TypeOK
    <2>2. CASE k # e
      <3>1. cache'[k] = cache[k] /\ rows' = rows /\ op' = op
        BY <1>8, <2>2 DEF Expire, TypeOK
      <3>2. Coherent(k) => Coherent(k)'
        BY <3>1 DEF Coherent
      <3>3. Working({k}) # {} => Working({k})' # {}
        BY <3>1, WorkingKey
      <3>4. k \in leftover => k \in leftover'
        BY <1>8, <2>2 DEF Expire
      <3> QED
        BY <3>2, <3>3, <3>4 DEF StaleExplained
    <2> QED
      BY <2>1, <2>2
  <1>9. ASSUME NEW u \in Users, DeleteUser(u) PROVE StaleExplained'
    BY <1>9, CommitStale, {u} \subseteq Keys,
       [k \in Keys |-> {}] \in [Keys -> SUBSET Permissions] DEF DeleteUser, Keys
  <1>10. ASSUME SeedTruncate PROVE StaleExplained'
    <2>1. CASE Commit(Roles, [k \in Keys |-> {}]) /\ LeaveEntries(Roles)
      BY <1>10, <2>1, CommitStale, Roles \subseteq Keys,
         [k \in Keys |-> {}] \in [Keys -> SUBSET Permissions] DEF SeedTruncate, Keys
    <2>2. CASE UNCHANGED <<rows, leftover>>
      BY <1>10, <2>2, StaleKept DEF SeedTruncate
    <2> QED
      BY <1>10, <2>1, <2>2 DEF SeedTruncate
  <1>11. ASSUME SeedGrant PROVE StaleExplained'
    <2>1. PICK rp \in seeder.todo :
            \/ /\ Commit({rp[1]}, [rows EXCEPT ![rp[1]] = @ \cup {rp[2]}])
               /\ LeaveEntries({rp[1]})
            \/ UNCHANGED <<rows, leftover>>
      BY <1>11 DEF SeedGrant
    <2>2. rp[1] \in Keys /\ rp[2] \in Permissions
      BY PermissionCacheAssumption DEF TypeOK, Keys
    <2>3. [rows EXCEPT ![rp[1]] = @ \cup {rp[2]}] \in [Keys -> SUBSET Permissions]
      BY <2>2 DEF TypeOK
    <2>4. CASE /\ Commit({rp[1]}, [rows EXCEPT ![rp[1]] = @ \cup {rp[2]}])
               /\ LeaveEntries({rp[1]})
      BY <1>11, <2>2, <2>3, <2>4, CommitStale DEF SeedGrant
    <2>5. CASE UNCHANGED <<rows, leftover>>
      BY <1>11, <2>5, StaleKept DEF SeedGrant
    <2> QED
      BY <2>1, <2>4, <2>5
  <1>12. ASSUME UNCHANGED vars PROVE StaleExplained'
    BY <1>12, StaleKept DEF vars
  <1> QED
    BY <1>1, <1>2, <1>3, <1>4, <1>5, <1>6, <1>7, <1>8, <1>9, <1>10, <1>11,
       <1>12 DEF Next, RequestStep, OpStep

-----------------------------------------------------------------------------

\* A request of a deleted user stays where GetUserByID stops it.
LEMMA LateStep == TypeOK /\ LateStopped /\ [Next]_vars => LateStopped'
  <1> SUFFICES ASSUME TypeOK, LateStopped, [Next]_vars PROVE LateStopped'
    OBVIOUS
  <1>1. ASSUME NEW q \in Requests, Arrive(q) PROVE LateStopped'
    BY <1>1 DEF Arrive, LateStopped, TypeOK, RequestState
  <1>2. ASSUME NEW q \in Requests, GetUserByID(q) PROVE LateStopped'
    <2>1. \A r \in Requests \ {q} : req'[r] = req[r]
      BY <1>2 DEF GetUserByID, TypeOK
    <2>2. q \in late => req'[q].pc = "denied" /\ req'[q].user = req[q].user
      BY <1>2 DEF GetUserByID, LateStopped, TypeOK, RequestState
    <2> QED
      BY <1>2, <2>1, <2>2 DEF GetUserByID, LateStopped, TypeOK
  <1>3. ASSUME NEW q \in Requests, CacheGet(q) \/ DbRead(q) \/ CacheSet(q)
        PROVE  LateStopped'
    <2>1. q \notin late
      BY <1>3 DEF CacheGet, DbRead, CacheSet, LateStopped
    <2>2. \A r \in Requests \ {q} : req'[r] = req[r]
      BY <1>3 DEF CacheGet, DbRead, CacheSet, TypeOK
    <2>3. UNCHANGED <<users, late>>
      BY <1>3 DEF CacheGet, DbRead, CacheSet
    <2> QED
      BY <2>1, <2>2, <2>3 DEF LateStopped, TypeOK
  <1>4. ASSUME NEW w \in Ops, OpStep(w) PROVE LateStopped'
    <2>1. UNCHANGED <<users, req, late>>
      BY <1>4 DEF OpStep, BeginUpdate, BeginChange, GrantRow, RevokeRow, AbortOp,
                  Invalidate, LogPermissionChange
    <2> QED
      BY <2>1 DEF LateStopped
  <1>5. ASSUME NEW k \in Keys, Expire(k) PROVE LateStopped'
    BY <1>5 DEF Expire, LateStopped
  <1>6. ASSUME NEW u \in Users, DeleteUser(u) PROVE LateStopped'
    BY <1>6 DEF DeleteUser, LateStopped
  <1>7. ASSUME SeedTruncate \/ SeedGrant PROVE LateStopped'
    <2>1. UNCHANGED <<users, req, late>>
      BY <1>7 DEF SeedTruncate, SeedGrant
    <2> QED
      BY <2>1 DEF LateStopped
  <1>8. ASSUME UNCHANGED vars PROVE LateStopped'
    BY <1>8 DEF vars, LateStopped
  <1> QED
    BY <1>1, <1>2, <1>3, <1>4, <1>5, <1>6, <1>7, <1>8 DEF Next, RequestStep

-----------------------------------------------------------------------------

\* What UpdateProgress says of one operation.
Progress(w) ==
  op[w].pc = "apply" /\ op[w].kind = "update" =>
    /\ op[w].toGrant \subseteq op[w].target
    /\ op[w].toRevoke \cap op[w].target = {}
    /\ \/ w \in disturbed
       \/ rows[op[w].key] = (op[w].target \ op[w].toGrant) \cup op[w].toRevoke

\* Another's statement leaves an operation's progress as it was, or disturbs it.
LEMMA CommitProgress ==
  ASSUME TypeOK, UpdateProgress,
         NEW ks \in SUBSET Keys, NEW new \in [Keys -> SUBSET Permissions],
         Commit(ks, new),
         NEW w \in Ops, op'[w] = op[w],
         disturbed \subseteq disturbed', w \in Working(ks) => w \in disturbed'
  PROVE  Progress(w)'
  <1>1. op[w].key \in Keys
    BY DEF TypeOK, OpState
  <1>2. rows'[op[w].key] = IF op[w].key \in ks THEN new[op[w].key] ELSE rows[op[w].key]
    BY <1>1, CommitType
  <1>3. op[w].pc = "apply" /\ op[w].key \in ks => w \in disturbed'
    BY DEF Working
  <1>4. Progress(w)
    BY DEF UpdateProgress, Progress
  <1> QED
    BY <1>2, <1>3, <1>4 DEF Progress

\* Each loop iteration of a bulk update does one piece of the remaining work.
LEMMA UpdateStep == TypeOK /\ UpdateProgress /\ [Next]_vars => UpdateProgress'
  <1> SUFFICES ASSUME TypeOK, UpdateProgress, [Next]_vars, NEW w \in Ops
               PROVE  Progress(w)'
    BY DEF UpdateProgress, Progress
  <1>0. Progress(w)
    BY DEF UpdateProgress, Progress
  <1>1. ASSUME NEW q \in Requests, RequestStep(q) PROVE Progress(w)'
    <2>1. UNCHANGED <<rows, op, disturbed>>
      BY <1>1 DEF RequestStep, Arrive, GetUserByID, CacheGet, DbRead, CacheSet
    <2> QED
      BY <1>0, <2>1 DEF Progress
  <1>2. ASSUME NEW v \in Ops, BeginUpdate(v) PROVE Progress(w)'
    <2>1. PICK role \in Roles, target \in SUBSET Permissions :
            op' = [op EXCEPT ![v] =
                     [pc |-> "apply", kind |-> "update", key |-> role,
                      target   |-> target,
                      toGrant  |-> target \ rows[role],
                      toRevoke |-> rows[role] \ target]]
      BY <1>2 DEF BeginUpdate
    <2>2. CASE v = w
      <3>1. op'[w] = [pc |-> "apply", kind |-> "update", key |-> role,
                      target   |-> target,
                      toGrant  |-> target \ rows[role],
                      toRevoke |-> rows[role] \ target]
        BY <2>1, <2>2 DEF TypeOK
      <3>2. rows' = rows
        BY <1>2 DEF BeginUpdate
      <3>3. rows[role] = (target \ (target \ rows[role])) \cup (rows[role] \ target)
        OBVIOUS
      <3> QED
        BY <3>1, <3>2, <3>3 DEF Progress
    <2>3. CASE v # w
      BY <1>0, <1>2, <2>1, <2>3 DEF BeginUpdate, Progress, TypeOK
    <2> QED
      BY <2>2, <2>3
  <1>3. ASSUME NEW v \in Ops, BeginChange(v) PROVE Progress(w)'
    <2>1. CASE v = w
      BY <1>3, <2>1 DEF BeginChange, Progress, TypeOK
    <2>2. CASE v # w
      BY <1>0, <1>3, <2>2 DEF BeginChange, Progress, TypeOK
    <2> QED
      BY <2>1, <2>2
  <1>4. ASSUME NEW v \in Ops, GrantRow(v) PROVE Progress(w)'
    <2> DEFINE k == op[v].key
    <2>1. PICK p \in op[v].toGrant :
            /\ Commit({k}, [rows EXCEPT ![k] = @ \cup {p}])
            /\ op' = [op EXCEPT ![v].toGrant = @ \ {p}]
      BY <1>4 DEF GrantRow
    <2>2. /\ k \in Keys /\ {k} \in SUBSET Keys
          /\ [rows EXCEPT ![k] = @ \cup {p}] \in [Keys -> SUBSET Permissions]
      BY DEF TypeOK, OpState
    <2>3. disturbed' = disturbed \cup (Working({k}) \ {v})
      BY <1>4 DEF GrantRow
    <2>4. CASE v # w
      <3>1. op'[w] = op[w]
        BY <2>1, <2>4 DEF TypeOK
      <3> QED
        BY <2>1, <2>2, <2>3, <2>4, <3>1, CommitProgress
    <2>5. CASE v = w
      <3>1. rows'[k] = rows[k] \cup {p}
        BY <2>1, <2>2 DEF Commit, TypeOK
      <3>2. /\ op'[w].pc = op[w].pc /\ op'[w].kind = op[w].kind /\ op'[w].key = k
            /\ op'[w].target = op[w].target /\ op'[w].toRevoke = op[w].toRevoke
            /\ op'[w].toGrant = op[w].toGrant \ {p}
        BY <2>1, <2>5 DEF TypeOK, OpState
      <3> QED
        BY <1>0, <2>3, <2>5, <3>1, <3>2 DEF Progress
    <2> QED
      BY <2>4, <2>5
  <1>5. ASSUME NEW v \in Ops, RevokeRow(v) PROVE Progress(w)'
    <2> DEFINE k == op[v].key
    <2>1. PICK p \in op[v].toRevoke :
            /\ Commit({k}, [rows EXCEPT ![k] = @ \ {p}])
            /\ op' = [op EXCEPT ![v].toRevoke = @ \ {p}]
      BY <1>5 DEF RevokeRow
    <2>2. /\ k \in Keys /\ {k} \in SUBSET Keys
          /\ [rows EXCEPT ![k] = @ \ {p}] \in [Keys -> SUBSET Permissions]
      BY DEF TypeOK, OpState
    <2>3. disturbed' = disturbed \cup (Working({k}) \ {v})
      BY <1>5 DEF RevokeRow
    <2>4. CASE v # w
      <3>1. op'[w] = op[w]
        BY <2>1, <2>4 DEF TypeOK
      <3> QED
        BY <2>1, <2>2, <2>3, <2>4, <3>1, CommitProgress
    <2>5. CASE v = w
      <3>1. rows'[k] = rows[k] \ {p}
        BY <2>1, <2>2 DEF Commit, TypeOK
      <3>2. /\ op'[w].pc = op[w].pc /\ op'[w].kind = op[w].kind /\ op'[w].key = k
            /\ op'[w].target = op[w].target /\ op'[w].toGrant = op[w].toGrant
            /\ op'[w].toRevoke = op[w].toRevoke \ {p}
        BY <2>1, <2>5 DEF TypeOK, OpState
      <3> QED
        BY <1>0, <2>3, <2>5, <3>1, <3>2 DEF Progress
    <2> QED
      BY <2>4, <2>5
  <1>6. ASSUME NEW v \in Ops, AbortOp(v) \/ Invalidate(v) \/ LogPermissionChange(v)
        PROVE  Progress(w)'
    <2>1. UNCHANGED <<rows, disturbed>> /\ (w # v => op'[w] = op[w])
      BY <1>6 DEF AbortOp, Invalidate, LogPermissionChange, TypeOK
    <2>2. op'[v].pc # "apply"
      BY <1>6 DEF AbortOp, Invalidate, LogPermissionChange, TypeOK, OpState
    <2> QED
      BY <1>0, <2>1, <2>2 DEF Progress
  <1>7. ASSUME NEW k \in Keys, Expire(k) PROVE Progress(w)'
    BY <1>0, <1>7 DEF Expire, Progress
  <1>8. ASSUME NEW u \in Users, DeleteUser(u) PROVE Progress(w)'
    BY <1>8, CommitProgress, {u} \in SUBSET Keys,
       [k \in Keys |-> {}] \in [Keys -> SUBSET Permissions] DEF DeleteUser, Keys
  <1>9. ASSUME SeedTruncate PROVE Progress(w)'
    <2>1. CASE UNCHANGED <<rows, disturbed>>
      BY <1>0, <1>9, <2>1 DEF SeedTruncate, Progress
    <2>2. CASE /\ Commit(Roles, [k \in Keys |-> {}])
               /\ disturbed' = disturbed \cup Working(Roles)
      BY <1>9, <2>2, CommitProgress, Roles \in SUBSET Keys,
         [k \in Keys |-> {}] \in [Keys -> SUBSET Permissions] DEF SeedTruncate, Keys
    <2> QED
      BY <1>9, <2>1, <2>2 DEF SeedTruncate
  <1>10. ASSUME SeedGrant PROVE Progress(w)'
    <2>1. PICK rp \in seeder.todo :
            \/ /\ Commit({rp[1]}, [rows EXCEPT ![rp[1]] = @ \cup {rp[2]}])
               /\ disturbed' = disturbed \cup Working({rp[1]})
            \/ UNCHANGED <<rows, disturbed>>
      BY <1>10 DEF SeedGrant
    <2>2. rp[1] \in Keys /\ rp[2] \in Permissions
      BY PermissionCacheAssumption DEF TypeOK, Keys
    <2>3. [rows EXCEPT ![rp[1]] = @ \cup {rp[2]}] \in [Keys -> SUBSET Permissions]
      BY <2>2 DEF TypeOK
    <2>4. op' = op
      BY <1>10 DEF SeedGrant
    <2>5. CASE UNCHANGED <<rows, disturbed>>
      BY <1>0, <2>4, <2>5 DEF Progress
    <2>6. CASE /\ Commit({rp[1]}, [rows EXCEPT ![rp[1]] = @ \cup {rp[2]}])
               /\ disturbed' = disturbed \cup Working({rp[1]})
      BY <2>2, <2>3, <2>4, <2>6, CommitProgress
    <2> QED
      BY <2>1, <2>5, <2>6
  <1>11. ASSUME UNCHANGED vars PROVE Progress(w)'
    BY <1>0, <1>11 DEF vars, Progress
  <1> QED
    BY <1>1, <1>2, <1>3, <1>4, <1>5, <1>6, <1>7, <1>8, <1>9, <1>10, <1>11
       DEF Next, OpStep

-----------------------------------------------------------------------------

\* The invariant holds when the API starts: nothing is cached, nothing in flight.
LEMMA InitInv == Init => CacheInv
  <1> SUFFICES ASSUME Init PROVE CacheInv
    OBVIOUS
  <1>1. TypeOK
    <2>1. req \in [Requests -> RequestState]
      BY PermissionCacheAssumption DEF Init, RequestState, Keys
    <2>2. op \in [Ops -> OpState]
      BY PermissionCacheAssumption DEF Init, OpState, Keys
    <2>3. cache \in [Keys -> CacheValue]
      BY DEF Init, CacheValue
    <2> QED
      BY <2>1, <2>2, <2>3 DEF Init, TypeOK
  <1>2. FillFresh
    BY DEF Init, FillFresh
  <1>3. StaleExplained
    BY DEF Init, StaleExplained, Coherent
  <1>4. LateStopped /\ UpdateProgress
    BY DEF Init, LateStopped, UpdateProgress
  <1> QED
    BY <1>1, <1>2, <1>3, <1>4 DEF CacheInv

\* CacheInv is an invariant of the permission check: in particular the types.
THEOREM CacheInvariant == Spec => []CacheInv
  <1>1. Init => CacheInv
    BY InitInv
  <1>2. CacheInv /\ [Next]_vars => CacheInv'
    BY TypeStep, FillStep, StaleStep, LateStep, UpdateStep DEF CacheInv
  <1> QED
    BY <1>1, <1>2, PTL DEF Spec

\* The variables stay in their types; nothing empty is ever cached.
THEOREM TypeCorrect == Spec => []TypeOK
  <1>1. CacheInv => TypeOK
    BY DEF CacheInv
  <1> QED
    BY <1>1, CacheInvariant, PTL

\* Whatever the number of requests and operations and whatever fails, a stale
\* cache entry has one of the causes StaleExplained names.
THEOREM StaleAlwaysExplained == Spec => []StaleExplained
  <1>1. CacheInv => StaleExplained
    BY DEF CacheInv
  <1> QED
    BY <1>1, CacheInvariant, PTL

\* No request that arrives after its user's deletion is let through.
THEOREM DeletedUsersRefused == Spec => []DeletedUserRefused
  <1>1. CacheInv => DeletedUserRefused
    BY DEF CacheInv, LateStopped, DeletedUserRefused
  <1> QED
    BY <1>1, CacheInvariant, PTL

\* A hit that lets a request through is backed by a row, outside the causes of
\* StaleExplained.
THEOREM HitsMeanGranted == Spec => HitMeansGranted
  <1>1. CacheInv /\ [Next]_vars =>
          [\A q \in Requests :
             LET k == req'[q].key IN
             ( /\ req[q].pc = "get" /\ req'[q].pc = "allowed"
               /\ k \notin leftover /\ Working({k}) = {} )
             => rows[k] \cap Wanted # {}]_vars
    <2> SUFFICES ASSUME CacheInv, Next, NEW q \in Requests,
                        req[q].pc = "get", req'[q].pc = "allowed",
                        req'[q].key \notin leftover, Working({req'[q].key}) = {}
                 PROVE  rows[req'[q].key] \cap Wanted # {}
      OBVIOUS
    <2>0. TypeOK /\ StaleExplained
      BY DEF CacheInv
    <2>1. ASSUME NEW r \in Requests, Arrive(r) \/ GetUserByID(r) \/ DbRead(r) \/ CacheSet(r)
          PROVE  FALSE
      BY <2>0, <2>1 DEF Arrive, GetUserByID, DbRead, CacheSet, TypeOK
    <2>2. ASSUME NEW r \in Requests, CacheGet(r)
          PROVE  rows[req'[q].key] \cap Wanted # {}
      <3>1. r = q
        BY <2>0, <2>2 DEF CacheGet, TypeOK
      <3>2. PICK k \in NextKeys(q) :
              \/ cache[k] # Miss /\ req' = [req EXCEPT ![q] = Judge(q, k, cache[k])]
              \/ req' = [req EXCEPT ![q].pc = "read", ![q].key = k]
        BY <2>2, <3>1 DEF CacheGet
      <3>3. k \in Keys
        BY <2>0, <3>2 DEF NextKeys, TypeOK, RequestState, Keys
      <3>4. cache[k] # Miss /\ req'[q] = Judge(q, k, cache[k])
        BY <2>0, <3>2 DEF TypeOK, RequestState
      <3>5. req'[q].key = k /\ cache[k] \cap Wanted # {}
        BY <2>0, <3>3, <3>4, JudgeType
      <3>6. cache[k] = rows[k]
        BY <2>0, <3>3, <3>4, <3>5 DEF StaleExplained, Coherent
      <3> QED
        BY <3>5, <3>6
    <2>3. ASSUME NEW w \in Ops, OpStep(w) PROVE FALSE
      BY <2>3 DEF OpStep, BeginUpdate, BeginChange, GrantRow, RevokeRow, AbortOp,
                  Invalidate, LogPermissionChange
    <2>4. ASSUME NEW k \in Keys, Expire(k) PROVE FALSE
      BY <2>4 DEF Expire
    <2>5. ASSUME NEW u \in Users, DeleteUser(u) PROVE FALSE
      BY <2>5 DEF DeleteUser
    <2>6. ASSUME SeedTruncate \/ SeedGrant PROVE FALSE
      BY <2>6 DEF SeedTruncate, SeedGrant
    <2> QED
      BY <2>1, <2>2, <2>3, <2>4, <2>5, <2>6 DEF Next, RequestStep
  <1> QED
    BY <1>1, CacheInvariant, PTL DEF Spec, HitMeansGranted

\* A bulk update nobody disturbs ends with exactly the requested permissions.
THEOREM UpdatesDeliver == Spec => UpdateDelivers
  <1>1. CacheInv /\ [Next]_vars =>
          [\A w \in Ops \ disturbed :
             ( /\ op[w].pc = "apply" /\ op'[w].pc = "done" )
             => rows'[op[w].key] = op[w].target]_vars
    <2> SUFFICES ASSUME CacheInv, Next, NEW w \in Ops, w \notin disturbed,
                        op[w].pc = "apply", op'[w].pc = "done"
                 PROVE  rows'[op[w].key] = op[w].target
      OBVIOUS
    <2>0. TypeOK /\ UpdateProgress
      BY DEF CacheInv
    <2>1. ASSUME NEW v \in Ops, Invalidate(v)
          PROVE  rows'[op[w].key] = op[w].target
      <3>1. v = w
        BY <2>0, <2>1 DEF Invalidate, TypeOK
      <3>2. op[w].kind = "update" /\ op[w].toGrant = {} /\ op[w].toRevoke = {}
        BY <2>0, <2>1, <3>1 DEF Invalidate, TypeOK, OpState
      <3>3. rows[op[w].key] = op[w].target
        BY <2>0, <3>2 DEF UpdateProgress
      <3> QED
        BY <2>1, <3>3 DEF Invalidate
    <2>2. ASSUME NEW v \in Ops, BeginUpdate(v) \/ BeginChange(v) PROVE FALSE
      BY <2>0, <2>2 DEF BeginUpdate, BeginChange, TypeOK
    <2>3. ASSUME NEW v \in Ops, GrantRow(v) PROVE FALSE
      BY <2>0, <2>3 DEF GrantRow, TypeOK, OpState
    <2>4. ASSUME NEW v \in Ops, RevokeRow(v) PROVE FALSE
      BY <2>0, <2>4 DEF RevokeRow, TypeOK, OpState
    <2>5. ASSUME NEW v \in Ops, AbortOp(v) \/ LogPermissionChange(v) PROVE FALSE
      BY <2>0, <2>5 DEF AbortOp, LogPermissionChange, TypeOK, OpState
    <2>6. ASSUME NEW q \in Requests, RequestStep(q) PROVE FALSE
      BY <2>6 DEF RequestStep, Arrive, GetUserByID, CacheGet, DbRead, CacheSet
    <2>7. ASSUME NEW k \in Keys, Expire(k) PROVE FALSE
      BY <2>7 DEF Expire
    <2>8. ASSUME NEW u \in Users, DeleteUser(u) PROVE FALSE
      BY <2>8 DEF DeleteUser
    <2>9. ASSUME SeedTruncate \/ SeedGrant PROVE FALSE
      BY <2>9 DEF SeedTruncate, SeedGrant
    <2> QED
      BY <2>1, <2>2, <2>3, <2>4, <2>5, <2>6, <2>7, <2>8, <2>9 DEF Next, OpStep
  <1> QED
    BY <1>1, CacheInvariant, PTL DEF Spec, UpdateDelivers

=============================================================================
