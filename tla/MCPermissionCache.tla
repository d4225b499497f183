------------------------- MODULE MCPermissionCache -------------------------
(* Instances of PermissionCache for TLC: one role beside super_admin, one   *)
(* user, one seeded row; the cfgs choose requests, operations and faults.   *)
EXTENDS PermissionCache
CONSTANTS super, r1, u1, p1, q1, q2, w1
MCRoles == {super, r1}
MCSeedMatrix == {<<r1, p1>>}

(* The middleware and the permission service alone: no user is deleted and  *)
(* no seeder runs.                                                          *)
RevocationNext ==
  \/ \E q \in Requests : RequestStep(q)
  \/ \E w \in Ops : OpStep(w)
  \/ \E k \in Keys : Expire(k)

RevocationSpec == Init /\ [][RevocationNext]_vars
=============================================================================
