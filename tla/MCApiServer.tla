---------------------------- MODULE MCApiServer ----------------------------
(* Two requests: a refresh and the use of its token, or two in flight.  The *)
(* tokens of a login before are there from the start.                       *)
EXTENDS ApiServer
CONSTANTS q1, q2
=============================================================================
