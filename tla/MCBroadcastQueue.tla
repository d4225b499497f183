-------------------------- MODULE MCBroadcastQueue --------------------------
(* BroadcastQueue with a buffer of two, so that publishers meet it full.    *)
EXTENDS BroadcastQueue
CONSTANTS m1, m2, m3, g1, g2, s1, s2
=============================================================================
