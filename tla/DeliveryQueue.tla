--------------------------- MODULE DeliveryQueue ---------------------------
(***************************************************************************)
(* What the real-time message service promises its callers, without        *)
(* buffer, goroutines or shutdown: a message is offered once, leaves in    *)
(* the order of the offers, and is delivered at most once.                 *)
(***************************************************************************)
EXTENDS Sequences, Functions

CONSTANT Messages

VARIABLES
  pending,    \* offered, in order
  inflight,   \* taken, being emitted
  delivered   \* emitted, in order

avars == <<pending, inflight, delivered>>

Known == Range(pending) \cup inflight \cup Range(delivered)

AInit == pending = <<>> /\ inflight = {} /\ delivered = <<>>

Offer(m) ==
  /\ m \notin Known
  /\ pending' = Append(pending, m)
  /\ UNCHANGED <<inflight, delivered>>

Take ==
  /\ pending # <<>>
  /\ inflight' = inflight \cup {Head(pending)}
  /\ pending' = Tail(pending)
  /\ UNCHANGED delivered

Deliver(m) ==
  /\ m \in inflight
  /\ inflight' = inflight \ {m}
  /\ delivered' = Append(delivered, m)
  /\ UNCHANGED pending

ANext == Take \/ \E m \in Messages : Offer(m) \/ Deliver(m)

ASpec == AInit /\ [][ANext]_avars
=============================================================================
