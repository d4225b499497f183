--------------------------- MODULE BroadcastQueue ---------------------------
(***************************************************************************)
(* The real-time message service of example/socketio/handler: publishers   *)
(* put messages into a buffered Go channel, a background worker takes them *)
(* out and emits them through the Socket.IO server, Start and Stop control *)
(* the worker.                                                             *)
(*                                                                         *)
(* Go's primitives are taken as what they do: a send on msgChan appends to *)
(* the buffer, or queues its goroutine in sendq when the buffer is full,   *)
(* and a receive from a full buffer moves the first queued message into    *)
(* it; a receive on the closed stopChan is always ready; select picks any  *)
(* ready case.  The critical sections of Start and Stop under mu are one   *)
(* step each.  A message stands for its namespace, room and payload; the   *)
(* emission itself is external.                                            *)
(***************************************************************************)
EXTENDS Naturals, Sequences, Functions

CONSTANTS
  Messages,  \* each is published at most once
  Workers,   \* goroutines Start can spawn: one per successful Start
  Stops,     \* calls of Stop
  Cap        \* capacity of msgChan

ASSUME BroadcastAssumption == Cap \in Nat \ {0}

VARIABLES
  buffer,      \* msgChan
  sendq,       \* blocked senders of msgChan, as their messages
  pub,         \* what became of each message's Publish or channel send
  started,     \* service.started
  stopClosed,  \* stopChan is closed
  wpc,         \* the workers' position
  hand,        \* the message a worker has received: none or one
  stop,        \* the calls of Stop
  crashed,     \* a panic ended the process
  \* History, read by no step:
  dispatched,  \* messages emitted, in order
  offered,     \* messages whose send was begun and not refused, in order
  before       \* per call of Stop, the messages accepted when it began

vars == <<buffer, sendq, pub, started, stopClosed, wpc, hand, stop, crashed,
          dispatched, offered, before>>

NoHand == <<>>

TypeOK ==
  /\ buffer \in Seq(Messages)
  /\ Len(buffer) <= Cap
  /\ sendq \in Seq(Messages)
  /\ sendq # <<>> => Len(buffer) = Cap
  /\ pub \in [Messages -> {"idle", "blocked", "accepted", "dropped"}]
  /\ started \in BOOLEAN
  /\ stopClosed \in BOOLEAN
  /\ wpc \in [Workers -> {"unborn", "select", "emit", "drain", "drainEmit", "exited"}]
  /\ hand \in [Workers -> {NoHand} \cup {<<m>> : m \in Messages}]
  /\ stop \in [Stops -> {"idle", "waiting", "woken", "returned", "stopped"}]
  /\ crashed \in BOOLEAN
  /\ dispatched \in Seq(Messages)
  /\ offered \in Seq(Messages)
  /\ before \in [Stops -> SUBSET Messages]

Init ==
  /\ buffer = <<>>
  /\ sendq = <<>>
  /\ pub = [m \in Messages |-> "idle"]
  /\ started = FALSE
  /\ stopClosed = FALSE
  /\ wpc = [g \in Workers |-> "unborn"]
  /\ hand = [g \in Workers |-> NoHand]
  /\ stop = [s \in Stops |-> "idle"]
  /\ crashed = FALSE
  /\ dispatched = <<>>
  /\ offered = <<>>
  /\ before = [s \in Stops |-> {}]

-----------------------------------------------------------------------------
(* Publishers.                                                             *)

\* Mutant of Publish: a full buffer blocks nobody and refuses nobody.
PublishUnbounded(m) ==
  /\ pub[m] = "idle"
  /\ buffer' = Append(buffer, m)
  /\ pub' = [pub EXCEPT ![m] = "accepted"]
  /\ offered' = Append(offered, m)
  /\ UNCHANGED <<sendq, started, stopClosed, wpc, hand, stop, crashed,
                 dispatched, before>>

\* Publish, SendToUser, Broadcast, BroadcastToRoom: never wait.
Publish(m) ==
  /\ pub[m] = "idle"
  /\ \/ /\ Len(buffer) < Cap
        /\ buffer' = Append(buffer, m)
        /\ pub' = [pub EXCEPT ![m] = "accepted"]
        /\ offered' = Append(offered, m)
     \/ /\ Len(buffer) = Cap
        /\ pub' = [pub EXCEPT ![m] = "dropped"]
        /\ UNCHANGED <<buffer, offered>>
  /\ UNCHANGED <<sendq, started, stopClosed, wpc, hand, stop, crashed,
                 dispatched, before>>

\* Channel() <- m with room in the buffer is Publish; without room it waits.
SendBlocks(m) ==
  /\ pub[m] = "idle"
  /\ Len(buffer) = Cap
  /\ sendq' = Append(sendq, m)
  /\ pub' = [pub EXCEPT ![m] = "blocked"]
  /\ offered' = Append(offered, m)
  /\ UNCHANGED <<buffer, started, stopClosed, wpc, hand, stop, crashed,
                 dispatched, before>>

-----------------------------------------------------------------------------
(* Start and Stop.                                                         *)

\* Mutant of Start: the go statement is gone.
StartForgetsWorker(g) ==
  /\ ~started
  /\ wpc[g] = "unborn"
  /\ started' = TRUE
  /\ UNCHANGED <<buffer, sendq, pub, stopClosed, wpc, hand, stop, crashed,
                 dispatched, offered, before>>

\* Start of a service that is started returns, a stutter.
Start(g) ==
  /\ ~started
  /\ wpc[g] = "unborn"
  /\ started' = TRUE
  /\ wpc' = [wpc EXCEPT ![g] = "select"]
  /\ UNCHANGED <<buffer, sendq, pub, stopClosed, hand, stop, crashed,
                 dispatched, offered, before>>

\* The workers wg.Wait waits for.
Alive == {g \in Workers : wpc[g] \notin {"unborn", "exited"}}

Accepted == {m \in Messages : pub[m] = "accepted"}

\* Stop of a service that is not started returns.  stopChan is made once, by
\* NewService: the Stop after a restart closes it again, which panics.
StopCall(s) ==
  /\ stop[s] = "idle"
  /\ IF ~started
       THEN /\ stop' = [stop EXCEPT ![s] = "returned"]
            /\ UNCHANGED <<started, stopClosed, crashed, before>>
       ELSE /\ started' = FALSE
            /\ stopClosed' = TRUE
            /\ crashed' = stopClosed
            /\ stop' = [stop EXCEPT ![s] = "waiting"]
            /\ before' = [before EXCEPT ![s] = Accepted]
  /\ UNCHANGED <<buffer, sendq, pub, wpc, hand, dispatched, offered>>

\* The counter of wg is zero: wg.Wait is released.
WaitEnds(s) ==
  /\ stop[s] = "waiting"
  /\ Alive = {}
  /\ stop' = [stop EXCEPT ![s] = "woken"]
  /\ UNCHANGED <<buffer, sendq, pub, started, stopClosed, wpc, hand, crashed,
                 dispatched, offered, before>>

\* wg.Wait returns.  When a Start has added to wg in between, it may see that
\* and panic: wg is reused before the wait is over.
StopReturn(s) ==
  /\ stop[s] = "woken"
  /\ \/ stop' = [stop EXCEPT ![s] = "stopped"] /\ UNCHANGED crashed
     \/ Alive # {} /\ crashed' = TRUE /\ UNCHANGED stop
  /\ UNCHANGED <<buffer, sendq, pub, started, stopClosed, wpc, hand,
                 dispatched, offered, before>>

-----------------------------------------------------------------------------
(* The worker.                                                             *)

\* A receive: the head of the buffer, refilled by the first blocked sender.
Receive(g) ==
  /\ hand' = [hand EXCEPT ![g] = <<Head(buffer)>>]
  /\ IF sendq = <<>>
       THEN /\ buffer' = Tail(buffer)
            /\ UNCHANGED <<sendq, pub>>
       ELSE /\ buffer' = Append(Tail(buffer), Head(sendq))
            /\ sendq' = Tail(sendq)
            /\ pub' = [pub EXCEPT ![Head(sendq)] = "accepted"]

\* Mutant of Take: the channel is left as it is, so a message is taken again.
TakePeeks(g) ==
  /\ wpc[g] \in {"select", "drain"}
  /\ buffer # <<>>
  /\ hand' = [hand EXCEPT ![g] = <<Head(buffer)>>]
  /\ wpc' = [wpc EXCEPT ![g] = IF @ = "select" THEN "emit" ELSE "drainEmit"]
  /\ UNCHANGED <<buffer, sendq, pub, started, stopClosed, stop, crashed,
                 dispatched, offered, before>>

\* Mutant of Take: the newest message first.
TakeNewest(g) ==
  /\ wpc[g] \in {"select", "drain"}
  /\ buffer # <<>>
  /\ hand' = [hand EXCEPT ![g] = <<buffer[Len(buffer)]>>]
  /\ buffer' = SubSeq(buffer, 1, Len(buffer) - 1) \o
                 (IF sendq = <<>> THEN <<>> ELSE <<Head(sendq)>>)
  /\ sendq' = IF sendq = <<>> THEN sendq ELSE Tail(sendq)
  /\ pub' = IF sendq = <<>> THEN pub ELSE [pub EXCEPT ![Head(sendq)] = "accepted"]
  /\ wpc' = [wpc EXCEPT ![g] = IF @ = "select" THEN "emit" ELSE "drainEmit"]
  /\ UNCHANGED <<started, stopClosed, stop, crashed, dispatched, offered, before>>

\* case msg := <-s.msgChan of either select.
Take(g) ==
  /\ wpc[g] \in {"select", "drain"}
  /\ buffer # <<>>
  /\ Receive(g)
  /\ wpc' = [wpc EXCEPT ![g] = IF @ = "select" THEN "emit" ELSE "drainEmit"]
  /\ UNCHANGED <<started, stopClosed, stop, crashed, dispatched, offered, before>>

\* dispatch(msg), then back to the select it came from.
Dispatch(g) ==
  /\ wpc[g] \in {"emit", "drainEmit"}
  /\ dispatched' = dispatched \o hand[g]
  /\ hand' = [hand EXCEPT ![g] = NoHand]
  /\ wpc' = [wpc EXCEPT ![g] = IF @ = "emit" THEN "select" ELSE "drain"]
  /\ UNCHANGED <<buffer, sendq, pub, started, stopClosed, stop, crashed,
                 offered, before>>

\* Mutant of SeeStop: the worker returns at once.
SeeStopExits(g) ==
  /\ wpc[g] = "select"
  /\ stopClosed
  /\ wpc' = [wpc EXCEPT ![g] = "exited"]
  /\ UNCHANGED <<buffer, sendq, pub, started, stopClosed, hand, stop, crashed,
                 dispatched, offered, before>>

\* case <-s.stopChan: drain what is left.
SeeStop(g) ==
  /\ wpc[g] = "select"
  /\ stopClosed
  /\ wpc' = [wpc EXCEPT ![g] = "drain"]
  /\ UNCHANGED <<buffer, sendq, pub, started, stopClosed, hand, stop, crashed,
                 dispatched, offered, before>>

\* Mutant of Exit: the drain loop has no default case.
ExitNever(g) ==
  /\ wpc[g] = "drain"
  /\ buffer = <<>>
  /\ UNCHANGED vars

\* The drain loop's default case, and wg.Done.
Exit(g) ==
  /\ wpc[g] = "drain"
  /\ buffer = <<>>
  /\ wpc' = [wpc EXCEPT ![g] = "exited"]
  /\ UNCHANGED <<buffer, sendq, pub, started, stopClosed, hand, stop, crashed,
                 dispatched, offered, before>>

-----------------------------------------------------------------------------

WorkerStep(g) == ~crashed /\ (Take(g) \/ Dispatch(g) \/ SeeStop(g) \/ Exit(g))

Next ==
  \/ ~crashed /\ \E m \in Messages : Publish(m) \/ SendBlocks(m)
  \/ ~crashed /\ \E g \in Workers : Start(g)
  \/ ~crashed /\ \E s \in Stops : StopCall(s) \/ WaitEnds(s) \/ StopReturn(s)
  \/ \E g \in Workers : WorkerStep(g)

Spec == Init /\ [][Next]_vars

\* The Go scheduler runs every goroutine that can run.  Nobody must publish,
\* start or stop.
Fairness ==
  /\ \A g \in Workers : WF_vars(WorkerStep(g))
  /\ \A s \in Stops : WF_vars(~crashed /\ (WaitEnds(s) \/ StopReturn(s)))

FairSpec == Spec /\ Fairness

-----------------------------------------------------------------------------
(* Properties.                                                             *)

\* Messages sent and not received: the buffer, then the blocked senders.
Queue == buffer \o sendq

InHand == UNION {Range(hand[g]) : g \in Workers}

\* With one worker, what was offered is exactly what was emitted, what is in
\* hand, what is in the buffer and what waits for the buffer, in that order:
\* nothing is lost, duplicated or reordered, through the shutdown as well.
OnlyWorker(g) == \A h \in Workers : h # g => wpc[h] = "unborn"

Fifo ==
  \A g \in Workers : OnlyWorker(g) =>
    offered = dispatched \o hand[g] \o Queue

\* When a Stop that stopped the worker has returned, every message accepted
\* before that Stop has been emitted ("Stop gracefully shuts down").
StopDrains ==
  \A s \in Stops : stop[s] = "stopped" => before[s] \subseteq Range(dispatched)

\* Whatever the number of workers, the service is a DeliveryQueue: the blocked
\* senders are the tail of the queue.
Abstract == INSTANCE DeliveryQueue WITH
  pending   <- Queue,
  inflight  <- InHand,
  delivered <- dispatched

ImplementsQueue == Abstract!ASpec

\* While the service runs, an accepted message is emitted, and so is one whose
\* sender is blocked on a full channel: nothing but a Stop keeps it waiting.
AcceptedEmitted ==
  \A m \in Messages :
    (pub[m] \in {"accepted", "blocked"} /\ started) ~>
      (m \in Range(dispatched) \/ stopClosed)

\* A Stop returns once the publishers have stopped publishing (Messages is
\* finite): the drain loop ends and wg.Wait is released.
StopReturns ==
  \A s \in Stops : stop[s] = "waiting" ~> (stop[s] = "stopped" \/ crashed)

-----------------------------------------------------------------------------
(* The inductive strengthening the proofs use.                             *)

\* A worker holds a message exactly while it emits.
HandMatches ==
  \A g \in Workers : hand[g] # NoHand <=> wpc[g] \in {"emit", "drainEmit"}

\* A message is in one place only, until it is emitted.
Distinct ==
  /\ IsInjective(Queue)
  /\ \A g \in Workers : Range(hand[g]) \cap Range(Queue) = {}
  /\ \A g, h \in Workers : g # h => Range(hand[g]) \cap Range(hand[h]) = {}

\* Messages that are somewhere were offered, and accepted ones are somewhere.
Accounted ==
  \A m \in Messages :
    /\ m \in Range(Queue) \cup InHand \cup Range(dispatched) =>
         pub[m] \in {"accepted", "blocked"}
    /\ pub[m] = "accepted" =>
         m \in Range(buffer) \cup InHand \cup Range(dispatched)

\* Workers leave their loop only after a Stop; until then the service that is
\* started has one.
StopOrder ==
  /\ started /\ ~stopClosed => Alive # {}
  /\ \A g \in Workers : wpc[g] \in {"drain", "drainEmit", "exited"} => stopClosed

\* What a waiting Stop owes is emitted, in a hand, or in a buffer that a worker
\* is still to drain.
Owed ==
  \A s \in Stops : stop[s] = "waiting" /\ ~crashed =>
    \A m \in before[s] :
      \/ m \in InHand \cup Range(dispatched)
      \/ m \in Range(buffer) /\ Alive # {}

\* What a Stop owed has been emitted when its wait ends.
Drained ==
  \A s \in Stops :
    stop[s] \in {"woken", "stopped"} => before[s] \subseteq Range(dispatched)

BroadcastInv ==
  /\ TypeOK
  /\ HandMatches
  /\ Distinct
  /\ Accounted
  /\ StopOrder
  /\ Owed
  /\ Drained
  /\ Fifo

-----------------------------------------------------------------------------
\* What the comment on Start promises ("spawns the background worker goroutine
\* to process messages from the channel"), a restart after a Stop included, unless
\* a panic ends the process.
StartServes ==
  \A m \in Messages :
    (pub[m] = "accepted" /\ started) ~>
      (m \in Range(dispatched) \/ ~started \/ crashed)

=============================================================================
