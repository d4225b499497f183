------------------------ MODULE BroadcastQueueProofs ------------------------
(***************************************************************************)
(* Proofs about BroadcastQueue for any set of messages, any number of      *)
(* workers and of calls of Stop, and any capacity.  Each step acts on      *)
(* Queue, the buffer and its blocked senders taken together, as on a plain *)
(* FIFO queue; that is proved once (OfferQueue, ReceiveQueue) and used for *)
(* the order of messages, for their distinctness and for the refinement.   *)
(***************************************************************************)
EXTENDS BroadcastQueue, SequenceTheorems, TLAPS

-----------------------------------------------------------------------------
(* Elements of sequences.                                                  *)

\* Append adds one element to the range.
LEMMA RangeAppend ==
  ASSUME NEW S, NEW seq \in Seq(S), NEW e \in S
  PROVE  Range(Append(seq, e)) = Range(seq) \cup {e}
  <1>1. /\ DOMAIN seq = 1 .. Len(seq)
        /\ Len(seq) \in Nat
        /\ DOMAIN Append(seq, e) = 1 .. Len(seq) + 1
        /\ \A i \in 1 .. Len(seq) : Append(seq, e)[i] = seq[i]
        /\ Append(seq, e)[Len(seq) + 1] = e
    BY LenProperties, AppendProperties
  <1>2. ASSUME NEW x \in Range(Append(seq, e)) PROVE x \in Range(seq) \cup {e}
    BY <1>1 DEF Range
  <1>3. ASSUME NEW x \in Range(seq) PROVE x \in Range(Append(seq, e))
    BY <1>1 DEF Range
  <1>4. e \in Range(Append(seq, e))
    BY <1>1 DEF Range
  <1> QED
    BY <1>2, <1>3, <1>4

\* A sequence that is not empty consists of its head and its tail.
LEMMA RangeTail ==
  ASSUME NEW S, NEW seq \in Seq(S), seq # <<>>
  PROVE  Range(seq) = {Head(seq)} \cup Range(Tail(seq))
  <1>1. /\ DOMAIN seq = 1 .. Len(seq)
        /\ Len(seq) \in Nat \ {0}
        /\ DOMAIN Tail(seq) = 1 .. Len(seq) - 1
        /\ \A i \in 1 .. Len(seq) - 1 : Tail(seq)[i] = seq[i + 1]
        /\ Head(seq) = seq[1]
    BY LenProperties, HeadTailProperties, EmptySeq
  <1>2. ASSUME NEW x \in Range(seq) PROVE x \in {Head(seq)} \cup Range(Tail(seq))
    <2>1. PICK i \in 1 .. Len(seq) : x = seq[i]
      BY <1>1 DEF Range
    <2>2. CASE i = 1
      BY <1>1, <2>1, <2>2
    <2>3. CASE i # 1
      <3>1. i - 1 \in 1 .. Len(seq) - 1 /\ Tail(seq)[i - 1] = x
        BY <1>1, <2>1, <2>3
      <3> QED
        BY <1>1, <3>1 DEF Range
    <2> QED
      BY <2>2, <2>3
  <1>3. Head(seq) \in Range(seq)
    BY <1>1 DEF Range
  <1>4. ASSUME NEW x \in Range(Tail(seq)) PROVE x \in Range(seq)
    BY <1>1 DEF Range
  <1> QED
    BY <1>2, <1>3, <1>4

\* A concatenation has the elements of both parts.
LEMMA RangeConcat ==
  ASSUME NEW S, NEW s \in Seq(S), NEW t \in Seq(S)
  PROVE  Range(s \o t) = Range(s) \cup Range(t)
  <1>1. /\ DOMAIN s = 1 .. Len(s) /\ Len(s) \in Nat
        /\ DOMAIN t = 1 .. Len(t) /\ Len(t) \in Nat
        /\ DOMAIN (s \o t) = 1 .. Len(s) + Len(t)
        /\ \A i \in 1 .. Len(s) + Len(t) :
             (s \o t)[i] = IF i <= Len(s) THEN s[i] ELSE t[i - Len(s)]
    BY LenProperties, ConcatProperties
  <1>2. ASSUME NEW x \in Range(s \o t) PROVE x \in Range(s) \cup Range(t)
    <2>1. PICK i \in 1 .. Len(s) + Len(t) : x = (s \o t)[i]
      BY <1>1 DEF Range
    <2>2. CASE i <= Len(s)
      BY <1>1, <2>1, <2>2 DEF Range
    <2>3. CASE ~(i <= Len(s))
      <3>1. i - Len(s) \in 1 .. Len(t) /\ x = t[i - Len(s)]
        BY <1>1, <2>1, <2>3
      <3> QED
        BY <1>1, <3>1 DEF Range
    <2> QED
      BY <2>2, <2>3
  <1>3. ASSUME NEW x \in Range(s) PROVE x \in Range(s \o t)
    BY <1>1 DEF Range
  <1>4. ASSUME NEW x \in Range(t) PROVE x \in Range(s \o t)
    <2>1. PICK i \in 1 .. Len(t) : x = t[i]
      BY <1>1 DEF Range
    <2>2. i + Len(s) \in 1 .. Len(s) + Len(t) /\ (s \o t)[i + Len(s)] = x
      BY <1>1, <2>1
    <2> QED
      BY <1>1, <2>2 DEF Range
  <1> QED
    BY <1>2, <1>3, <1>4

\* Appending an element that is new keeps a sequence free of repetitions.
LEMMA InjectiveAppend ==
  ASSUME NEW S, NEW seq \in Seq(S), NEW e \in S,
         IsInjective(seq), e \notin Range(seq)
  PROVE  IsInjective(Append(seq, e))
  <1>1. /\ DOMAIN seq = 1 .. Len(seq)
        /\ Len(seq) \in Nat
        /\ DOMAIN Append(seq, e) = 1 .. Len(seq) + 1
        /\ \A i \in 1 .. Len(seq) : Append(seq, e)[i] = seq[i]
        /\ Append(seq, e)[Len(seq) + 1] = e
    BY LenProperties, AppendProperties
  <1>2. \A i \in 1 .. Len(seq) : seq[i] # e
    BY <1>1 DEF Range
  <1> QED
    BY <1>1, <1>2 DEF IsInjective

\* In a sequence free of repetitions the head is not in the tail.
LEMMA InjectiveTail ==
  ASSUME NEW S, NEW seq \in Seq(S), seq # <<>>, IsInjective(seq)
  PROVE  IsInjective(Tail(seq)) /\ Head(seq) \notin Range(Tail(seq))
  <1>1. /\ DOMAIN seq = 1 .. Len(seq)
        /\ Len(seq) \in Nat \ {0}
        /\ DOMAIN Tail(seq) = 1 .. Len(seq) - 1
        /\ \A i \in 1 .. Len(seq) - 1 : Tail(seq)[i] = seq[i + 1]
        /\ Head(seq) = seq[1]
    BY LenProperties, HeadTailProperties, EmptySeq
  <1>2. IsInjective(Tail(seq))
    BY <1>1 DEF IsInjective
  <1>3. ASSUME NEW i \in 1 .. Len(seq) - 1 PROVE Tail(seq)[i] # Head(seq)
    BY <1>1 DEF IsInjective
  <1> QED
    BY <1>1, <1>2, <1>3 DEF Range

\* Taking the head of the second part of a concatenation.
LEMMA ShiftHead ==
  ASSUME NEW S, NEW s \in Seq(S), NEW t \in Seq(S), t # <<>>
  PROVE  (s \o <<Head(t)>>) \o Tail(t) = s \o t
  <1>1. Head(t) \in S /\ Tail(t) \in Seq(S) /\ <<Head(t)>> \in Seq(S)
    BY HeadTailProperties
  <1>2. <<Head(t)>> \o Tail(t) = t
    <2>1. <<Head(t)>> \o Tail(t) \in Seq(S)
      BY <1>1, ConcatProperties
    <2>2. Len(<<Head(t)>> \o Tail(t)) = Len(t)
      BY <1>1, ConcatProperties, HeadTailProperties, LenProperties
    <2>3. ASSUME NEW i \in 1 .. Len(t) PROVE (<<Head(t)>> \o Tail(t))[i] = t[i]
      BY <1>1, ConcatProperties, HeadTailProperties, LenProperties
    <2> QED
      BY <2>1, <2>2, <2>3, SeqEqual
  <1> QED
    BY <1>1, <1>2, ConcatAssociative

\* Head and tail of a concatenation whose first part is not empty.
LEMMA ConcatHeadTail ==
  ASSUME NEW S, NEW s \in Seq(S), NEW t \in Seq(S), s # <<>>
  PROVE  /\ s \o t # <<>>
         /\ Head(s \o t) = Head(s)
         /\ Tail(s \o t) = Tail(s) \o t
  <1>1. /\ Len(s) \in Nat \ {0} /\ Len(t) \in Nat
        /\ s \o t \in Seq(S)
        /\ Len(s \o t) = Len(s) + Len(t)
        /\ \A i \in 1 .. Len(s) + Len(t) :
             (s \o t)[i] = IF i <= Len(s) THEN s[i] ELSE t[i - Len(s)]
    BY LenProperties, ConcatProperties, EmptySeq
  <1>2. s \o t # <<>>
    BY <1>1, EmptySeq
  <1>3. Head(s \o t) = Head(s)
    BY <1>1, <1>2, HeadTailProperties
  <1>4. /\ Tail(s) \in Seq(S) /\ Len(Tail(s)) = Len(s) - 1
        /\ \A i \in 1 .. Len(s) - 1 : Tail(s)[i] = s[i + 1]
        /\ Tail(s \o t) \in Seq(S) /\ Len(Tail(s \o t)) = Len(s) + Len(t) - 1
        /\ \A i \in 1 .. Len(s) + Len(t) - 1 : Tail(s \o t)[i] = (s \o t)[i + 1]
    BY <1>1, <1>2, HeadTailProperties
  <1>5. /\ Tail(s) \o t \in Seq(S)
        /\ Len(Tail(s) \o t) = Len(s) - 1 + Len(t)
        /\ \A i \in 1 .. Len(s) - 1 + Len(t) :
             (Tail(s) \o t)[i] = IF i <= Len(s) - 1 THEN Tail(s)[i]
                                                    ELSE t[i - (Len(s) - 1)]
    BY <1>4, ConcatProperties
  <1>6. ASSUME NEW i \in 1 .. Len(s) + Len(t) - 1
        PROVE  Tail(s \o t)[i] = (Tail(s) \o t)[i]
    BY <1>1, <1>4, <1>5
  <1>7. Tail(s \o t) = Tail(s) \o t
    BY <1>1, <1>4, <1>5, <1>6, SeqEqual
  <1> QED
    BY <1>2, <1>3, <1>7

-----------------------------------------------------------------------------
(* What the steps do to the queue.                                         *)

\* The types the sequence lemmas need.
LEMMA QueueType ==
  ASSUME TypeOK
  PROVE  /\ buffer \in Seq(Messages) /\ sendq \in Seq(Messages)
         /\ Queue \in Seq(Messages)
         /\ Range(Queue) = Range(buffer) \cup Range(sendq)
  BY ConcatProperties, RangeConcat DEF TypeOK, Queue

\* A blocked sender refills the buffer.
LEMMA RefillRange ==
  ASSUME TypeOK, buffer # <<>>, sendq # <<>>
  PROVE  Range(Append(Tail(buffer), Head(sendq))) =
           Range(Tail(buffer)) \cup {Head(sendq)}
  <1>1. Tail(buffer) \in Seq(Messages) /\ Head(sendq) \in Messages
    BY HeadTailProperties DEF TypeOK
  <1>2. \A seq \in Seq(Messages), e \in Messages :
          Range(Append(seq, e)) = Range(seq) \cup {e}
    BY RangeAppend
  <1> QED
    BY <1>1, <1>2

\* Whatever is in a hand is a message.
LEMMA HandType ==
  ASSUME TypeOK, NEW g \in Workers
  PROVE  /\ hand[g] \in Seq(Messages)
         /\ \/ hand[g] = NoHand /\ Range(hand[g]) = {}
            \/ \E m \in Messages : hand[g] = <<m>> /\ Range(hand[g]) = {m}
  <1>1. CASE hand[g] = NoHand
    BY <1>1, EmptySeq DEF NoHand, Range
  <1>2. CASE hand[g] # NoHand
    <2>1. PICK m \in Messages : hand[g] = <<m>>
      BY <1>2 DEF TypeOK
    <2>2. DOMAIN <<m>> = {1} /\ <<m>>[1] = m
      OBVIOUS
    <2> QED
      BY <2>1, <2>2 DEF Range
  <1> QED
    BY <1>1, <1>2

\* A publisher whose message is not refused appends it to the queue.
LEMMA OfferQueue ==
  ASSUME TypeOK, NEW m \in Messages, Publish(m) \/ SendBlocks(m)
  PROVE  /\ pub[m] = "idle"
         /\ \/ /\ Queue' = Append(Queue, m)
               /\ offered' = Append(offered, m)
               /\ pub' \in {[pub EXCEPT ![m] = "accepted"],
                            [pub EXCEPT ![m] = "blocked"]}
            \/ /\ UNCHANGED <<buffer, sendq, offered>>
               /\ pub' = [pub EXCEPT ![m] = "dropped"]
         /\ UNCHANGED <<hand, wpc, stop, started, stopClosed, crashed,
                        dispatched, before>>
  <1>1. CASE Publish(m) /\ Len(buffer) < Cap
    <2>1. sendq = <<>> /\ buffer' = Append(buffer, m) /\ sendq' = sendq
      BY <1>1 DEF Publish, TypeOK
    <2>2. Append(buffer, m) \in Seq(Messages)
      BY AppendProperties DEF TypeOK
    <2>3. Queue' = Append(buffer, m) /\ Queue = buffer
      BY <2>1, <2>2, ConcatEmptySeq DEF Queue, TypeOK
    <2> QED
      BY <1>1, <2>3 DEF Publish, TypeOK
  <1>2. CASE Publish(m) /\ Len(buffer) = Cap
    BY <1>2 DEF Publish, TypeOK
  <1>3. CASE SendBlocks(m)
    <2>1. buffer \o Append(sendq, m) = Append(buffer \o sendq, m)
      <3>1. /\ Append(sendq, m) = sendq \o <<m>>
            /\ Append(buffer \o sendq, m) = (buffer \o sendq) \o <<m>>
        BY AppendIsConcat, QueueType DEF Queue
      <3> QED
        BY <3>1, ConcatAssociative, QueueType
    <2> QED
      BY <1>3, <2>1 DEF SendBlocks, Queue
  <1> QED
    BY <1>1, <1>2, <1>3 DEF Publish

\* A worker that receives takes the head of the queue, whether or not a blocked
\* sender moves into the buffer.
LEMMA ReceiveQueue ==
  ASSUME TypeOK, NEW g \in Workers, Take(g)
  PROVE  /\ Queue # <<>>
         /\ Queue' = Tail(Queue)
         /\ hand' = [hand EXCEPT ![g] = <<Head(Queue)>>]
         /\ wpc[g] \in {"select", "drain"}
  <1>1. buffer # <<>> /\ Receive(g)
    BY DEF Take
  <1>2. /\ Queue # <<>> /\ Head(Queue) = Head(buffer)
        /\ Tail(Queue) = Tail(buffer) \o sendq
    BY <1>1, QueueType, ConcatHeadTail DEF Queue
  <1>3. Tail(buffer) \in Seq(Messages)
    BY <1>1, QueueType, HeadTailProperties
  <1>4. CASE sendq = <<>>
    BY <1>1, <1>2, <1>4 DEF Receive, Queue, Take
  <1>5. CASE sendq # <<>>
    <2>1. Head(sendq) \in Messages
      BY <1>5, QueueType, HeadTailProperties
    <2>2. Queue' = Append(Tail(buffer), Head(sendq)) \o Tail(sendq)
      BY <1>1, <1>5 DEF Receive, Queue
    <2>3. Append(Tail(buffer), Head(sendq)) = Tail(buffer) \o <<Head(sendq)>>
      BY <1>3, <2>1, AppendIsConcat
    <2>4. Queue' = Tail(buffer) \o sendq
      BY <1>3, <1>5, <2>2, <2>3, QueueType, ShiftHead
    <2> QED
      BY <1>1, <1>2, <2>4 DEF Receive, Take
  <1> QED
    BY <1>4, <1>5

\* A dispatch appends the message in hand to what was emitted.
LEMMA DispatchQueue ==
  ASSUME TypeOK, HandMatches, NEW g \in Workers, Dispatch(g)
  PROVE  \E m \in Messages :
           /\ hand[g] = <<m>>
           /\ dispatched' = Append(dispatched, m)
           /\ Range(dispatched') = Range(dispatched) \cup {m}
           /\ hand' = [hand EXCEPT ![g] = NoHand]
           /\ UNCHANGED <<buffer, sendq, offered, pub>>
  <1>1. PICK m \in Messages : hand[g] = <<m>>
    BY HandType DEF Dispatch, HandMatches
  <1>2. Append(dispatched, m) = dispatched \o <<m>>
    BY AppendIsConcat DEF TypeOK
  <1>3. Range(Append(dispatched, m)) = Range(dispatched) \cup {m}
    BY RangeAppend DEF TypeOK
  <1> QED
    BY <1>1, <1>2, <1>3 DEF Dispatch

-----------------------------------------------------------------------------
(* The inductive invariant, one lemma per conjunct.                        *)

LEMMA TypeStep ==
  ASSUME TypeOK, [Next]_vars
  PROVE  TypeOK'
  <1>1. ASSUME NEW m \in Messages, Publish(m) PROVE TypeOK'
    <2>1. Append(offered, m) \in Seq(Messages)
      BY AppendProperties DEF TypeOK
    <2>2. CASE Len(buffer) < Cap
      <3>1. /\ Append(buffer, m) \in Seq(Messages)
            /\ Len(Append(buffer, m)) = Len(buffer) + 1
            /\ Len(buffer) \in Nat
        BY AppendProperties, LenProperties DEF TypeOK
      <3>2. sendq = <<>>
        BY <2>2 DEF TypeOK
      <3>3. Len(buffer) + 1 <= Cap
        BY <2>2, <3>1, BroadcastAssumption
      <3>4. buffer' = Append(buffer, m)
        BY <1>1, <2>2, <3>1 DEF Publish
      <3>5. buffer' \in Seq(Messages) /\ Len(buffer') <= Cap
        BY <3>1, <3>3, <3>4
      <3>6. pub' = [pub EXCEPT ![m] = "accepted"] /\ offered' = Append(offered, m)
        BY <1>1, <2>2, <3>1 DEF Publish
      <3> QED
        BY <1>1, <2>1, <3>2, <3>5, <3>6 DEF Publish, TypeOK
    <2>3. CASE Len(buffer) = Cap
      <3>1. /\ UNCHANGED <<buffer, offered>>
            /\ pub' = [pub EXCEPT ![m] = "dropped"]
        BY <1>1, <2>3, BroadcastAssumption DEF Publish
      <3> QED
        BY <1>1, <3>1 DEF Publish, TypeOK
    <2> QED
      BY <1>1, <2>2, <2>3 DEF Publish
  <1>2. ASSUME NEW m \in Messages, SendBlocks(m) PROVE TypeOK'
    <2>1. Append(offered, m) \in Seq(Messages) /\ Append(sendq, m) \in Seq(Messages)
      BY AppendProperties DEF TypeOK
    <2> QED
      BY <1>2, <2>1 DEF SendBlocks, TypeOK
  <1>3. ASSUME NEW g \in Workers, Start(g) PROVE TypeOK'
    BY <1>3 DEF Start, TypeOK
  <1>4. ASSUME NEW s \in Stops, StopCall(s) PROVE TypeOK'
    BY <1>4 DEF StopCall, TypeOK, Accepted
  <1>5. ASSUME NEW s \in Stops, WaitEnds(s) \/ StopReturn(s) PROVE TypeOK'
    BY <1>5 DEF WaitEnds, StopReturn, TypeOK
  <1>6. ASSUME NEW g \in Workers, Take(g) PROVE TypeOK'
    <2>1. /\ buffer # <<>>
          /\ Head(buffer) \in Messages /\ Tail(buffer) \in Seq(Messages)
          /\ Len(Tail(buffer)) = Len(buffer) - 1 /\ Len(buffer) \in Nat
      BY <1>6, HeadTailProperties, LenProperties DEF Take, TypeOK
    <2>2. /\ hand' \in [Workers -> {NoHand} \cup {<<m>> : m \in Messages}]
          /\ wpc' \in [Workers -> {"unborn", "select", "emit", "drain", "drainEmit", "exited"}]
      BY <1>6, <2>1 DEF Take, Receive, TypeOK
    <2>3. CASE sendq = <<>>
      <3>1. buffer' = Tail(buffer) /\ UNCHANGED <<sendq, pub>>
        BY <1>6, <2>3 DEF Take, Receive
      <3>2. Len(buffer) <= Cap
        BY DEF TypeOK
      <3>3. buffer' \in Seq(Messages) /\ Len(buffer') <= Cap
        BY <2>1, <3>1, <3>2, BroadcastAssumption
      <3> QED
        BY <1>6, <2>2, <2>3, <3>1, <3>3 DEF Take, TypeOK
    <2>4. CASE sendq # <<>>
      <3>1. Head(sendq) \in Messages /\ Tail(sendq) \in Seq(Messages)
        BY <2>4, HeadTailProperties DEF TypeOK
      <3>2. /\ Append(Tail(buffer), Head(sendq)) \in Seq(Messages)
            /\ Len(Append(Tail(buffer), Head(sendq))) = Len(buffer)
        BY <2>1, <3>1, AppendProperties
      <3> QED
        BY <1>6, <2>2, <2>4, <3>1, <3>2 DEF Take, Receive, TypeOK
    <2> QED
      BY <2>3, <2>4
  <1>7. ASSUME NEW g \in Workers, Dispatch(g) PROVE TypeOK'
    <2>1. dispatched \o hand[g] \in Seq(Messages)
      BY HandType, ConcatProperties DEF TypeOK
    <2> QED
      BY <1>7, <2>1 DEF Dispatch, TypeOK
  <1>8. ASSUME NEW g \in Workers, SeeStop(g) \/ Exit(g) PROVE TypeOK'
    BY <1>8 DEF SeeStop, Exit, TypeOK
  <1>9. CASE UNCHANGED vars
    BY <1>9 DEF vars, TypeOK
  <1> QED
    BY <1>1, <1>2, <1>3, <1>4, <1>5, <1>6, <1>7, <1>8, <1>9 DEF Next, WorkerStep

\* A worker's position says whether it holds a message.
LEMMA HandStep ==
  ASSUME TypeOK, HandMatches, [Next]_vars
  PROVE  HandMatches'
  <1>1. ASSUME NEW g \in Workers, Take(g) PROVE HandMatches'
    <2>1. <<Head(buffer)>> # NoHand
      BY DEF NoHand
    <2> QED
      BY <1>1, <2>1 DEF Take, Receive, HandMatches, TypeOK
  <1>2. ASSUME NEW g \in Workers, Dispatch(g) PROVE HandMatches'
    BY <1>2 DEF Dispatch, HandMatches, TypeOK
  <1>3. ASSUME NEW g \in Workers, Start(g) \/ SeeStop(g) \/ Exit(g) PROVE HandMatches'
    BY <1>3 DEF Start, SeeStop, Exit, HandMatches, TypeOK
  <1>4. ASSUME UNCHANGED <<hand, wpc>> PROVE HandMatches'
    BY <1>4 DEF HandMatches
  <1> QED
    BY <1>1, <1>2, <1>3, <1>4
    DEF Next, WorkerStep, Publish, SendBlocks, StopCall, WaitEnds, StopReturn, vars

\* A step of the worker that is neither a receive nor a dispatch, and a step of
\* Start or Stop, moves no message.
LEMMA ControlStep ==
  ASSUME [Next]_vars
  PROVE  \/ \E m \in Messages : Publish(m) \/ SendBlocks(m)
         \/ \E g \in Workers : Take(g)
         \/ \E g \in Workers : Dispatch(g)
         \/ UNCHANGED <<buffer, sendq, pub, hand, dispatched, offered>>
  BY DEF Next, WorkerStep, Start, StopCall, WaitEnds, StopReturn, SeeStop, Exit, vars

\* The messages in hand are those of the workers.
LEMMA InHandDef ==
  \A x : x \in InHand <=> \E g \in Workers : x \in Range(hand[g])
  BY DEF InHand

\* Receiving moves the head of the queue into a hand.
LEMMA TakeInHand ==
  ASSUME TypeOK, HandMatches, NEW g \in Workers, Take(g)
  PROVE  InHand' = InHand \cup {Head(Queue)}
  <1>1. hand' = [hand EXCEPT ![g] = <<Head(Queue)>>] /\ hand[g] = NoHand
    BY ReceiveQueue DEF HandMatches
  <1>2. Range(<<Head(Queue)>>) = {Head(Queue)} /\ Range(NoHand) = {}
    <2>1. DOMAIN <<Head(Queue)>> = {1} /\ DOMAIN NoHand = {}
      BY DEF NoHand
    <2> QED
      BY <2>1 DEF Range
  <1>3. /\ Range(hand'[g]) = {Head(Queue)} /\ Range(hand[g]) = {}
        /\ \A h \in Workers : h # g => Range(hand'[h]) = Range(hand[h])
    BY <1>1, <1>2 DEF TypeOK
  <1> QED
    BY <1>3 DEF InHand

\* Dispatching empties one hand; Distinct says no other hand held the message.
LEMMA DispatchInHand ==
  ASSUME TypeOK, HandMatches, Distinct, NEW g \in Workers, NEW m, hand[g] = <<m>>,
         hand' = [hand EXCEPT ![g] = NoHand]
  PROVE  m \in InHand /\ InHand' = InHand \ {m}
  <1>1. Range(<<m>>) = {m} /\ Range(NoHand) = {}
    <2>1. DOMAIN <<m>> = {1} /\ DOMAIN NoHand = {}
      BY DEF NoHand
    <2> QED
      BY <2>1 DEF Range
  <1>2. /\ Range(hand'[g]) = {} /\ Range(hand[g]) = {m}
        /\ \A h \in Workers : h # g => Range(hand'[h]) = Range(hand[h])
    BY <1>1 DEF TypeOK
  <1>3. \A h \in Workers : h # g => m \notin Range(hand[h])
    BY <1>2 DEF Distinct
  <1> QED
    BY <1>2, <1>3 DEF InHand

\* No message is in two places: Accounted makes an offered message new.
LEMMA DistinctStep ==
  ASSUME TypeOK, HandMatches, Distinct, Accounted, [Next]_vars
  PROVE  Distinct'
  <1>1. ASSUME NEW m \in Messages, Publish(m) \/ SendBlocks(m) PROVE Distinct'
    <2>1. hand' = hand /\ pub[m] = "idle"
      BY <1>1, OfferQueue
    <2>2. m \notin Range(Queue) /\ m \notin InHand
      BY <2>1 DEF Accounted
    <2>3. CASE Queue' = Append(Queue, m)
      <3>1. IsInjective(Queue') /\ Range(Queue') = Range(Queue) \cup {m}
        BY <2>2, <2>3, QueueType, InjectiveAppend, RangeAppend DEF Distinct
      <3>2. \A g \in Workers : m \notin Range(hand[g])
        BY <2>2, InHandDef
      <3> QED
        BY <2>1, <3>1, <3>2 DEF Distinct
    <2>4. CASE UNCHANGED <<buffer, sendq>>
      BY <2>1, <2>4 DEF Distinct, Queue
    <2> QED
      BY <1>1, <2>3, <2>4, OfferQueue
  <1>2. ASSUME NEW g \in Workers, Take(g) PROVE Distinct'
    <2>1. /\ Queue # <<>> /\ Queue' = Tail(Queue)
          /\ hand' = [hand EXCEPT ![g] = <<Head(Queue)>>]
      BY <1>2, ReceiveQueue
    <2>2. /\ IsInjective(Queue') /\ Head(Queue) \notin Range(Queue')
          /\ Range(Queue) = {Head(Queue)} \cup Range(Queue')
      BY <2>1, QueueType, InjectiveTail, RangeTail DEF Distinct
    <2>3. Range(<<Head(Queue)>>) = {Head(Queue)}
      <3>1. DOMAIN <<Head(Queue)>> = {1}
        OBVIOUS
      <3> QED
        BY <3>1 DEF Range
    <2>4. /\ Range(hand'[g]) = {Head(Queue)}
          /\ \A h \in Workers : h # g => Range(hand'[h]) = Range(hand[h])
      BY <2>1, <2>3 DEF TypeOK
    <2> QED
      BY <2>2, <2>4 DEF Distinct
  <1>3. ASSUME NEW g \in Workers, Dispatch(g) PROVE Distinct'
    <2>1. hand' = [hand EXCEPT ![g] = NoHand] /\ Queue' = Queue
      BY <1>3 DEF Dispatch, Queue
    <2>2. Range(NoHand) = {}
      BY EmptySeq DEF NoHand, Range
    <2>3. /\ Range(hand'[g]) = {}
          /\ \A h \in Workers : h # g => Range(hand'[h]) = Range(hand[h])
      BY <2>1, <2>2 DEF TypeOK
    <2> QED
      BY <2>1, <2>3 DEF Distinct
  <1>4. CASE UNCHANGED <<buffer, sendq, pub, hand, dispatched, offered>>
    BY <1>4 DEF Distinct, Queue
  <1> QED
    BY <1>1, <1>2, <1>3, <1>4, ControlStep

\* What is somewhere was offered; what was accepted is somewhere.
LEMMA AccountedStep ==
  ASSUME TypeOK, HandMatches, Distinct, Accounted, [Next]_vars
  PROVE  Accounted'
  <1>1. ASSUME NEW m \in Messages, Publish(m) \/ SendBlocks(m) PROVE Accounted'
    <2>1. /\ pub[m] = "idle" /\ InHand' = InHand /\ dispatched' = dispatched
          /\ m \notin Range(Queue) \cup InHand \cup Range(dispatched)
      BY <1>1, OfferQueue DEF Accounted, InHand
    <2>2. CASE Publish(m) /\ Len(buffer) < Cap
      <3>1. buffer' = Append(buffer, m) /\ pub' = [pub EXCEPT ![m] = "accepted"]
        BY <2>2 DEF Publish, TypeOK
      <3>2. Range(buffer') = Range(buffer) \cup {m} /\ sendq' = sendq
        BY <2>2, <3>1, QueueType, RangeAppend DEF Publish
      <3>3. Range(Queue') = Range(Queue) \cup {m}
        <4>1. sendq \in Seq(Messages) /\ buffer' \in Seq(Messages)
          BY <3>1, AppendProperties DEF TypeOK
        <4>2. Range(Queue') = Range(buffer') \cup Range(sendq)
          BY <3>2, <4>1, RangeConcat DEF Queue
        <4> QED
          BY <3>2, <4>2, QueueType
      <3> QED
        BY <2>1, <3>1, <3>2, <3>3 DEF Accounted, TypeOK
    <2>3. CASE Publish(m) /\ Len(buffer) = Cap
      <3>1. /\ pub' = [pub EXCEPT ![m] = "dropped"]
            /\ buffer' = buffer /\ Queue' = Queue
        BY <2>3, BroadcastAssumption DEF Publish, Queue
      <3> QED
        BY <2>1, <3>1 DEF Accounted, TypeOK
    <2>4. CASE SendBlocks(m)
      <3>1. buffer' = buffer /\ pub' = [pub EXCEPT ![m] = "blocked"]
        BY <2>4 DEF SendBlocks
      <3>2. Range(Queue') = Range(Queue) \cup {m}
        <4>1. sendq' = Append(sendq, m) /\ sendq \in Seq(Messages)
          BY <2>4 DEF SendBlocks, TypeOK
        <4>2. sendq' \in Seq(Messages) /\ Range(sendq') = Range(sendq) \cup {m}
          BY <4>1, AppendProperties, RangeAppend
        <4>3. Range(Queue') = Range(buffer) \cup Range(sendq')
          BY <3>1, <4>2, QueueType, RangeConcat DEF Queue
        <4> QED
          BY <4>2, <4>3, QueueType
      <3> QED
        BY <2>1, <3>1, <3>2 DEF Accounted, TypeOK
    <2> QED
      BY <1>1, <2>2, <2>3, <2>4 DEF Publish
  <1>2. ASSUME NEW g \in Workers, Take(g) PROVE Accounted'
    <2>1. /\ Queue # <<>> /\ Queue' = Tail(Queue)
          /\ InHand' = InHand \cup {Head(Queue)} /\ dispatched' = dispatched
      BY <1>2, ReceiveQueue, TakeInHand DEF Take
    <2>2. Range(Queue) = {Head(Queue)} \cup Range(Queue')
      BY <2>1, QueueType, RangeTail
    <2>3. /\ buffer # <<>> /\ Range(buffer) = {Head(buffer)} \cup Range(Tail(buffer))
          /\ Head(Queue) = Head(buffer) /\ Tail(buffer) \in Seq(Messages)
      BY <1>2, QueueType, RangeTail, ConcatHeadTail, HeadTailProperties DEF Take, Queue
    <2>4. CASE sendq = <<>>
      <3>1. buffer' = Tail(buffer) /\ pub' = pub
        BY <1>2, <2>4 DEF Take, Receive
      <3> QED
        BY <2>1, <2>2, <2>3, <3>1 DEF Accounted
    <2>5. CASE sendq # <<>>
      <3>1. /\ buffer' = Append(Tail(buffer), Head(sendq))
            /\ pub' = [pub EXCEPT ![Head(sendq)] = "accepted"]
        BY <1>2, <2>5 DEF Take, Receive
      <3>2. Range(buffer') = Range(Tail(buffer)) \cup {Head(sendq)}
        BY <2>3, <2>5, <3>1, RefillRange
      <3> QED
        BY <2>1, <2>2, <2>3, <3>1, <3>2 DEF Accounted, TypeOK
    <2> QED
      BY <2>4, <2>5
  <1>3. ASSUME NEW g \in Workers, Dispatch(g) PROVE Accounted'
    <2>1. PICK m \in Messages :
            /\ hand[g] = <<m>> /\ hand' = [hand EXCEPT ![g] = NoHand]
            /\ Range(dispatched') = Range(dispatched) \cup {m}
            /\ UNCHANGED <<buffer, sendq, pub>>
      BY <1>3, DispatchQueue
    <2>2. m \in InHand /\ InHand' = InHand \ {m}
      BY <2>1, DispatchInHand
    <2> QED
      BY <2>1, <2>2 DEF Accounted, Queue
  <1>4. CASE UNCHANGED <<buffer, sendq, pub, hand, dispatched, offered>>
    BY <1>4 DEF Accounted, Queue, InHand
  <1> QED
    BY <1>1, <1>2, <1>3, <1>4, ControlStep

\* A started service that no Stop has touched has a worker in its main loop.
LEMMA StopOrderStep ==
  ASSUME TypeOK, StopOrder, [Next]_vars
  PROVE  StopOrder'
  <1>1. ASSUME NEW g \in Workers, Start(g) PROVE StopOrder'
    <2>1. wpc'[g] = "select" /\ \A h \in Workers : h # g => wpc'[h] = wpc[h]
      BY <1>1 DEF Start, TypeOK
    <2> QED
      BY <1>1, <2>1 DEF Start, StopOrder, Alive
  <1>2. ASSUME NEW s \in Stops, StopCall(s) PROVE StopOrder'
    BY <1>2 DEF StopCall, StopOrder, Alive
  <1>3. ASSUME NEW g \in Workers, Take(g) \/ Dispatch(g) PROVE StopOrder'
    <2>1. /\ wpc[g] \in {"select", "drain", "emit", "drainEmit"}
          /\ wpc'[g] \in {"select", "drain", "emit", "drainEmit"}
          /\ wpc'[g] \in {"drain", "drainEmit"} => wpc[g] \in {"drain", "drainEmit"}
          /\ \A h \in Workers : h # g => wpc'[h] = wpc[h]
          /\ UNCHANGED <<started, stopClosed>>
      BY <1>3 DEF Take, Dispatch, TypeOK
    <2> QED
      BY <2>1 DEF StopOrder, Alive
  <1>4. ASSUME NEW g \in Workers, SeeStop(g) \/ Exit(g) PROVE StopOrder'
    <2>1. stopClosed
      BY <1>4 DEF SeeStop, Exit, StopOrder
    <2> QED
      BY <1>4, <2>1 DEF SeeStop, Exit, StopOrder
  <1>5. CASE UNCHANGED <<started, stopClosed, wpc>>
    BY <1>5 DEF StopOrder, Alive
  <1> QED
    BY <1>1, <1>2, <1>3, <1>4, <1>5
    DEF Next, WorkerStep, Publish, SendBlocks, WaitEnds, StopReturn, vars

\* Only an exit takes a worker away.
LEMMA AliveStep ==
  ASSUME TypeOK, [Next]_vars, Alive # {}
  PROVE  \/ Alive' # {}
         \/ \E g \in Workers : Exit(g)
  <1>1. ASSUME NEW g \in Workers, Start(g) \/ Take(g) \/ Dispatch(g) \/ SeeStop(g)
        PROVE  Alive' # {}
    <2>1. wpc'[g] \notin {"unborn", "exited"}
      BY <1>1 DEF Start, Take, Dispatch, SeeStop, TypeOK
    <2> QED
      BY <2>1 DEF Alive
  <1>2. CASE wpc' = wpc
    BY <1>2 DEF Alive
  <1> QED
    BY <1>1, <1>2
    DEF Next, WorkerStep, Publish, SendBlocks, StopCall, WaitEnds, StopReturn, vars

\* What is emitted stays emitted; a message in hand or in the buffer stays there
\* or moves on.
LEMMA MessageStep ==
  ASSUME TypeOK, HandMatches, Distinct, [Next]_vars, NEW m
  PROVE  /\ m \in Range(dispatched) => m \in Range(dispatched')
         /\ m \in InHand => m \in InHand' \cup Range(dispatched')
         /\ m \in Range(buffer) => m \in Range(buffer') \cup InHand'
  <1>1. ASSUME NEW x \in Messages, Publish(x) \/ SendBlocks(x)
        PROVE  /\ UNCHANGED <<dispatched, InHand>>
               /\ Range(buffer) \subseteq Range(buffer')
    <2>1. Range(Append(buffer, x)) = Range(buffer) \cup {x}
      BY QueueType, RangeAppend
    <2> QED
      BY <1>1, <2>1 DEF Publish, SendBlocks, InHand
  <1>2. ASSUME NEW g \in Workers, Take(g)
        PROVE  /\ UNCHANGED dispatched
               /\ InHand' = InHand \cup {Head(buffer)}
               /\ Range(buffer) \subseteq Range(buffer') \cup {Head(buffer)}
    <2>1. /\ buffer # <<>> /\ Range(buffer) = {Head(buffer)} \cup Range(Tail(buffer))
          /\ Head(Queue) = Head(buffer) /\ Tail(buffer) \in Seq(Messages)
      BY <1>2, QueueType, RangeTail, ConcatHeadTail, HeadTailProperties DEF Take, Queue
    <2>2. CASE sendq = <<>>
      BY <1>2, <2>1, <2>2, TakeInHand DEF Take, Receive
    <2>3. CASE sendq # <<>>
      <3>1. buffer' = Append(Tail(buffer), Head(sendq))
        BY <1>2, <2>3 DEF Take, Receive
      <3>2. Range(buffer') = Range(Tail(buffer)) \cup {Head(sendq)}
        BY <2>1, <2>3, <3>1, RefillRange
      <3> QED
        BY <1>2, <2>1, <3>2, TakeInHand DEF Take
    <2> QED
      BY <2>2, <2>3
  <1>3. ASSUME NEW g \in Workers, Dispatch(g)
        PROVE  \E x : /\ Range(dispatched') = Range(dispatched) \cup {x}
                      /\ InHand' = InHand \ {x}
                      /\ buffer' = buffer
    BY <1>3, DispatchQueue, DispatchInHand
  <1>4. CASE UNCHANGED <<buffer, sendq, pub, hand, dispatched, offered>>
    BY <1>4 DEF InHand
  <1> QED
    BY <1>1, <1>2, <1>3, <1>4, ControlStep

\* A worker exits only from an empty buffer, so a waiting Stop's messages still
\* have somebody to drain them.
LEMMA OwedStep ==
  ASSUME TypeOK, HandMatches, Distinct, Accounted, StopOrder, Owed, [Next]_vars
  PROVE  Owed'
  <1>1. ASSUME NEW s \in Stops, stop'[s] = "waiting", ~crashed', NEW m \in before'[s]
        PROVE  \/ m \in InHand' \cup Range(dispatched')
               \/ m \in Range(buffer') /\ Alive' # {}
    <2>1. CASE ~crashed /\ stop[s] = "waiting" /\ m \in before[s]
      <3>1. CASE m \in InHand \cup Range(dispatched)
        BY <3>1, MessageStep
      <3>2. CASE m \in Range(buffer) /\ Alive # {}
        <4>1. CASE Alive' # {}
          BY <3>2, <4>1, MessageStep
        <4>2. ASSUME NEW g \in Workers, Exit(g) PROVE FALSE
          BY <3>2, <4>2, EmptySeq DEF Exit, Range
        <4> QED
          BY <3>2, <4>1, <4>2, AliveStep
      <3> QED
        BY <1>1, <2>1, <3>1, <3>2 DEF Owed
    <2>2. CASE \E x \in Stops : StopCall(x) /\ ~(stop[s] = "waiting" /\ m \in before[s])
      <3>1. started /\ ~stopClosed /\ before'[s] = Accepted
            /\ UNCHANGED <<buffer, hand, dispatched, wpc>>
        BY <1>1, <2>2 DEF StopCall, TypeOK
      <3>2. pub[m] = "accepted" /\ m \in Messages
        BY <1>1, <3>1 DEF Accepted
      <3>3. Alive # {}
        BY <3>1 DEF StopOrder
      <3> QED
        BY <3>1, <3>2, <3>3 DEF Accounted, InHand, Alive
    <2>3. CASE UNCHANGED <<stop, before, crashed>>
      BY <1>1, <2>1, <2>3
    <2>4. ASSUME NEW x \in Stops, ~crashed, WaitEnds(x) \/ StopReturn(x)
          PROVE  stop[s] = "waiting" /\ m \in before[s]
      BY <1>1, <2>4 DEF WaitEnds, StopReturn, TypeOK
    <2>5. ASSUME NEW x \in Stops, StopCall(x), ~crashed
          PROVE  \/ ~crashed /\ stop[s] = "waiting" /\ m \in before[s]
                 \/ StopCall(x) /\ ~(stop[s] = "waiting" /\ m \in before[s])
      BY <2>5
    <2> QED
      BY <2>1, <2>2, <2>3, <2>4, <2>5
      DEF Next, WorkerStep, Publish, SendBlocks, Start, Take, Dispatch, SeeStop, Exit,
          vars
  <1> QED
    BY <1>1 DEF Owed

\* The wait ends when no worker is left, so what was owed has been emitted.
LEMMA DrainedStep ==
  ASSUME TypeOK, HandMatches, Distinct, Owed, Drained, [Next]_vars
  PROVE  Drained'
  <1>1. ASSUME NEW s \in Stops, stop'[s] \in {"woken", "stopped"}, NEW m \in before'[s]
        PROVE  m \in Range(dispatched')
    <2>1. CASE stop[s] \in {"woken", "stopped"} /\ before'[s] = before[s]
      BY <1>1, <2>1, MessageStep DEF Drained
    <2>2. CASE stop[s] \notin {"woken", "stopped"}
      <3>1. WaitEnds(s) /\ ~crashed
        BY <1>1, <2>2
        DEF Next, WorkerStep, Publish, SendBlocks, Start, StopCall, WaitEnds, StopReturn, Take,
            Dispatch, SeeStop, Exit, vars, TypeOK
      <3>2. \A g \in Workers : hand[g] = NoHand
        BY <3>1 DEF WaitEnds, Alive, HandMatches
      <3>3. InHand = {}
        BY <3>2, EmptySeq DEF InHand, NoHand, Range
      <3> QED
        BY <1>1, <3>1, <3>3 DEF WaitEnds, Owed
    <2>3. stop[s] \in {"woken", "stopped"} => before'[s] = before[s]
      BY <1>1
      DEF Next, WorkerStep, Publish, SendBlocks, Start, StopCall, WaitEnds, StopReturn, Take,
          Dispatch, SeeStop, Exit, vars, TypeOK
    <2> QED
      BY <2>1, <2>2, <2>3
  <1> QED
    BY <1>1 DEF Drained

\* With one worker nothing is lost, duplicated or reordered.
LEMMA FifoStep ==
  ASSUME TypeOK, HandMatches, Fifo, [Next]_vars
  PROVE  Fifo'
  <1> SUFFICES ASSUME NEW g \in Workers, OnlyWorker(g)'
               PROVE  offered' = dispatched' \o hand'[g] \o Queue'
    BY DEF Fifo
  <1>0. /\ OnlyWorker(g)
        /\ offered = dispatched \o hand[g] \o Queue
        /\ \A h \in Workers : Take(h) \/ Dispatch(h) => h = g
    <2>1. \A h \in Workers : wpc'[h] = "unborn" => wpc[h] = "unborn"
      BY DEF Next, WorkerStep, Publish, SendBlocks, Start, StopCall, WaitEnds, StopReturn, Take,
             Dispatch, SeeStop, Exit, vars, TypeOK
    <2>2. OnlyWorker(g)
      BY <2>1 DEF OnlyWorker
    <2> QED
      BY <2>2 DEF Fifo, OnlyWorker, Take, Dispatch
  <1>1. /\ dispatched \in Seq(Messages) /\ hand[g] \in Seq(Messages)
        /\ Queue \in Seq(Messages) /\ dispatched \o hand[g] \in Seq(Messages)
    BY HandType, QueueType, ConcatProperties DEF TypeOK
  <1>2. ASSUME NEW m \in Messages, Publish(m) \/ SendBlocks(m)
        PROVE  offered' = dispatched' \o hand'[g] \o Queue'
    <2>1. dispatched' = dispatched /\ hand' = hand
      BY <1>2, OfferQueue
    <2>2. CASE Queue' = Append(Queue, m) /\ offered' = Append(offered, m)
      <3>1. Queue' = Queue \o <<m>> /\ offered' = offered \o <<m>>
        BY <1>1, <2>2, AppendIsConcat DEF TypeOK
      <3>2. (dispatched \o hand[g]) \o (Queue \o <<m>>) =
              ((dispatched \o hand[g]) \o Queue) \o <<m>>
        <4>1. <<m>> \in Seq(Messages)
          OBVIOUS
        <4>2. \A s, t, u \in Seq(Messages) : s \o (t \o u) = (s \o t) \o u
          BY ConcatAssociative
        <4> QED
          BY <1>1, <4>1, <4>2, Zenon
      <3> QED
        BY <1>0, <2>1, <3>1, <3>2
    <2>3. CASE UNCHANGED <<buffer, sendq, offered>>
      BY <1>0, <2>1, <2>3 DEF Queue
    <2> QED
      BY <1>2, <2>2, <2>3, OfferQueue
  <1>3. ASSUME Take(g) PROVE offered' = dispatched' \o hand'[g] \o Queue'
    <2>1. /\ Queue # <<>> /\ Queue' = Tail(Queue) /\ hand'[g] = <<Head(Queue)>>
          /\ hand[g] = <<>>
      BY <1>3, ReceiveQueue DEF HandMatches, NoHand, TypeOK
    <2>2. (dispatched \o <<Head(Queue)>>) \o Tail(Queue) = dispatched \o Queue
      BY <1>1, <2>1, ShiftHead
    <2>3. dispatched \o hand[g] = dispatched
      BY <1>1, <2>1, ConcatEmptySeq
    <2> QED
      BY <1>0, <1>3, <2>1, <2>2, <2>3 DEF Take
  <1>4. ASSUME Dispatch(g) PROVE offered' = dispatched' \o hand'[g] \o Queue'
    <2>1. /\ dispatched' = dispatched \o hand[g] /\ hand'[g] = <<>>
          /\ Queue' = Queue /\ offered' = offered
      BY <1>4 DEF Dispatch, Queue, NoHand, TypeOK
    <2>2. (dispatched \o hand[g]) \o <<>> = dispatched \o hand[g]
      BY <1>1, ConcatEmptySeq
    <2> QED
      BY <1>0, <2>1, <2>2
  <1>5. CASE UNCHANGED <<buffer, sendq, pub, hand, dispatched, offered>>
    BY <1>0, <1>5 DEF Queue
  <1> QED
    BY <1>0, <1>2, <1>3, <1>4, <1>5, ControlStep

LEMMA InitInv == Init => BroadcastInv
  <1> SUFFICES ASSUME Init PROVE BroadcastInv
    OBVIOUS
  <1>0. /\ <<>> \in Seq(Messages) /\ Len(<<>>) = 0
        /\ \A S : <<>> \in Seq(S) /\ <<>> \o <<>> = <<>>
        /\ Range(<<>>) = {} /\ DOMAIN <<>> = {}
    BY EmptySeq, ConcatEmptySeq DEF Range
  <1>1. TypeOK
    <2>1. Len(buffer) <= Cap
      BY <1>0, BroadcastAssumption DEF Init
    <2>2. hand \in [Workers -> {NoHand} \cup {<<m>> : m \in Messages}]
      BY DEF Init
    <2>3. sendq # <<>> => Len(buffer) = Cap
      BY DEF Init
    <2> QED
      BY <1>0, <2>1, <2>2, <2>3 DEF Init, TypeOK
  <1>2. Queue = <<>> /\ InHand = {} /\ \A g \in Workers : Range(hand[g]) = {}
    BY <1>0 DEF Init, Queue, InHand, NoHand
  <1>3. HandMatches /\ StopOrder /\ Owed /\ Drained
    BY DEF Init, HandMatches, StopOrder, Owed, Drained
  <1>4. Distinct
    BY <1>0, <1>2 DEF Distinct, IsInjective
  <1>5. Accounted
    BY <1>0, <1>2 DEF Init, Accounted
  <1>6. Fifo
    BY <1>0, <1>2 DEF Init, Fifo, NoHand
  <1> QED
    BY <1>1, <1>3, <1>4, <1>5, <1>6 DEF BroadcastInv

-----------------------------------------------------------------------------
(* The theorems.                                                           *)

\* Every reachable state satisfies the inductive invariant.
THEOREM BroadcastInvariant == Spec => []BroadcastInv
  <1>1. BroadcastInv /\ [Next]_vars => BroadcastInv'
    BY TypeStep, HandStep, DistinctStep, AccountedStep, StopOrderStep, OwedStep,
       DrainedStep, FifoStep
    DEF BroadcastInv
  <1> QED
    BY InitInv, <1>1, PTL DEF Spec

\* The state keeps its type: the buffer never exceeds its capacity, and a sender
\* blocks only when it is full.
THEOREM TypeCorrect == Spec => []TypeOK
  <1>1. BroadcastInv => TypeOK
    BY DEF BroadcastInv
  <1> QED
    BY <1>1, BroadcastInvariant, PTL

\* One worker emits messages in the order of the sends, each once.
THEOREM OrderKept == Spec => []Fifo
  <1>1. BroadcastInv => Fifo
    BY DEF BroadcastInv
  <1> QED
    BY <1>1, BroadcastInvariant, PTL

\* A graceful Stop loses nothing that had been accepted before it.
THEOREM StopIsGraceful == Spec => []StopDrains
  <1>1. BroadcastInv => StopDrains
    BY DEF BroadcastInv, Drained, StopDrains
  <1> QED
    BY <1>1, BroadcastInvariant, PTL

\* The service implements the abstract queue: an offer, a receive and a dispatch
\* are the abstract steps, everything else is a stutter.
THEOREM QueueImplemented == Spec => ImplementsQueue
  <1>1. Init => Abstract!AInit
    <2> SUFFICES ASSUME Init PROVE Abstract!AInit
      OBVIOUS
    <2>1. <<>> \o <<>> = <<>> /\ Range(NoHand) = {}
      BY EmptySeq, ConcatEmptySeq DEF Range, NoHand
    <2>2. InHand = {}
      BY <2>1 DEF Init, InHand
    <2> QED
      BY <2>1, <2>2 DEF Init, Abstract!AInit, Queue
  <1>2. BroadcastInv /\ [Next]_vars => [Abstract!ANext]_(Abstract!avars)
    <2> SUFFICES ASSUME BroadcastInv, [Next]_vars
                 PROVE  [Abstract!ANext]_(Abstract!avars)
      OBVIOUS
    <2>0. TypeOK /\ HandMatches /\ Distinct /\ Accounted
      BY DEF BroadcastInv
    <2>1. ASSUME NEW m \in Messages, Publish(m) \/ SendBlocks(m)
          PROVE  [Abstract!ANext]_(Abstract!avars)
      <3>1. /\ pub[m] = "idle" /\ InHand' = InHand /\ dispatched' = dispatched
            /\ m \notin Range(Queue) \cup InHand \cup Range(dispatched)
        BY <2>0, <2>1, OfferQueue DEF Accounted, InHand
      <3>2. CASE Queue' = Append(Queue, m)
        <4>1. Abstract!Offer(m)
          <5>1. Abstract!Known = Range(Queue) \cup InHand \cup Range(dispatched)
            BY DEF Abstract!Known, Abstract!Range, Range
          <5> QED
            BY <3>1, <3>2, <5>1 DEF Abstract!Offer
        <4> QED
          BY <4>1 DEF Abstract!ANext
      <3>3. CASE UNCHANGED <<buffer, sendq>>
        BY <3>1, <3>3 DEF Abstract!avars, Queue
      <3> QED
        BY <2>0, <2>1, <3>2, <3>3, OfferQueue
    <2>2. ASSUME NEW g \in Workers, Take(g)
          PROVE  [Abstract!ANext]_(Abstract!avars)
      <3>1. /\ Queue # <<>> /\ Queue' = Tail(Queue)
            /\ InHand' = InHand \cup {Head(Queue)} /\ dispatched' = dispatched
        BY <2>0, <2>2, ReceiveQueue, TakeInHand DEF Take
      <3> QED
        BY <3>1 DEF Abstract!ANext, Abstract!Take
    <2>3. ASSUME NEW g \in Workers, Dispatch(g)
          PROVE  [Abstract!ANext]_(Abstract!avars)
      <3>1. PICK m \in Messages :
              /\ hand[g] = <<m>> /\ hand' = [hand EXCEPT ![g] = NoHand]
              /\ dispatched' = Append(dispatched, m)
              /\ UNCHANGED <<buffer, sendq>>
        BY <2>0, <2>3, DispatchQueue
      <3>2. m \in InHand /\ InHand' = InHand \ {m} /\ Queue' = Queue
        BY <2>0, <3>1, DispatchInHand DEF Queue
      <3>3. Abstract!Deliver(m)
        BY <3>1, <3>2 DEF Abstract!Deliver
      <3> QED
        BY <3>3 DEF Abstract!ANext
    <2>4. CASE UNCHANGED <<buffer, sendq, pub, hand, dispatched, offered>>
      BY <2>4 DEF Abstract!avars, Queue, InHand
    <2> QED
      BY <2>1, <2>2, <2>3, <2>4, ControlStep
  <1> QED
    BY <1>1, <1>2, BroadcastInvariant, PTL DEF Spec, ImplementsQueue, Abstract!ASpec

=============================================================================
