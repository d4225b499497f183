---------------------------- MODULE ApiServerProofs ----------------------------
(***************************************************************************)
(* Proofs about ApiServer for any finite set of requests, any users, token *)
(* lifetimes and clock.  ServerInv is the inductive invariant: the gauge   *)
(* and the counters are the sizes of sets of requests, and a token is good *)
(* for so long.  Each action has a lemma that says what it does to the one *)
(* request it moves; a second group follows the sets those counts are of.  *)
(***************************************************************************)
EXTENDS ApiServer, FiniteSetTheorems, TLAPS

-----------------------------------------------------------------------------
(* What each action does to its request. *)

\* A step of a request changes the state of that request alone.
LEMMA OneRequest ==
  ASSUME TypeOK, NEW q \in Requests, NEW r \in RequestState,
         req' = [req EXCEPT ![q] = r]
  PROVE  /\ req' \in [Requests -> RequestState] /\ req'[q] = r
         /\ \A p \in Requests : p # q => req'[p] = req[p]
  BY DEF TypeOK

LEMMA NoTokenType ==
  /\ NoToken.user = Nobody /\ NoToken.login = 0 /\ NoToken.renewed = FALSE
  /\ NoToken.subject = "access" /\ NoToken.exp = 0
  BY DEF NoToken

LEMMA OutcomeType ==
  \A s \in Statuses :
    /\ Respond(s) \in Outcome /\ Respond(s).err = "none" /\ Respond(s).status = s
    /\ FiberError(s) \in Outcome /\ FiberError(s).err = "fiber"
    /\ Panic \in Outcome /\ Panic.err = "panic" /\ Panic.status = 500
  BY DEF Respond, FiberError, Panic, Outcome, Statuses

\* A request that enters has the outcome it had, or is refused.
LEMMA EnterEffect ==
  ASSUME TypeOK, NEW q \in Requests, Enter(q)
  PROVE  /\ req' \in [Requests -> RequestState]
         /\ \A p \in Requests : p # q => req'[p] = req[p]
         /\ req[q].pc = "idle" /\ req'[q].pc \in {"auth", "handler", "leave"}
         /\ req'[q].token \in issued \cup {NoToken} /\ req'[q].at = req[q].at
         /\ req'[q].out = req[q].out \/ req'[q].out.err = "none"
         /\ inFlight' = IF req'[q].kind # "scrape" THEN inFlight + 1 ELSE inFlight
  <1>1. PICK k \in Kinds, t \in issued \cup {NoToken}, refused \in BOOLEAN :
       /\ k \in {"refresh", "me"} \/ t = NoToken
       /\ req' = [req EXCEPT
            ![q].pc = IF refused THEN "leave"
                      ELSE IF k = "me" THEN "auth" ELSE "handler",
            ![q].kind = k, ![q].token = t,
            ![q].out = IF refused THEN Respond(429) ELSE @]
       /\ inFlight' = IF k # "scrape" THEN inFlight + 1 ELSE inFlight
    BY DEF Enter
  <1> DEFINE r == [req[q] EXCEPT
            !.pc = IF refused THEN "leave"
                   ELSE IF k = "me" THEN "auth" ELSE "handler",
            !.kind = k, !.token = t,
            !.out = IF refused THEN Respond(429) ELSE @]
  <1>2. req[q] \in RequestState /\ req[q].pc = "idle" /\ issued \subseteq Tokens
    BY DEF TypeOK, Enter
  <1>3. /\ r \in RequestState /\ r.pc \in {"auth", "handler", "leave"}
        /\ r.token = t /\ r.kind = k /\ r.at = req[q].at
        /\ r.out = req[q].out \/ r.out.err = "none"
    <2>1. Respond(429) \in Outcome /\ Respond(429).err = "none"
      BY OutcomeType DEF Statuses
    <2>2. PICK o : o = Respond(429)
      OBVIOUS
    <2>3. r = [req[q] EXCEPT
            !.pc = IF refused THEN "leave"
                   ELSE IF k = "me" THEN "auth" ELSE "handler",
            !.kind = k, !.token = t,
            !.out = IF refused THEN o ELSE @]
      BY <2>2
    <2>4. o \in Outcome /\ o.err = "none"
      BY <2>1, <2>2
    <2> HIDE DEF r
    <2> QED BY <1>2, <2>3, <2>4 DEF RequestState
  <1>4. req' = [req EXCEPT ![q] = r]
    BY <1>1 DEF TypeOK
  <1> HIDE DEF r
  <1>5. /\ req' \in [Requests -> RequestState] /\ req'[q] = r
        /\ \A p \in Requests : p # q => req'[p] = req[p]
    BY <1>3, <1>4, OneRequest
  <1> QED BY <1>1, <1>2, <1>3, <1>5

\* AuthMiddleware lets a request pass at this instant, or answers it.
LEMMA AuthEffect ==
  ASSUME TypeOK, NEW q \in Requests, AuthMiddleware(q)
  PROVE  /\ req' \in [Requests -> RequestState]
         /\ \A p \in Requests : p # q => req'[p] = req[p]
         /\ req[q].pc = "auth" /\ req'[q].pc \in {"handler", "leave"}
         /\ req'[q].kind = req[q].kind /\ req'[q].token = req[q].token
         /\ req'[q].out = req[q].out \/ req'[q].out.err = "none"
         /\ \/ req'[q].at = req[q].at
            \/ req'[q].at = now /\ ValidateToken(req[q].token)
  <1>1. req[q] \in RequestState /\ req[q].pc = "auth"
    BY DEF TypeOK, AuthMiddleware
  <1>2. CASE ValidateToken(req[q].token)
    <2> DEFINE r == [req[q] EXCEPT !.pc = "handler", !.at = now]
    <2>1. /\ r \in RequestState /\ r.pc = "handler" /\ r.kind = req[q].kind
          /\ r.token = req[q].token /\ r.out = req[q].out /\ r.at = now
      BY <1>1 DEF RequestState, TypeOK
    <2>2. req' = [req EXCEPT ![q] = r]
      BY <1>2 DEF AuthMiddleware, TypeOK
    <2> HIDE DEF r
    <2> QED BY <1>1, <1>2, <2>1, <2>2, OneRequest
  <1>3. CASE ~ValidateToken(req[q].token)
    <2> DEFINE r == [req[q] EXCEPT !.pc = "leave", !.out = Respond(401)]
    <2>1. /\ r \in RequestState /\ r.pc = "leave" /\ r.kind = req[q].kind
          /\ r.token = req[q].token /\ r.out.err = "none" /\ r.at = req[q].at
      <3>1. Respond(401) \in Outcome /\ Respond(401).err = "none"
        BY OutcomeType DEF Statuses
      <3>2. PICK o : o = Respond(401)
        OBVIOUS
      <3>3. r = [req[q] EXCEPT !.pc = "leave", !.out = o] /\ o \in Outcome /\ o.err = "none"
        BY <3>1, <3>2
      <3> HIDE DEF r
      <3> QED BY <1>1, <3>3 DEF RequestState
    <2>2. req' = [req EXCEPT ![q] = r]
      BY <1>3 DEF AuthMiddleware, TypeOK
    <2> HIDE DEF r
    <2> QED BY <1>1, <2>1, <2>2, OneRequest
  <1> QED BY <1>2, <1>3

\* A handler ends with an outcome; only a part that did not come up panics.
LEMMA HandleEffect ==
  ASSUME TypeOK, NEW q \in Requests, Handle(q)
  PROVE  /\ req' \in [Requests -> RequestState]
         /\ \A p \in Requests : p # q => req'[p] = req[p]
         /\ req[q].pc = "handler" /\ req'[q].pc = "leave"
         /\ req'[q].kind = req[q].kind /\ req'[q].token = req[q].token
         /\ req'[q].at = req[q].at
         /\ req'[q].out.err = "panic" => req'[q].out.status = 500 /\ ~(dbUp /\ storageUp)
  <1>1. PICK o \in Outcome :
          /\ Done(q, o)
          /\ o.err = "panic" => o.status = 500 /\ ~(dbUp /\ storageUp)
    <2> {200, 401, 404, 429, 500} = Statuses
      BY DEF Statuses
    <2>1. CASE Login(q)
      BY <2>1, OutcomeType DEF Login
    <2>2. CASE RefreshToken(q)
      BY <2>2, OutcomeType DEF RefreshToken
    <2>3. CASE Me(q)
      BY <2>3, OutcomeType DEF Me
    <2>4. CASE Health(q)
      BY <2>4, OutcomeType DEF Health
    <2>5. CASE Scrape(q)
      BY <2>5, OutcomeType DEF Scrape
    <2>6. CASE Unmatched(q)
      BY <2>6, OutcomeType DEF Unmatched
    <2> QED BY <2>1, <2>2, <2>3, <2>4, <2>5, <2>6 DEF Handle
  <1> DEFINE r == [req[q] EXCEPT !.pc = "leave", !.out = o]
  <1>2. req[q] \in RequestState /\ req[q].pc = "handler"
    BY DEF TypeOK, Handle
  <1>3. /\ r \in RequestState /\ r.pc = "leave" /\ r.kind = req[q].kind
        /\ r.token = req[q].token /\ r.at = req[q].at /\ r.out = o
    BY <1>2 DEF RequestState
  <1>4. req' = [req EXCEPT ![q] = r]
    <2>1. req' = [req EXCEPT ![q].pc = "leave", ![q].out = o]
      BY <1>1 DEF Done
    <2> QED BY <2>1 DEF TypeOK
  <1> HIDE DEF r
  <1>5. /\ req' \in [Requests -> RequestState] /\ req'[q] = r
        /\ \A p \in Requests : p # q => req'[p] = req[p]
    BY <1>3, <1>4, OneRequest
  <1> QED BY <1>1, <1>2, <1>3, <1>5

\* What is observed is what the client will see.
LEMMA LeaveEffect ==
  ASSUME TypeOK, RecordsFit, NEW q \in Requests, Leave(q)
  PROVE  /\ req' \in [Requests -> RequestState]
         /\ \A p \in Requests : p # q => req'[p] = req[p]
         /\ req[q].pc = "leave" /\ req'[q].pc = "answer"
         /\ req'[q].kind = req[q].kind /\ req'[q].token = req[q].token
         /\ req'[q].at = req[q].at /\ req'[q].out = req[q].out
         /\ req'[q].log = IF req[q].out.err = "panic" THEN NoStatus ELSE Seen(req[q].out)
         /\ req'[q].span = req'[q].log
         /\ Seen(req[q].out) \in Statuses
         /\ total' = IF Measured(q)
                     THEN [total EXCEPT ![Seen(req[q].out)] = @ + 1] ELSE total
  <1> DEFINE o == req[q].out
             s == IF o.err = "panic" THEN NoStatus ELSE Seen(o)
             r == [req[q] EXCEPT !.pc = "answer", !.log = s, !.span = s]
  <1>1. req[q] \in RequestState /\ req[q].pc = "leave"
    BY DEF TypeOK, Leave
  <1>2. o \in Outcome /\ (o.err = "panic" => o.status = 500)
    BY <1>1 DEF RequestState, RecordsFit
  <1>3. /\ Seen(o) \in Statuses
        /\ o.err # "panic" => effectiveStatus(o) = Seen(o)
        /\ o.err = "panic" => Seen(o) = 500
    BY <1>2 DEF Seen, ResponseStatus, customErrorHandler, effectiveStatus, Outcome, Statuses
  <1>4. /\ req' = [req EXCEPT ![q] = r]
        /\ total' = IF Measured(q) THEN [total EXCEPT ![Seen(o)] = @ + 1] ELSE total
    <2>1. /\ req' = [req EXCEPT ![q].pc = "answer", ![q].log = s, ![q].span = s]
          /\ total' = IF Measured(q) THEN [total EXCEPT ![Seen(o)] = @ + 1] ELSE total
      BY <1>3 DEF Leave
    <2> HIDE DEF s
    <2> QED BY <2>1 DEF TypeOK
  <1>5. /\ r \in RequestState /\ r.pc = "answer" /\ r.kind = req[q].kind
        /\ r.token = req[q].token /\ r.at = req[q].at /\ r.out = o
        /\ r.log = s /\ r.span = s
    BY <1>1, <1>3 DEF RequestState
  <1> HIDE DEF r
  <1>6. /\ req' \in [Requests -> RequestState] /\ req'[q] = r
        /\ \A p \in Requests : p # q => req'[p] = req[p]
    BY <1>4, <1>5, OneRequest
  <1> QED BY <1>1, <1>3, <1>4, <1>5, <1>6

LEMMA AnswerEffect ==
  ASSUME TypeOK, NEW q \in Requests, Answer(q)
  PROVE  /\ req' \in [Requests -> RequestState]
         /\ \A p \in Requests : p # q => req'[p] = req[p]
         /\ req[q].pc = "answer" /\ req'[q].pc = "answered"
         /\ req'[q].kind = req[q].kind /\ req'[q].token = req[q].token
         /\ req'[q].at = req[q].at /\ req'[q].out = req[q].out
         /\ req'[q].log = req[q].log /\ req'[q].span = req[q].span
         /\ req'[q].client = Seen(req[q].out)
         /\ inFlight' = IF Measured(q) THEN inFlight - 1 ELSE inFlight
  <1> DEFINE r == [req[q] EXCEPT !.pc = "answered", !.client = Seen(req[q].out)]
  <1>1. req[q] \in RequestState /\ req[q].pc = "answer"
    BY DEF TypeOK, Answer
  <1>2. Seen(req[q].out) \in Statuses
    BY <1>1 DEF RequestState, Seen, ResponseStatus, customErrorHandler, Outcome, Statuses
  <1>3. req' = [req EXCEPT ![q] = r]
    BY DEF Answer, Seen, TypeOK
  <1>4. /\ r \in RequestState /\ r.pc = "answered" /\ r.kind = req[q].kind
        /\ r.token = req[q].token /\ r.at = req[q].at /\ r.out = req[q].out
        /\ r.log = req[q].log /\ r.span = req[q].span /\ r.client = Seen(req[q].out)
    BY <1>1, <1>2 DEF RequestState
  <1>5. inFlight' = IF Measured(q) THEN inFlight - 1 ELSE inFlight
    BY DEF Answer
  <1> HIDE DEF r
  <1> QED BY <1>1, <1>3, <1>4, <1>5, OneRequest

-----------------------------------------------------------------------------
(* The sets of requests that are counted. *)

LEMMA MeasuredKept ==
  ASSUME NEW p \in Requests, req'[p] = req[p]
  PROVE  /\ (p \in Inside)' <=> p \in Inside
         /\ Measured(p)' <=> Measured(p)
         /\ \A s : (p \in CountedUnder(s))' <=> p \in CountedUnder(s)
  BY DEF Inside, Measured, CountedUnder

LEMMA SubsetCounted ==
  ASSUME NEW T \in SUBSET Requests
  PROVE  IsFiniteSet(T) /\ Cardinality(T) \in 0 .. Cardinality(Requests)
  <1>1. IsFiniteSet(T) /\ Cardinality(T) <= Cardinality(Requests)
    BY FS_Subset, ApiServerAssumption
  <1>2. Cardinality(T) \in Nat /\ Cardinality(Requests) \in Nat
    BY <1>1, FS_CardinalityType, ApiServerAssumption
  <1> QED BY <1>1, <1>2

LEMMA CountedFinite ==
  /\ IsFiniteSet({p \in Inside : Measured(p)})
  /\ Cardinality({p \in Inside : Measured(p)}) \in 0 .. Cardinality(Requests)
  /\ \A s : /\ IsFiniteSet(CountedUnder(s))
            /\ Cardinality(CountedUnder(s)) \in 0 .. Cardinality(Requests)
  <1>1. {p \in Inside : Measured(p)} \in SUBSET Requests
    BY DEF Inside
  <1>2. \A s : CountedUnder(s) \in SUBSET Requests
    BY DEF CountedUnder
  <1> QED BY <1>1, <1>2, SubsetCounted

\* A request that enters is inside from then on.
LEMMA EnterCounted ==
  ASSUME TypeOK, InFlightExact, NEW q \in Requests, Enter(q)
  PROVE  InFlightExact'
  <1> DEFINE T == {p \in Inside : Measured(p)}
  <1>1. /\ \A p \in Requests : p # q => req'[p] = req[p]
        /\ req[q].pc = "idle" /\ req'[q].pc \in {"auth", "handler", "leave"}
        /\ inFlight' = IF req'[q].kind # "scrape" THEN inFlight + 1 ELSE inFlight
    BY EnterEffect
  <1>2. \A p \in Requests \ {q} :
          ((p \in Inside)' <=> p \in Inside) /\ (Measured(p)' <=> Measured(p))
    BY <1>1, MeasuredKept
  <1>3. q \notin Inside /\ (q \in Inside)' /\ (Measured(q)' <=> req'[q].kind # "scrape")
    BY <1>1 DEF Inside, Measured
  <1>4. T' = IF req'[q].kind # "scrape" THEN T \cup {q} ELSE T
    BY <1>2, <1>3 DEF Inside
  <1>5. IsFiniteSet(T) /\ Cardinality(T) \in Nat /\ q \notin T
    BY <1>3, CountedFinite
  <1>6. Cardinality(T \cup {q}) = Cardinality(T) + 1
    BY <1>5, FS_AddElement
  <1> QED BY <1>1, <1>4, <1>6 DEF InFlightExact

\* The answered request is inside no more.
LEMMA AnswerCounted ==
  ASSUME TypeOK, InFlightExact, NEW q \in Requests, Answer(q)
  PROVE  InFlightExact'
  <1> DEFINE T == {p \in Inside : Measured(p)}
  <1>1. /\ \A p \in Requests : p # q => req'[p] = req[p]
        /\ req[q].pc = "answer" /\ req'[q].pc = "answered"
        /\ inFlight' = IF Measured(q) THEN inFlight - 1 ELSE inFlight
    BY AnswerEffect
  <1>2. \A p \in Requests \ {q} :
          ((p \in Inside)' <=> p \in Inside) /\ (Measured(p)' <=> Measured(p))
    BY <1>1, MeasuredKept
  <1>3. q \in Inside /\ ~(q \in Inside)'
    BY <1>1 DEF Inside
  <1>4. T' = IF Measured(q) THEN T \ {q} ELSE T
    BY <1>2, <1>3 DEF Inside
  <1>5. IsFiniteSet(T) /\ (Measured(q) => q \in T)
    BY <1>3, CountedFinite
  <1>6. Measured(q) => Cardinality(T \ {q}) = Cardinality(T) - 1
    BY <1>5, FS_RemoveElement
  <1> QED BY <1>1, <1>4, <1>6 DEF InFlightExact

\* A request that moves on inside leaves the gauge right.
LEMMA InsideCounted ==
  ASSUME InFlightExact, inFlight' = inFlight, NEW q \in Requests,
         \A p \in Requests : p # q => req'[p] = req[p],
         req[q].pc \notin {"idle", "answered"}, req'[q].pc \notin {"idle", "answered"},
         req'[q].kind = req[q].kind
  PROVE  InFlightExact'
  <1> DEFINE T == {p \in Inside : Measured(p)}
  <1>1. T' = T
    BY MeasuredKept DEF Inside, Measured
  <1> QED BY <1>1 DEF InFlightExact

\* A request that leaves is counted, once, under what its client will see.
LEMMA LeaveCounted ==
  ASSUME TypeOK, RecordsFit, TotalExact, NEW q \in Requests, Leave(q)
  PROVE  TotalExact' /\ total' \in [Statuses -> Nat]
  <1> DEFINE seen == Seen(req[q].out)
  <1>1. /\ \A p \in Requests : p # q => req'[p] = req[p]
        /\ req[q].pc = "leave" /\ req'[q].pc = "answer"
        /\ req'[q].kind = req[q].kind /\ req'[q].out = req[q].out
        /\ seen \in Statuses
        /\ total' = IF Measured(q) THEN [total EXCEPT ![seen] = @ + 1] ELSE total
    BY LeaveEffect
  <1>2. total \in [Statuses -> Nat]
    BY CountedFinite DEF TypeOK, TotalExact
  <1>3. total' \in [Statuses -> Nat]
    BY <1>1, <1>2
  <1>4. ASSUME NEW s \in Statuses
        PROVE  total'[s] = Cardinality(CountedUnder(s)')
    <2>1. \A p \in Requests \ {q} : (p \in CountedUnder(s))' <=> p \in CountedUnder(s)
      BY <1>1, MeasuredKept
    <2>2. q \notin CountedUnder(s)
      BY <1>1 DEF CountedUnder
    <2>3. (q \in CountedUnder(s))' <=> Measured(q) /\ seen = s
      BY <1>1 DEF CountedUnder, Measured
    <2>4. CountedUnder(s)' = IF Measured(q) /\ seen = s THEN CountedUnder(s) \cup {q}
                             ELSE CountedUnder(s)
      BY <2>1, <2>2, <2>3 DEF CountedUnder
    <2>5. Cardinality(CountedUnder(s) \cup {q}) = Cardinality(CountedUnder(s)) + 1
      BY <2>2, CountedFinite, FS_AddElement
    <2>6. total[s] = Cardinality(CountedUnder(s))
      BY DEF TotalExact
    <2>7. total'[s] = IF Measured(q) /\ seen = s THEN total[s] + 1 ELSE total[s]
      BY <1>1, <1>2
    <2> QED BY <2>4, <2>5, <2>6, <2>7
  <1> QED BY <1>3, <1>4 DEF TotalExact

\* Every other step leaves the requests that have left as they are.
LEMMA OthersCounted ==
  ASSUME TotalExact, total' = total, NEW q \in Requests,
         \A p \in Requests : p # q => req'[p] = req[p],
         \/ /\ req[q].pc \notin {"answer", "answered"}
            /\ req'[q].pc \notin {"answer", "answered"}
         \/ /\ req[q].pc \in {"answer", "answered"} /\ req'[q].pc \in {"answer", "answered"}
            /\ req'[q].kind = req[q].kind /\ req'[q].out = req[q].out
  PROVE  TotalExact'
  <1>1. \A s : CountedUnder(s)' = CountedUnder(s)
    BY MeasuredKept DEF CountedUnder, Measured
  <1> QED BY <1>1 DEF TotalExact

\* The gauge and the counters stay within bounds when they stay exact.
LEMMA CountsWithin ==
  ASSUME InFlightExact', TotalExact', total' \in [Statuses -> Nat]
  PROVE  /\ inFlight' \in 0 .. Cardinality(Requests)
         /\ total' \in [Statuses -> 0 .. Cardinality(Requests)]
  <1>1. {p \in Inside : Measured(p)}' \in SUBSET Requests
    BY DEF Inside
  <1>2. inFlight' \in 0 .. Cardinality(Requests)
    BY <1>1, SubsetCounted DEF InFlightExact
  <1>3. \A s \in Statuses : CountedUnder(s)' \in SUBSET Requests
    BY DEF CountedUnder
  <1>4. \A s \in Statuses : total'[s] \in 0 .. Cardinality(Requests)
    BY <1>3, SubsetCounted DEF TotalExact
  <1> QED BY <1>2, <1>4

-----------------------------------------------------------------------------
(* Types and records. *)

\* The claims of a new token.
LEMMA AccessTokenType ==
  ASSUME now \in Time, NEW u \in Users, NEW login \in Time, NEW renewed \in BOOLEAN,
         NEW t, t = [user |-> u, subject |-> "access", exp |-> now + AccessLife,
                     login |-> login, renewed |-> renewed]
  PROVE  /\ t \in Tokens /\ t.user = u /\ t.login = login /\ t.renewed = renewed
         /\ t.exp = now + AccessLife /\ t.subject = "access"
  BY ApiServerAssumption DEF Tokens, Time

LEMMA RefreshTokenType ==
  ASSUME now \in Time, NEW u \in Users, NEW t, t = GenerateRefreshToken(u)
  PROVE  /\ t \in Tokens /\ t.user = u /\ t.login = now /\ t.renewed = FALSE
         /\ t.exp = now + RefreshLife /\ t.subject = "refresh"
  BY ApiServerAssumption DEF GenerateRefreshToken, Tokens, Time

\* The tokens of a login, of a user who is there.
LEMMA LoginBound ==
  ASSUME now \in Time, NEW u \in Users, u \notin DOMAIN deletedAt, NEW t \in LoginTokens(u)
  PROVE  t \in Tokens /\ TokenBound(t)
  <1> USE ApiServerAssumption
  <1>1. CASE t = GenerateAccessToken(u, now, FALSE)
    <2>1. /\ t \in Tokens /\ t.user = u /\ t.login = now
          /\ t.exp = now + AccessLife /\ t.subject = "access"
      BY <1>1, ApiServerAssumption DEF GenerateAccessToken, Tokens, Time
    <2> QED BY <2>1 DEF TokenBound, Time
  <1>2. CASE t = GenerateRefreshToken(u)
    <2>1. /\ t \in Tokens /\ t.user = u /\ t.login = now
          /\ t.exp = now + RefreshLife /\ t.subject = "refresh"
      BY <1>2, RefreshTokenType
    <2> QED BY <2>1 DEF TokenBound, Time
  <1> QED BY <1>1, <1>2 DEF LoginTokens

\* Only a handler gives out tokens, and each is good for no longer than said.
LEMMA HandleIssues ==
  ASSUME TypeOK, TokensBound, NEW q \in Requests, Handle(q)
  PROVE  /\ issued \subseteq issued' /\ issued' \subseteq Tokens
         /\ \A t \in issued' : TokenBound(t)
  <1> USE ApiServerAssumption
  <1>1. /\ now \in Time /\ now \in Nat /\ users \subseteq Users /\ issued \subseteq Tokens
        /\ DOMAIN deletedAt = Users \ users
        /\ \A t \in issued : TokenBound(t)
        /\ req[q].token \in issued \cup {NoToken}
    BY DEF TypeOK, TokensBound, Time
  <1>2. CASE UNCHANGED issued
    BY <1>1, <1>2
  <1>3. ASSUME NEW u \in users, issued' = issued \cup LoginTokens(u)
        PROVE  /\ issued \subseteq issued' /\ issued' \subseteq Tokens
               /\ \A t \in issued' : TokenBound(t)
    <2>1. ASSUME NEW t \in LoginTokens(u)
          PROVE  t \in Tokens /\ TokenBound(t)
      BY <1>1, LoginBound
    <2> QED BY <1>1, <1>3, <2>1
  <1>4. ASSUME ValidateToken(req[q].token),
               issued' = issued \cup
                 {GenerateAccessToken(req[q].token.user, req[q].token.login,
                    req[q].token.renewed \/ req[q].token.subject = "access")}
        PROVE  /\ issued \subseteq issued' /\ issued' \subseteq Tokens
               /\ \A t \in issued' : TokenBound(t)
    <2>1. PICK old \in issued : old = req[q].token
      BY <1>1, <1>4 DEF ValidateToken
    <2>2. old \in Tokens /\ TokenBound(old) /\ now < old.exp
      BY <1>1, <1>4, <2>1 DEF ValidateToken
    <2> DEFINE new == GenerateAccessToken(old.user, old.login,
                        old.renewed \/ old.subject = "access")
    <2>3. /\ new \in Tokens /\ new.user = old.user /\ new.login = old.login
          /\ new.exp = now + AccessLife /\ new.subject = "access"
          /\ ~new.renewed => ~old.renewed /\ old.subject = "refresh"
      <3>1. PICK b \in BOOLEAN : b = (old.renewed \/ old.subject = "access")
        OBVIOUS
      <3>2. old.user \in Users /\ old.login \in Time /\ old.subject \in {"access", "refresh"}
        BY <2>2 DEF Tokens
      <3>3. new = [user |-> old.user, subject |-> "access", exp |-> now + AccessLife,
                   login |-> old.login, renewed |-> b]
        BY <3>1 DEF GenerateAccessToken
      <3> HIDE DEF new
      <3>4. /\ new \in Tokens /\ new.user = old.user /\ new.login = old.login
            /\ new.exp = now + AccessLife /\ new.subject = "access" /\ new.renewed = b
        BY <1>1, <3>2, <3>3, AccessTokenType
      <3> QED BY <3>1, <3>2, <3>4
    <2>4. issued' = issued \cup {new}
      BY <1>4, <2>1
    <2> HIDE DEF new
    <2>5. old.exp \in Nat /\ old.login \in Nat
      BY <2>2 DEF Tokens, Time
    <2>6. TokenBound(new)
      BY <1>1, <2>2, <2>3, <2>5 DEF TokenBound
    <2> QED BY <1>1, <2>3, <2>4, <2>6
  <1>5. \/ UNCHANGED issued
        \/ \E u \in users : issued' = issued \cup LoginTokens(u)
        \/ /\ ValidateToken(req[q].token)
           /\ issued' = issued \cup
                 {GenerateAccessToken(req[q].token.user, req[q].token.login,
                    req[q].token.renewed \/ req[q].token.subject = "access")}
    BY DEF Handle, Login, RefreshToken, Me, Health, Scrape, Unmatched
  <1> QED BY <1>2, <1>3, <1>4, <1>5

\* The counts follow the sets of requests: one request moves, or none does.
LEMMA CountsStep ==
  ASSUME TypeOK, RecordsFit, InFlightExact, TotalExact, [Next]_vars
  PROVE  InFlightExact' /\ TotalExact' /\ total' \in [Statuses -> Nat]
  <1>0. total \in [Statuses -> Nat]
    BY CountedFinite DEF TypeOK, TotalExact
  <1>1. ASSUME NEW q \in Requests, Enter(q)
        PROVE  InFlightExact' /\ TotalExact' /\ total' \in [Statuses -> Nat]
    <2>1. total' = total
      BY <1>1 DEF Enter
    <2>2. TotalExact'
      BY <1>1, <2>1, EnterEffect, OthersCounted
    <2> QED BY <1>0, <1>1, <2>1, <2>2, EnterCounted
  <1>2. ASSUME NEW q \in Requests, AuthMiddleware(q)
        PROVE  InFlightExact' /\ TotalExact' /\ total' \in [Statuses -> Nat]
    <2>1. total' = total /\ inFlight' = inFlight
      BY <1>2 DEF AuthMiddleware
    <2>2. InFlightExact'
      BY <1>2, <2>1, AuthEffect, InsideCounted
    <2>3. TotalExact'
      BY <1>2, <2>1, AuthEffect, OthersCounted
    <2> QED BY <1>0, <2>1, <2>2, <2>3
  <1>3. ASSUME NEW q \in Requests, Handle(q)
        PROVE  InFlightExact' /\ TotalExact' /\ total' \in [Statuses -> Nat]
    <2>1. total' = total /\ inFlight' = inFlight
      BY <1>3 DEF Handle
    <2>2. InFlightExact'
      BY <1>3, <2>1, HandleEffect, InsideCounted
    <2>3. TotalExact'
      BY <1>3, <2>1, HandleEffect, OthersCounted
    <2> QED BY <1>0, <2>1, <2>2, <2>3
  <1>4. ASSUME NEW q \in Requests, Leave(q)
        PROVE  InFlightExact' /\ TotalExact' /\ total' \in [Statuses -> Nat]
    <2>1. inFlight' = inFlight
      BY <1>4 DEF Leave
    <2>2. InFlightExact'
      BY <1>4, <2>1, LeaveEffect, InsideCounted
    <2> QED BY <1>4, <2>2, LeaveCounted
  <1>5. ASSUME NEW q \in Requests, Answer(q)
        PROVE  InFlightExact' /\ TotalExact' /\ total' \in [Statuses -> Nat]
    <2>1. total' = total
      BY <1>5 DEF Answer
    <2>2. TotalExact'
      BY <1>5, <2>1, AnswerEffect, OthersCounted
    <2> QED BY <1>0, <1>5, <2>1, <2>2, AnswerCounted
  <1>6. ASSUME UNCHANGED <<inFlight, total, req>>
        PROVE  InFlightExact' /\ TotalExact' /\ total' \in [Statuses -> Nat]
    BY <1>0, <1>6 DEF InFlightExact, TotalExact, Inside, Measured, CountedUnder
  <1> QED
    BY <1>1, <1>2, <1>3, <1>4, <1>5, <1>6 DEF Next, Step, DeleteUser, Tick, vars

\* The types that are not a matter of counting.
LEMMA TypeStep ==
  ASSUME TypeOK, RecordsFit, TokensBound, InFlightExact, TotalExact, [Next]_vars
  PROVE  TypeOK'
  <1>1. /\ inFlight' \in 0 .. Cardinality(Requests)
        /\ total' \in [Statuses -> 0 .. Cardinality(Requests)]
    BY CountsStep, CountsWithin
  <1>2. req' \in [Requests -> RequestState]
    <2>1. UNCHANGED req => req' \in [Requests -> RequestState]
      BY DEF TypeOK
    <2> QED
      BY <2>1, EnterEffect, AuthEffect, HandleEffect, LeaveEffect, AnswerEffect
      DEF Next, Step, DeleteUser, Tick, vars
  <1>3. issued' \subseteq Tokens
    <2>1. UNCHANGED issued => issued' \subseteq Tokens
      BY DEF TypeOK
    <2> QED
      BY <2>1, HandleIssues
      DEF Next, Step, Enter, AuthMiddleware, Leave, Answer, DeleteUser, Tick, vars
  <1>4. /\ dbUp' \in BOOLEAN /\ storageUp' \in BOOLEAN /\ now' \in Time
        /\ users' \subseteq Users /\ deletedAt' \in [Users \ users' -> Time]
    <2>1. CASE UNCHANGED <<dbUp, storageUp, now, users, deletedAt>>
      BY <2>1 DEF TypeOK
    <2>2. CASE Tick
      BY <2>2, ApiServerAssumption DEF Tick, TypeOK, Time
    <2>3. ASSUME NEW u \in Users, DeleteUser(u)
          PROVE  /\ dbUp' \in BOOLEAN /\ storageUp' \in BOOLEAN /\ now' \in Time
                 /\ users' \subseteq Users /\ deletedAt' \in [Users \ users' -> Time]
      BY <2>3 DEF DeleteUser, TypeOK
    <2> QED
      BY <2>1, <2>2, <2>3
      DEF Next, Step, Enter, AuthMiddleware, Handle, Leave, Answer, vars
  <1> QED BY <1>1, <1>2, <1>3, <1>4 DEF TypeOK

-----------------------------------------------------------------------------
(* The records, the tokens and the sessions. *)

\* The part of RecordsFit that is about one request.
Fits(q) ==
  LET r == req[q] IN
  /\ r.out.err = "panic" => r.out.status = 500 /\ ~(dbUp /\ storageUp)
  /\ r.pc \in {"answer", "answered"} =>
       /\ r.log = IF r.out.err = "panic" THEN NoStatus ELSE Seen(r.out)
       /\ r.span = r.log
  /\ r.pc = "answered" => r.client = Seen(r.out)

LEMMA RecordsStep ==
  ASSUME TypeOK, RecordsFit, [Next]_vars
  PROVE  RecordsFit'
  <1>1. \A q \in Requests : Fits(q)
    BY DEF RecordsFit, Fits
  <1>2. dbUp' = dbUp /\ storageUp' = storageUp
    BY DEF Next, Step, Enter, AuthMiddleware, Handle, Leave, Answer, DeleteUser, Tick, vars
  <1>3. ASSUME NEW p \in Requests, req'[p] = req[p]
        PROVE  Fits(p)'
    BY <1>1, <1>2, <1>3 DEF Fits
  <1>4. ASSUME NEW q \in Requests, Enter(q)
        PROVE  \A p \in Requests : Fits(p)'
    <2>1. Fits(q)'
      BY <1>1, <1>2, <1>4, EnterEffect DEF Fits
    <2> QED BY <1>3, <1>4, <2>1, EnterEffect
  <1>5. ASSUME NEW q \in Requests, AuthMiddleware(q)
        PROVE  \A p \in Requests : Fits(p)'
    <2>1. Fits(q)'
      BY <1>1, <1>2, <1>5, AuthEffect DEF Fits
    <2> QED BY <1>3, <1>5, <2>1, AuthEffect
  <1>6. ASSUME NEW q \in Requests, Handle(q)
        PROVE  \A p \in Requests : Fits(p)'
    <2>1. Fits(q)'
      BY <1>1, <1>2, <1>6, HandleEffect DEF Fits
    <2> QED BY <1>3, <1>6, <2>1, HandleEffect
  <1>7. ASSUME NEW q \in Requests, Leave(q)
        PROVE  \A p \in Requests : Fits(p)'
    <2>1. Fits(q)'
      BY <1>1, <1>2, <1>7, LeaveEffect DEF Fits
    <2> QED BY <1>3, <1>7, <2>1, LeaveEffect
  <1>8. ASSUME NEW q \in Requests, Answer(q)
        PROVE  \A p \in Requests : Fits(p)'
    <2>1. Fits(q)'
      BY <1>1, <1>2, <1>8, AnswerEffect DEF Fits
    <2> QED BY <1>3, <1>8, <2>1, AnswerEffect
  <1>9. UNCHANGED req => \A p \in Requests : Fits(p)'
    BY <1>3
  <1>10. \A p \in Requests : Fits(p)'
    BY <1>4, <1>5, <1>6, <1>7, <1>8, <1>9 DEF Next, Step, DeleteUser, Tick, vars
  <1> QED BY <1>10 DEF RecordsFit, Fits

\* What a token promises stays true: the clock only runs on, and a user is
\* deleted at the end of the time so far.
LEMMA TokenBoundStays ==
  ASSUME TypeOK, [Next]_vars, NEW t \in Tokens, TokenBound(t)
  PROVE  TokenBound(t)'
  <1>0. now \in Nat /\ t.login \in Nat
    BY ApiServerAssumption DEF TypeOK, Time, Tokens
  <1>1. CASE UNCHANGED <<now, deletedAt>>
    BY <1>1 DEF TokenBound
  <1>2. CASE Tick
    BY <1>0, <1>2 DEF Tick, TokenBound
  <1>3. ASSUME NEW u \in Users, DeleteUser(u)
        PROVE  TokenBound(t)'
    <2>1. /\ now' = now /\ DOMAIN deletedAt = Users \ users
          /\ users' = users \ {u} /\ u \in users
          /\ deletedAt' = [v \in Users \ users' |-> IF v = u THEN now ELSE deletedAt[v]]
      BY <1>3 DEF DeleteUser, TypeOK
    <2>2. CASE t.user = u
      BY <2>1, <2>2 DEF TokenBound
    <2>3. CASE t.user # u
      BY <2>1, <2>3 DEF TokenBound
    <2> QED BY <2>2, <2>3
  <1> QED
    BY <1>1, <1>2, <1>3 DEF Next, Step, Enter, AuthMiddleware, Handle, Leave, Answer, vars

LEMMA TokensStep ==
  ASSUME TypeOK, TokensBound, [Next]_vars
  PROVE  TokensBound'
  <1> DEFINE Holds(q) == /\ req[q].token \in issued \cup {NoToken}
                         /\ req[q].at <= now
                         /\ req[q].pc \in {"idle", "auth"} => req[q].at = 0
  <1>1. /\ \A q \in Requests : Holds(q)
        /\ \A t \in issued : t \in Tokens /\ TokenBound(t)
        /\ now \in Nat /\ \A q \in Requests : req[q].at \in Nat
    BY ApiServerAssumption DEF TokensBound, TypeOK, RequestState, Time
  <1>2. issued \subseteq issued' /\ \A t \in issued' : TokenBound(t)'
    <2>1. CASE UNCHANGED issued
      BY <1>1, <2>1, TokenBoundStays
    <2>2. ASSUME NEW q \in Requests, Handle(q)
          PROVE  issued \subseteq issued' /\ \A t \in issued' : TokenBound(t)'
      BY <2>2, HandleIssues, TokenBoundStays
    <2> QED
      BY <2>1, <2>2 DEF Next, Step, Enter, AuthMiddleware, Leave, Answer, DeleteUser, Tick, vars
  <1>3. now' \in Nat /\ now <= now'
    <2>1. UNCHANGED now \/ Tick
      BY DEF Next, Step, Enter, AuthMiddleware, Handle, Leave, Answer, DeleteUser, vars
    <2> QED BY <1>1, <2>1 DEF Tick
  <1>4. ASSUME NEW p \in Requests, req'[p] = req[p]
        PROVE  Holds(p)'
    BY <1>1, <1>2, <1>3, <1>4
  <1>5. ASSUME NEW q \in Requests, Enter(q)
        PROVE  \A p \in Requests : Holds(p)'
    <2>1. Holds(q)'
      BY <1>1, <1>2, <1>3, <1>5, EnterEffect
    <2> HIDE DEF Holds
    <2> QED BY <1>4, <1>5, <2>1, EnterEffect
  <1>6. ASSUME NEW q \in Requests, AuthMiddleware(q)
        PROVE  \A p \in Requests : Holds(p)'
    <2>1. Holds(q)'
      BY <1>1, <1>2, <1>3, <1>6, AuthEffect
    <2> HIDE DEF Holds
    <2> QED BY <1>4, <1>6, <2>1, AuthEffect
  <1>7. ASSUME NEW q \in Requests, Handle(q)
        PROVE  \A p \in Requests : Holds(p)'
    <2>1. Holds(q)'
      BY <1>1, <1>2, <1>3, <1>7, HandleEffect
    <2> HIDE DEF Holds
    <2> QED BY <1>4, <1>7, <2>1, HandleEffect
  <1>8. ASSUME NEW q \in Requests, Leave(q) \/ Answer(q)
        PROVE  \A p \in Requests : Holds(p)'
    <2>1. /\ \A p \in Requests : p # q => req'[p] = req[p]
          /\ req'[q].token = req[q].token /\ req'[q].at = req[q].at
          /\ req'[q].pc \notin {"idle", "auth"}
      <3>1. CASE Leave(q)
        BY <3>1 DEF Leave, TypeOK, RequestState
      <3>2. CASE Answer(q)
        BY <3>2, AnswerEffect
      <3> QED BY <1>8, <3>1, <3>2
    <2>2. Holds(q)'
      BY <1>1, <1>2, <1>3, <2>1
    <2> HIDE DEF Holds
    <2> QED BY <1>4, <2>1, <2>2
  <1>9. UNCHANGED req => \A p \in Requests : Holds(p)'
    <2> HIDE DEF Holds
    <2> QED BY <1>4
  <1>10. \A p \in Requests : Holds(p)'
    <2> HIDE DEF Holds
    <2> QED BY <1>5, <1>6, <1>7, <1>8, <1>9 DEF Next, Step, DeleteUser, Tick, vars
  <1> QED BY <1>2, <1>10 DEF TokensBound

\* The part of SessionBound that is about one request.
Bounded(q) ==
  LET t == req[q].token
      life == RefreshLife + AccessLife IN
  req[q].kind = "me" /\ ~t.renewed =>
    /\ req[q].at < t.login + life
    /\ t.user \in DOMAIN deletedAt => req[q].at < deletedAt[t.user] + life

\* A request that AuthMiddleware has not let pass is within any bound.
LEMMA BoundedBefore ==
  ASSUME TypeOK, NEW t \in issued \cup {NoToken}
  PROVE  /\ 0 < t.login + (RefreshLife + AccessLife)
         /\ t.user \in DOMAIN deletedAt =>
              0 < deletedAt[t.user] + (RefreshLife + AccessLife)
  <1>1. /\ AccessLife \in Nat \ {0} /\ RefreshLife \in Nat
        /\ \A u \in DOMAIN deletedAt : deletedAt[u] \in Nat
    BY ApiServerAssumption DEF TypeOK, Time
  <1>2. t.login \in Nat
    BY ApiServerAssumption, NoTokenType DEF TypeOK, Tokens, Time
  <1> QED BY <1>1, <1>2

\* A request passes with a token that is good at that instant.
LEMMA BoundedPassing ==
  ASSUME TypeOK, NEW t \in issued, TokenBound(t), ValidateToken(t), ~t.renewed
  PROVE  /\ now < t.login + (RefreshLife + AccessLife)
         /\ t.user \in DOMAIN deletedAt =>
              now < deletedAt[t.user] + (RefreshLife + AccessLife)
  <1>1. /\ AccessLife \in Nat \ {0} /\ RefreshLife \in Nat /\ now \in Nat
        /\ \A u \in DOMAIN deletedAt : deletedAt[u] \in Nat
        /\ t.login \in Nat /\ t.exp \in Nat
    BY ApiServerAssumption DEF TypeOK, Tokens, Time
  <1>2. now < t.exp
    BY DEF ValidateToken
  <1>3. t.exp <= t.login + (RefreshLife + AccessLife)
    BY <1>1 DEF TokenBound
  <1> QED BY <1>1, <1>2, <1>3 DEF TokenBound

LEMMA SessionStep ==
  ASSUME TypeOK, TokensBound, SessionBound, [Next]_vars
  PROVE  SessionBound'
  <1>1. \A q \in Requests : Bounded(q) /\ req[q].at \in Nat /\ req[q].at <= now
    BY ApiServerAssumption DEF SessionBound, Bounded, TokensBound, TypeOK, RequestState, Time
  <1>2. ASSUME NEW p \in Requests, deletedAt' = deletedAt, req'[p].kind = req[p].kind,
               req'[p].token = req[p].token, req'[p].at = req[p].at
        PROVE  Bounded(p)'
    BY <1>1, <1>2 DEF Bounded
  <1>3. ASSUME NEW q \in Requests, Enter(q)
        PROVE  \A p \in Requests : Bounded(p)'
    <2>1. /\ deletedAt' = deletedAt /\ req'[q].token \in issued \cup {NoToken}
          /\ req'[q].at = 0
      BY <1>3, EnterEffect DEF Enter, TokensBound
    <2>2. Bounded(q)'
      BY <2>1, BoundedBefore DEF Bounded
    <2> QED BY <1>2, <1>3, <2>1, <2>2, EnterEffect
  <1>4. ASSUME NEW q \in Requests, AuthMiddleware(q)
        PROVE  \A p \in Requests : Bounded(p)'
    <2>1. deletedAt' = deletedAt
      BY <1>4 DEF AuthMiddleware
    <2>2. CASE req'[q].at = req[q].at
      BY <1>2, <1>4, <2>1, <2>2, AuthEffect
    <2>3. CASE req'[q].at = now /\ ValidateToken(req[q].token)
      <3>1. PICK t : t = req[q].token
        OBVIOUS
      <3>2. t \in issued /\ TokenBound(t) /\ ValidateToken(t)
        BY <2>3, <3>1 DEF TokensBound, ValidateToken
      <3>3. ~t.renewed =>
              /\ now < t.login + (RefreshLife + AccessLife)
              /\ t.user \in DOMAIN deletedAt =>
                   now < deletedAt[t.user] + (RefreshLife + AccessLife)
        BY <3>2, BoundedPassing
      <3>4. req'[q].token = t
        BY <1>4, <3>1, AuthEffect
      <3>5. Bounded(q)'
        BY <2>1, <2>3, <3>3, <3>4 DEF Bounded
      <3> QED BY <1>2, <1>4, <2>1, <3>5, AuthEffect
    <2> QED BY <1>4, <2>2, <2>3, AuthEffect
  <1>5. ASSUME NEW q \in Requests, Handle(q)
        PROVE  \A p \in Requests : Bounded(p)'
    <2>1. deletedAt' = deletedAt
      BY <1>5 DEF Handle
    <2> QED BY <1>2, <1>5, <2>1, HandleEffect
  <1>6. ASSUME NEW q \in Requests, Leave(q)
        PROVE  \A p \in Requests : Bounded(p)'
    <2>1. /\ deletedAt' = deletedAt /\ req'[q].kind = req[q].kind
          /\ req'[q].token = req[q].token /\ req'[q].at = req[q].at
          /\ \A p \in Requests : p # q => req'[p] = req[p]
      BY <1>6 DEF Leave, TypeOK, RequestState
    <2> QED BY <1>2, <2>1
  <1>7. ASSUME NEW q \in Requests, Answer(q)
        PROVE  \A p \in Requests : Bounded(p)'
    <2>1. deletedAt' = deletedAt
      BY <1>7 DEF Answer
    <2> QED BY <1>2, <1>7, <2>1, AnswerEffect
  <1>8. ASSUME NEW u \in Users, DeleteUser(u)
        PROVE  \A p \in Requests : Bounded(p)'
    <2>1. /\ req' = req /\ DOMAIN deletedAt = Users \ users
          /\ users' = users \ {u} /\ u \in users /\ now \in Nat
          /\ deletedAt' = [v \in Users \ users' |-> IF v = u THEN now ELSE deletedAt[v]]
          /\ AccessLife \in Nat \ {0} /\ RefreshLife \in Nat
      BY <1>8, ApiServerAssumption DEF DeleteUser, TypeOK, Time
    <2>2. ASSUME NEW p \in Requests
          PROVE  Bounded(p)'
      <3>1. Bounded(p) /\ req[p].at \in Nat /\ req[p].at <= now
        BY <1>1
      <3>2. CASE req[p].token.user = u
        BY <2>1, <3>1, <3>2 DEF Bounded
      <3>3. CASE req[p].token.user # u
        BY <2>1, <3>1, <3>3 DEF Bounded
      <3> QED BY <3>2, <3>3
    <2> QED BY <2>2
  <1>9. ASSUME UNCHANGED <<req, deletedAt>>
        PROVE  \A p \in Requests : Bounded(p)'
    BY <1>2, <1>9
  <1>10. \A p \in Requests : Bounded(p)'
    BY <1>3, <1>4, <1>5, <1>6, <1>7, <1>8, <1>9 DEF Next, Step, Tick, vars
  <1> QED BY <1>10 DEF SessionBound, Bounded

-----------------------------------------------------------------------------
(* What holds of every behaviour. *)

LEMMA InitInv == Init => ServerInv
  <1> SUFFICES ASSUME Init PROVE ServerInv
    OBVIOUS
  <1> USE ApiServerAssumption
  <1> DEFINE r == [pc |-> "idle", kind |-> "health", token |-> NoToken, at |-> 0,
                   out |-> Respond(200), log |-> NoStatus, span |-> NoStatus,
                   client |-> NoStatus]
  <1>1. r \in RequestState
    <2>1. Respond(200) \in Outcome /\ 0 \in Time
      BY OutcomeType DEF Statuses, Time
    <2> QED BY <2>1 DEF RequestState, Kinds
  <1>2. r.out.err = "none" /\ r.pc = "idle" /\ r.kind = "health" /\ r.token = NoToken /\ r.at = 0
    BY OutcomeType DEF Statuses
  <1>3. req = [q \in Requests |-> r] /\ deletedAt = [u \in {} |-> 0] /\ users = Users /\ now = 0
    BY DEF Init
  <1> HIDE DEF r
  <1>4. \A q \in Requests : req[q] = r
    BY <1>3
  <1>5. InFlightExact
    <2>1. {q \in Inside : Measured(q)} = {}
      BY <1>2, <1>4 DEF Inside
    <2> QED BY <2>1, FS_EmptySet DEF InFlightExact, Init
  <1>6. TotalExact
    <2>1. \A s : CountedUnder(s) = {}
      BY <1>2, <1>4 DEF CountedUnder
    <2> QED BY <2>1, FS_EmptySet DEF TotalExact, Init
  <1>7. \A t \in issued : t \in Tokens /\ TokenBound(t)
    <2>1. now \in Time /\ DOMAIN deletedAt = {}
      BY <1>3 DEF Time
    <2> QED BY <2>1, LoginBound DEF Init
  <1>8. TypeOK
    <2>1. Cardinality(Requests) \in Nat
      BY FS_CardinalityType
    <2>2. inFlight \in 0 .. Cardinality(Requests) /\ total \in [Statuses -> 0 .. Cardinality(Requests)]
      BY <2>1 DEF Init
    <2>3. deletedAt \in [Users \ users -> Time]
      BY <1>3
    <2> QED BY <1>1, <1>3, <1>7, <2>2, <2>3 DEF TypeOK, Init, Time
  <1>9. RecordsFit
    BY <1>2, <1>4 DEF RecordsFit
  <1>10. TokensBound
    BY <1>2, <1>3, <1>4, <1>7 DEF TokensBound
  <1>11. SessionBound
    BY <1>2, <1>4 DEF SessionBound
  <1> QED BY <1>5, <1>6, <1>8, <1>9, <1>10, <1>11 DEF ServerInv

\* ServerInv: the types, the exact counts, the records and the life of the
\* tokens and sessions hold in every state, for any finite set of requests.
THEOREM ServerInvariant == Spec => []ServerInv
  <1>1. ServerInv /\ [Next]_vars => ServerInv'
    BY CountsStep, TypeStep, RecordsStep, TokensStep, SessionStep DEF ServerInv
  <1> QED BY InitInv, <1>1, PTL DEF Spec

\* The state of the server has its types: the gauge never goes below zero and
\* neither it nor a counter exceeds the number of requests.
THEOREM TypeCorrect == Spec => []TypeOK
  <1>1. ServerInv => TypeOK
    BY DEF ServerInv
  <1> QED BY ServerInvariant, <1>1, PTL

\* A session ends at most the two lifetimes after its login, and after the
\* deletion of its user, unless an access token was refreshed.
THEOREM SessionsEnd == Spec => []SessionBound
  <1>1. ServerInv => SessionBound
    BY DEF ServerInv
  <1> QED BY ServerInvariant, <1>1, PTL

\* The gauge, the counter, the log and the span tell what the clients saw.
THEOREM ViewsAlwaysAgree == Spec => []ViewsAgree
  <1>1. ASSUME ServerInv
        PROVE  ViewsAgree
    <2>1. CountedAsAnswered
      <3> SUFFICES ASSUME NEW s \in Statuses
                   PROVE  LET answered == {q \in Answered : Measured(q) /\ req[q].client = s}
                              last == {q \in Requests : req[q].pc = "answer" /\ Measured(q)} IN
                          /\ total[s] >= Cardinality(answered)
                          /\ last = {} => total[s] = Cardinality(answered)
        BY DEF CountedAsAnswered
      <3> DEFINE answered == {q \in Answered : Measured(q) /\ req[q].client = s}
                 last == {q \in Requests : req[q].pc = "answer" /\ Measured(q)}
      <3>1. answered \subseteq CountedUnder(s)
        BY <1>1 DEF ServerInv, RecordsFit, Answered, CountedUnder
      <3>2. last = {} => answered = CountedUnder(s)
        BY <1>1 DEF ServerInv, RecordsFit, Answered, CountedUnder
      <3>3. total[s] = Cardinality(CountedUnder(s)) /\ IsFiniteSet(CountedUnder(s))
        BY <1>1, CountedFinite DEF ServerInv, TotalExact
      <3>4. Cardinality(answered) <= Cardinality(CountedUnder(s))
        BY <3>1, <3>3, FS_Subset
      <3>5. Cardinality(answered) \in Nat /\ Cardinality(CountedUnder(s)) \in Nat
        BY <3>1, <3>3, FS_Subset, FS_CardinalityType
      <3> QED BY <3>2, <3>3, <3>4, <3>5
    <2>2. LoggedAsAnswered
      BY <1>1 DEF ServerInv, RecordsFit, Answered, LoggedAsAnswered, Seen, customErrorHandler
    <2> QED BY <1>1, <2>1, <2>2 DEF ServerInv, ViewsAgree
  <1> QED BY ServerInvariant, <1>1, PTL
=============================================================================
