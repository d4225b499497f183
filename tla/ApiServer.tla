----------------------------- MODULE ApiServer -----------------------------
(***************************************************************************)
(* The HTTP server: what main and app.New leave configured, the middleware *)
(* every request goes through (recover, Metrics, RequestID, Tracing,       *)
(* RequestLogger, CORS, limiter), the error handler behind it, and the     *)
(* handlers that give out and check tokens (login, refresh, me) beside     *)
(* the health check, the scrape endpoint and the paths no route matches.   *)
(*                                                                         *)
(* A request runs on a goroutine of its own.  Requests meet at the         *)
(* in-flight gauge and the request counter, at the clock, at the users     *)
(* table and at the tokens, and a step below is what happens between two   *)
(* of those meetings.  The middleware is entered in its order and left in  *)
(* reverse; a panic leaves by the deferred calls only.                     *)
(*                                                                         *)
(* What is abstracted.  A token is its claims: nobody forges one.  The     *)
(* permission middleware is the subject of AccessDecision and              *)
(* PermissionCache, the users table of UserAccounts.                       *)
(***************************************************************************)
EXTENDS Naturals, FiniteSets

CONSTANTS
  Requests,
  Users,
  AccessLife,   \* lifetime of an access token, in ticks of the clock
  RefreshLife,  \* lifetime of a refresh token
  MaxTime,      \* bound of the clock
  Nobody

ASSUME ApiServerAssumption ==
  /\ AccessLife \in Nat \ {0} /\ RefreshLife \in Nat /\ RefreshLife >= AccessLife
  /\ MaxTime \in Nat
  /\ Nobody \notin Users
  /\ IsFiniteSet(Requests)

VARIABLES
  dbUp,       \* InitPostgres connected; database.DB is nil otherwise
  storageUp,  \* the storage provider was built; a nil pointer otherwise
  now,
  users,      \* the rows of the users table
  issued,     \* the tokens ever given out
  inFlight,   \* gauge http_server_requests_in_flight
  total,      \* counter http_server_requests_total, by status
  req,        \* the local state of each request
  deletedAt   \* history, read by no step: when each user was deleted

vars == <<dbUp, storageUp, now, users, issued, inFlight, total, req,
          deletedAt>>

Time == 0 .. MaxTime
Statuses == {200, 401, 404, 429, 500}
NoStatus == 0

Tokens ==
  [user : Users, subject : {"access", "refresh"},
   exp : Nat,          \* the claim exp: accepted before this instant
   login : Time,       \* history: the login the token goes back to
   renewed : BOOLEAN]  \* history: on the way, an access token was refreshed

NoToken == [user |-> Nobody, subject |-> "access", exp |-> 0, login |-> 0,
            renewed |-> FALSE]

(* A handler ends with a response of its own (err "none"), returns a        *)
(* *fiber.Error, or panics.  No handler returns any other error.            *)
Outcome == [status : Statuses, err : {"none", "fiber", "panic"}]

Respond(s)    == [status |-> s, err |-> "none"]
FiberError(s) == [status |-> s, err |-> "fiber"]
Panic         == [status |-> 500, err |-> "panic"]

Kinds == {"login", "refresh", "me", "health", "scrape", "unmatched"}

RequestState ==
  [pc : {"idle", "auth", "handler", "leave", "answer", "answered"},
   kind : Kinds,
   token : Tokens \cup {NoToken},
   at : Time,                          \* when AuthMiddleware let it pass
   out : Outcome,
   log : Statuses \cup {NoStatus},     \* status of the log record
   span : Statuses \cup {NoStatus},    \* status on the span
   client : Statuses \cup {NoStatus}]  \* status of the answer

TypeOK ==
  /\ dbUp \in BOOLEAN /\ storageUp \in BOOLEAN
  /\ now \in Time
  /\ users \subseteq Users
  /\ issued \subseteq Tokens
  /\ inFlight \in 0 .. Cardinality(Requests)
  /\ total \in [Statuses -> 0 .. Cardinality(Requests)]
  /\ req \in [Requests -> RequestState]
  /\ deletedAt \in [Users \ users -> Time]

GenerateAccessToken(u, login, renewed) ==
  [user |-> u, subject |-> "access", exp |-> now + AccessLife,
   login |-> login, renewed |-> renewed]

GenerateRefreshToken(u) ==
  [user |-> u, subject |-> "refresh", exp |-> now + RefreshLife,
   login |-> now, renewed |-> FALSE]

LoginTokens(u) == {GenerateAccessToken(u, now, FALSE), GenerateRefreshToken(u)}

(* Mutant of ValidateToken: a token is still good at its exp. *)
ValidateTokenLate(t) == t # NoToken /\ now <= t.exp

(* The same for both kinds: the subject is not looked at. *)
ValidateToken(t) == t # NoToken /\ now < t.exp

(* main connects and goes on without a database, app.New drops the error of *)
(* the storage factory: the server comes up in every combination.  The      *)
(* tokens of every user's last login, before this process, are still good.  *)
Init ==
  /\ dbUp \in BOOLEAN /\ storageUp \in BOOLEAN
  /\ now = 0
  /\ users = Users
  /\ issued = UNION {LoginTokens(u) : u \in Users}
  /\ inFlight = 0
  /\ total = [s \in Statuses |-> 0]
  /\ req = [q \in Requests |->
             [pc |-> "idle", kind |-> "health", token |-> NoToken, at |-> 0,
              out |-> Respond(200), log |-> NoStatus, span |-> NoStatus,
              client |-> NoStatus]]
  /\ deletedAt = [u \in {} |-> 0]

-----------------------------------------------------------------------------
(* The way in. *)

(* Mutant of Measured: the scrape is not skipped on the way out. *)
MeasuredAll(q) == TRUE

(* The scrape is not measured: counting it would make the rate              *)
(* self-referential.                                                        *)
Measured(q) == req[q].kind # "scrape"

(* recover, Metrics (which raises the gauge), RequestID, Tracing,           *)
(* RequestLogger, CORS and the limiter.  fiber's limiter counts the         *)
(* requests of an IP in a fixed window; here it may refuse any request.     *)
Enter(q) ==
  /\ req[q].pc = "idle"
  /\ \E k \in Kinds, t \in issued \cup {NoToken}, refused \in BOOLEAN :
       /\ k \in {"refresh", "me"} \/ t = NoToken
       /\ req' = [req EXCEPT
            ![q].pc = IF refused THEN "leave"
                      ELSE IF k = "me" THEN "auth" ELSE "handler",
            ![q].kind = k, ![q].token = t,
            ![q].out = IF refused THEN Respond(429) ELSE @]
       /\ inFlight' = IF k # "scrape" THEN inFlight + 1 ELSE inFlight
  /\ UNCHANGED <<dbUp, storageUp, now, users, issued, total, deletedAt>>

(* Mutant of AuthMiddleware: no answer to a token that is not valid. *)
AuthMiddlewareSilent(q) ==
  /\ req[q].pc = "auth"
  /\ ValidateToken(req[q].token)
  /\ req' = [req EXCEPT ![q].pc = "handler", ![q].at = now]
  /\ UNCHANGED <<dbUp, storageUp, now, users, issued, inFlight, total,
                 deletedAt>>

AuthMiddleware(q) ==
  /\ req[q].pc = "auth"
  /\ IF ValidateToken(req[q].token)
     THEN req' = [req EXCEPT ![q].pc = "handler", ![q].at = now]
     ELSE req' = [req EXCEPT ![q].pc = "leave", ![q].out = Respond(401)]
  /\ UNCHANGED <<dbUp, storageUp, now, users, issued, inFlight, total,
                 deletedAt>>

-----------------------------------------------------------------------------
(* The handlers. *)

Done(q, o) == req' = [req EXCEPT ![q].pc = "leave", ![q].out = o]

(* Any failure of the lookup is taken for a wrong password.  With no        *)
(* database the repository holds a nil handle and the query panics.  The    *)
(* 500 of a token that cannot be signed is left out: HMAC with a key of     *)
(* bytes does not fail.                                                     *)
Login(q) ==
  /\ req[q].kind = "login"
  /\ IF ~dbUp THEN Done(q, Panic) /\ UNCHANGED issued
     ELSE \/ Done(q, Respond(401)) /\ UNCHANGED issued
          \/ \E u \in users :
               /\ issued' = issued \cup LoginTokens(u)
               /\ Done(q, Respond(200))

(* No look at the subject, nor at whether the user is still there. *)
RefreshToken(q) ==
  LET t == req[q].token IN
  /\ req[q].kind = "refresh"
  /\ IF ValidateToken(t)
     THEN /\ issued' = issued \cup
               {GenerateAccessToken(t.user, t.login,
                                    t.renewed \/ t.subject = "access")}
          /\ Done(q, Respond(200))
     ELSE Done(q, Respond(401)) /\ UNCHANGED issued

Me(q) ==
  /\ req[q].kind = "me"
  /\ \/ ~dbUp /\ Done(q, Panic)
     \/ dbUp /\ req[q].token.user \in users /\ Done(q, Respond(200))
     \/ dbUp /\ Done(q, Respond(404))     \* deleted, or the query failed
  /\ UNCHANGED issued

(* The provider is an interface that holds a nil pointer when the factory   *)
(* failed: it passes the test against nil and Ping panics.                  *)
Health(q) ==
  /\ req[q].kind = "health"
  /\ Done(q, IF storageUp THEN Respond(200) ELSE Panic)
  /\ UNCHANGED issued

(* With a token configured: 401 or the exposition.  Without one the route   *)
(* is not there.                                                            *)
Scrape(q) ==
  /\ req[q].kind = "scrape"
  /\ \E o \in {Respond(200), FiberError(401), FiberError(404)} : Done(q, o)
  /\ UNCHANGED issued

Unmatched(q) ==
  /\ req[q].kind = "unmatched"
  /\ Done(q, FiberError(404))
  /\ UNCHANGED issued

Handle(q) ==
  /\ req[q].pc = "handler"
  /\ \/ Login(q)  \/ RefreshToken(q) \/ Me(q)
     \/ Health(q) \/ Scrape(q) \/ Unmatched(q)
  /\ UNCHANGED <<dbUp, storageUp, now, users, inFlight, total, deletedAt>>

-----------------------------------------------------------------------------
(* The way out. *)

(* The status of the response before the error handler has run: 200 unless  *)
(* the handler set one.                                                     *)
ResponseStatus(o) == IF o.err = "none" THEN o.status ELSE 200

(* Mutant of effectiveStatus: the status the response has at that moment. *)
effectiveStatusSoFar(o) == ResponseStatus(o)

(* What the client will see, worked out before the error handler runs.  The *)
(* code looks into wrapped errors here (errors.As), the error handler does  *)
(* not: no handler of the repository wraps a *fiber.Error, or returns an    *)
(* error of another type.                                                   *)
effectiveStatus(o) ==
  IF o.err = "none" THEN ResponseStatus(o)
  ELSE IF o.err = "fiber" THEN o.status ELSE 500

(* RequestLogger writes its record after Next returns, and Tracing puts the *)
(* status on the span: a panic passes both by, the span is only ended.      *)
(* Metrics observes the request after Next or, when a handler panicked, in  *)
(* the deferred call.                                                       *)
Leave(q) ==
  LET o == req[q].out
      panicked == o.err = "panic"
      s == IF panicked THEN NoStatus ELSE effectiveStatus(o)
      observed == IF panicked THEN 500 ELSE effectiveStatus(o) IN
  /\ req[q].pc = "leave"
  /\ req' = [req EXCEPT ![q].pc = "answer", ![q].log = s, ![q].span = s]
  /\ total' = IF Measured(q) THEN [total EXCEPT ![observed] = @ + 1] ELSE total
  /\ UNCHANGED <<dbUp, storageUp, now, users, issued, inFlight, deletedAt>>

(* recover makes an error of the panic, and any error but a *fiber.Error    *)
(* is a 500.                                                                *)
customErrorHandler(o) == IF o.err = "fiber" THEN o.status ELSE 500

(* The deferred Dec, then recover and the error handler. *)
Answer(q) ==
  LET o == req[q].out IN
  /\ req[q].pc = "answer"
  /\ inFlight' = IF Measured(q) THEN inFlight - 1 ELSE inFlight
  /\ req' = [req EXCEPT ![q].pc = "answered",
       ![q].client = IF o.err = "none" THEN ResponseStatus(o)
                                       ELSE customErrorHandler(o)]
  /\ UNCHANGED <<dbUp, storageUp, now, users, issued, total, deletedAt>>

-----------------------------------------------------------------------------
(* What goes on beside the requests. *)

Tick ==
  /\ now < MaxTime
  /\ now' = now + 1
  /\ UNCHANGED <<dbUp, storageUp, users, issued, inFlight, total, req,
                 deletedAt>>

DeleteUser(u) ==
  /\ dbUp /\ u \in users
  /\ users' = users \ {u}
  /\ deletedAt' = [v \in Users \ users' |-> IF v = u THEN now ELSE deletedAt[v]]
  /\ UNCHANGED <<dbUp, storageUp, now, issued, inFlight, total, req>>

Step(q) ==
  AuthMiddleware(q) \/ Handle(q) \/ Leave(q) \/ Answer(q)

Next ==
  \/ \E q \in Requests : Enter(q) \/ Step(q)
  \/ \E u \in Users : DeleteUser(u)
  \/ Tick

Spec == Init /\ [][Next]_vars

(* The Go scheduler runs every goroutine that can run, and no step of a     *)
(* request waits for another.  Clients need not come, nor the clock run.    *)
FairSpec == Spec /\ \A q \in Requests : WF_vars(Step(q))

-----------------------------------------------------------------------------
Answered == {q \in Requests : req[q].pc = "answered"}
Inside == {q \in Requests : req[q].pc \notin {"idle", "answered"}}

(* The gauge counts the measured requests between their entry and their     *)
(* answer, also when a handler panicked ("so a panic further down cannot    *)
(* leave the gauge permanently elevated").                                  *)
InFlightExact == inFlight = Cardinality({q \in Inside : Measured(q)})

(* For every status, the counter is the number of measured requests that    *)
(* the client saw end with it, once those on their last step are answered:  *)
(* each is counted once, and under the status the error handler gave it     *)
(* afterwards.                                                              *)
CountedAsAnswered ==
  \A s \in Statuses :
    LET answered == {q \in Answered : Measured(q) /\ req[q].client = s}
        last == {q \in Requests : req[q].pc = "answer" /\ Measured(q)} IN
    /\ total[s] >= Cardinality(answered)
    /\ last = {} => total[s] = Cardinality(answered)

(* The log line and the span of a request say what the client saw.  Only a  *)
(* request that panicked has none, and on a server whose database and       *)
(* storage came up no request is without.                                   *)
LoggedAsAnswered ==
  \A q \in Answered :
    \/ req[q].log = req[q].client /\ req[q].span = req[q].client
    \/ req[q].log = NoStatus /\ req[q].client = 500 /\ ~(dbUp /\ storageUp)

(* The gauge, the counter, the log and the span tell what the clients saw.  *)
ViewsAgree == InFlightExact /\ CountedAsAnswered /\ LoggedAsAnswered

(* A session that never refreshed with an access token ends: its requests   *)
(* pass AuthMiddleware for at most the two lifetimes after the login, and   *)
(* after the deletion of the user.                                          *)
SessionBound ==
  \A q \in Requests :
    LET t == req[q].token
        life == RefreshLife + AccessLife IN
    req[q].kind = "me" /\ ~t.renewed =>
      /\ req[q].at < t.login + life
      /\ t.user \in DOMAIN deletedAt => req[q].at < deletedAt[t.user] + life

(* Every request that enters is answered, and the gauge drains to zero.     *)
RequestsAnswered ==
  /\ \A q \in Requests : q \in Inside ~> q \in Answered
  /\ <>[](inFlight = 0)

-----------------------------------------------------------------------------
(* The inductive strengthening the proofs use.                              *)

(* What the client sees of an outcome.                                      *)
Seen(o) == IF o.err = "none" THEN ResponseStatus(o) ELSE customErrorHandler(o)

(* The measured requests that have left with this status.                   *)
CountedUnder(s) ==
  {q \in Requests :
     Measured(q) /\ req[q].pc \in {"answer", "answered"} /\ Seen(req[q].out) = s}

TotalExact == \A s \in Statuses : total[s] = Cardinality(CountedUnder(s))

(* What a request has on record fits its outcome; only a part that did not   *)
(* come up makes a handler panic.                                           *)
RecordsFit ==
  \A q \in Requests :
    LET r == req[q] IN
    /\ r.out.err = "panic" => r.out.status = 500 /\ ~(dbUp /\ storageUp)
    /\ r.pc \in {"answer", "answered"} =>
         /\ r.log = IF r.out.err = "panic" THEN NoStatus ELSE Seen(r.out)
         /\ r.span = r.log
    /\ r.pc = "answered" => r.client = Seen(r.out)

(* How long a token is good, when no access token was refreshed on the way,  *)
(* and that its user was there at the login.                                *)
TokenBound(t) ==
  /\ ~t.renewed => t.exp <= t.login + RefreshLife
                            + (IF t.subject = "access" THEN AccessLife ELSE 0)
  /\ t.login <= now
  /\ t.user \in DOMAIN deletedAt => t.login <= deletedAt[t.user]

TokensBound ==
  /\ \A t \in issued : TokenBound(t)
  /\ \A q \in Requests :
       /\ req[q].token \in issued \cup {NoToken}
       /\ req[q].at <= now
       /\ req[q].pc \in {"idle", "auth"} => req[q].at = 0

ServerInv ==
  /\ TypeOK
  /\ InFlightExact /\ TotalExact /\ RecordsFit
  /\ TokensBound /\ SessionBound

=============================================================================
