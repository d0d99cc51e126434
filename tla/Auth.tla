-------------------------------- MODULE Auth --------------------------------
(***************************************************************************)
(* Authentication of requests: the routes of pkg/api/api.go and the        *)
(* middleware of pkg/api/auth.  The two counters are shared by the         *)
(* goroutines and read by whoever fetches /metrics, at any time, one after *)
(* the other and in any order.                                             *)
(*                                                                         *)
(* The signature check of a token is the jwt library's: a token verifies   *)
(* or it does not.                                                         *)
(***************************************************************************)
EXTENDS Naturals, FiniteSets

CONSTANTS
  Workers,      \* the goroutines that handle requests
  Users,        \* user names
  Passwords,
  Credentials,  \* the configured [user, password] records
  MaxRequests,  \* bound on the requests to the broker
  NoUser

ASSUME AuthAssumption ==
  /\ IsFiniteSet(Workers)
  /\ Credentials \subseteq [user : Users, password : Passwords]
  /\ NoUser \notin Users
  /\ MaxRequests \in Nat

\* What a request's Authorization header holds.  "short" is a header of less
\* than two fields.  For Basic, decodes says whether r.BasicAuth makes sense
\* of it; for Bearer, verified whether the token is valid and signed with one
\* of the keys, user being what it claims (NoUser: the claim is missing).
NoHeader == [scheme |-> "none"]
Header ==
  [scheme : {"none", "short", "Other"}]
    \cup [scheme : {"Basic"}, decodes : BOOLEAN, user : Users, password : Passwords]
    \cup [scheme : {"Bearer"}, verified : BOOLEAN, user : Users \cup {NoUser}]

Paths == {"/healthz", "/metrics", "/v2"}

VARIABLES
  task,         \* task[w]: the request of worker w, with its context
  total,        \* totalRequestCounter
  failed,       \* failedAuthenticationCounter
  resp          \* the response given by the last step, if it gave one

vars == <<task, total, failed, resp>>

\* method, user and token are values of the request's context.  A scrape has
\* the values it has read and the counter it read first.
Task ==
  [ pc : {"idle", "route", "auth", "check", "fail", "broker", "scrape", "read", "write"},
    path : Paths, header : Header,
    method : {"none", "Basic", "Bearer"}, user : Users \cup {NoUser}, token : BOOLEAN,
    claim : Users \cup {NoUser},
    first : {"none", "total", "failed"}, readTotal : 0..MaxRequests, readFailed : 0..MaxRequests ]
Idle == [ pc |-> "idle", path |-> "/v2", header |-> NoHeader,
          method |-> "none", user |-> NoUser, token |-> FALSE, claim |-> NoUser,
          first |-> "none", readTotal |-> 0, readFailed |-> 0 ]

NoResp == [code |-> "none", header |-> NoHeader, user |-> NoUser]

TypeOK ==
  /\ task \in [Workers -> Task]
  /\ total \in 0..MaxRequests
  /\ failed \in 0..MaxRequests
  /\ resp \in [code : {"none", "200", "400", "401", "served", "created", "no principal"}, header : Header,
               user : Users \cup {NoUser}]

Init ==
  /\ task = [w \in Workers |-> Idle]
  /\ total = 0
  /\ failed = 0
  /\ resp = NoResp
-----------------------------------------------------------------------------
Goto(w, pc) == task' = [task EXCEPT ![w].pc = pc] /\ resp' = NoResp
Reply(w, code, user) ==
  /\ task' = [task EXCEPT ![w] = Idle]
  /\ resp' = [code |-> code, header |-> task[w].header, user |-> user]
Answer(w, code) == Reply(w, code, NoUser)

\* A request arrives.
Uncounted == {w \in Workers : task[w].pc = "auth" \/ (task[w].pc = "route" /\ task[w].path = "/v2")}
Arrive(w, path, header) ==
  /\ task[w] = Idle
  /\ path = "/v2" => total + Cardinality(Uncounted) < MaxRequests
  /\ task' = [task EXCEPT ![w] = [Idle EXCEPT !.pc = "route", !.path = path, !.header = header]]
  /\ resp' = NoResp
  /\ UNCHANGED <<total, failed>>

\* New registers /healthz and /metrics outside the middleware.
Route(w) ==
  /\ task[w].pc = "route"
  /\ \/ task[w].path = "/healthz" /\ Answer(w, "200")
     \/ task[w].path = "/metrics" /\ Goto(w, "scrape")
     \/ task[w].path = "/v2" /\ Goto(w, "auth")
  /\ UNCHANGED <<total, failed>>

\* The handler of the Prometheus library reads the counters one by one, in
\* goroutines of its own, and writes what it has read.
ReadTotal(w) ==
  /\ \/ /\ task[w].pc = "scrape"
        /\ task' = [task EXCEPT ![w].pc = "read", ![w].first = "total", ![w].readTotal = total]
     \/ /\ task[w].pc = "read" /\ task[w].first = "failed"
        /\ task' = [task EXCEPT ![w].pc = "write", ![w].readTotal = total]
  /\ resp' = NoResp
  /\ UNCHANGED <<total, failed>>

ReadFailed(w) ==
  /\ \/ /\ task[w].pc = "scrape"
        /\ task' = [task EXCEPT ![w].pc = "read", ![w].first = "failed", ![w].readFailed = failed]
     \/ /\ task[w].pc = "read" /\ task[w].first = "total"
        /\ task' = [task EXCEPT ![w].pc = "write", ![w].readFailed = failed]
  /\ resp' = NoResp
  /\ UNCHANGED <<total, failed>>

WriteMetrics(w) ==
  /\ task[w].pc = "write"
  /\ Answer(w, "200")
  /\ UNCHANGED <<total, failed>>

\* badRequest, which counts no failure.
BadRequest(w) == Answer(w, "400") /\ UNCHANGED failed

\* Faulty variants: without the default case, and with a count only of the
\* requests whose header is there.
HandlerAnyScheme(w) ==
  LET scheme == task[w].header.scheme
  IN /\ task[w].pc = "auth"
     /\ total' = total + 1
     /\ \/ scheme = "none" /\ Goto(w, "fail")
        \/ scheme = "short" /\ Answer(w, "400")
        \/ /\ scheme \notin {"none", "short"}
           /\ task' = [task EXCEPT ![w].pc = "check", ![w].method = scheme]
           /\ resp' = NoResp
     /\ UNCHANGED failed
HandlerCountsLate(w) ==
  LET scheme == task[w].header.scheme
  IN /\ task[w].pc = "auth"
     /\ total' = IF scheme = "none" THEN total ELSE total + 1
     /\ \/ scheme = "none" /\ Goto(w, "fail") /\ UNCHANGED failed
        \/ scheme \in {"short", "Other"} /\ BadRequest(w)
        \/ /\ scheme \in {"Basic", "Bearer"}
           /\ task' = [task EXCEPT ![w].pc = "check", ![w].method = scheme]
           /\ resp' = NoResp
           /\ UNCHANGED failed

\* Handler counts the request, looks at the header and puts the method into
\* the context.
Handler(w) ==
  LET scheme == task[w].header.scheme
  IN /\ task[w].pc = "auth"
     /\ total' = total + 1
     /\ \/ scheme = "none" /\ Goto(w, "fail") /\ UNCHANGED failed
        \/ scheme \in {"short", "Other"} /\ BadRequest(w)
        \/ /\ scheme \in {"Basic", "Bearer"}
           /\ task' = [task EXCEPT ![w].pc = "check", ![w].method = scheme]
           /\ resp' = NoResp
           /\ UNCHANGED failed

\* Faulty variant: user and password may belong to different credentials.
authorizedByParts(h) ==
  /\ h.decodes
  /\ \E c \in Credentials : c.user = h.user
  /\ \E c \in Credentials : c.password = h.password

authorized(h) ==
  /\ h.decodes
  /\ \E c \in Credentials : c.user = h.user /\ c.password = h.password

\* Basic.Handler: the user name goes into the context.
BasicHandler(w) ==
  LET h == task[w].header
  IN /\ task[w].pc = "check" /\ task[w].method = "Basic"
     /\ IF authorized(h)
          THEN task' = [task EXCEPT ![w].pc = "broker", ![w].user = h.user]
          ELSE task' = [task EXCEPT ![w].pc = "fail"]
     /\ resp' = NoResp
     /\ UNCHANGED <<total, failed>>

\* The jwt library's handler: the claims go into the context, or it answers
\* with 401 by itself, which failed does not count.
BearerHandler(w) ==
  LET h == task[w].header
  IN /\ task[w].pc = "check" /\ task[w].method = "Bearer"
     /\ \/ /\ h.verified
           /\ task' = [task EXCEPT ![w].pc = "broker", ![w].token = TRUE, ![w].claim = h.user]
           /\ resp' = NoResp
        \/ ~h.verified /\ Answer(w, "401")
     /\ UNCHANGED <<total, failed>>

\* unauthorized, and the same code in Basic.Handler: counted and answered.
Unauthorized(w) ==
  /\ task[w].pc = "fail"
  /\ failed' = failed + 1
  /\ Answer(w, "401")
  /\ UNCHANGED total

\* The user name in the context's claims or of its Basic authentication.
getPrincipalFromBearerToken(t) == IF t.token THEN t.claim ELSE NoUser
getPrincipalFromBasicAuth(t) == t.user

\* PrincipalFromContext; NoUser stands for its errors.
PrincipalFromContext(t) ==
  CASE t.method = "Basic" -> getPrincipalFromBasicAuth(t)
    [] t.method = "Bearer" -> getPrincipalFromBearerToken(t)
    [] OTHER -> NoUser

\* The broker handles the request.  Only the creation of an instance asks for
\* the principal, and fails without one.
Broker(w) ==
  LET p == PrincipalFromContext(task[w])
  IN /\ task[w].pc = "broker"
     /\ \/ Answer(w, "served")
        \/ p = NoUser /\ Answer(w, "no principal")
        \/ p # NoUser /\ Reply(w, "created", p)
     /\ UNCHANGED <<total, failed>>

Next ==
  \E w \in Workers :
    \/ \E path \in Paths, header \in Header : Arrive(w, path, header)
    \/ ReadTotal(w) \/ ReadFailed(w) \/ WriteMetrics(w)
    \/ Route(w) \/ Handler(w) \/ BasicHandler(w) \/ BearerHandler(w) \/ Unauthorized(w) \/ Broker(w)

Spec == Init /\ [][Next]_vars
-----------------------------------------------------------------------------
(***************************************************************************)
(* Properties.                                                             *)
(***************************************************************************)

\* A request is served only if it is authenticated, with a user name and a
\* password configured together or with a verified token, and an instance is
\* created in the name of who authenticated.  That name is read from the
\* context at the end of Provision, by the method stored there at its start.
ServedForAuthenticated ==
  LET h == resp.header
  IN resp.code \in {"served", "created"} =>
       /\ \/ /\ h.scheme = "Basic" /\ h.decodes
             /\ [user |-> h.user, password |-> h.password] \in Credentials
          \/ h.scheme = "Bearer" /\ h.verified
       /\ resp.code = "created" => resp.user = h.user

\* What a scrape shows: the failures it has read belong to requests counted by
\* the time it is done with reading, so that they exceed the total it has read
\* at most by the requests counted between its two reads, and not at all if it
\* read the failures first.
ScrapeWithinTotal ==
  [][\A w \in Workers :
       LET t == task'[w]
       IN (task[w].pc = "read" /\ t.pc = "write") =>
            /\ t.readFailed <= total
            /\ t.first = "failed" => t.readFailed <= t.readTotal]_vars
=============================================================================
