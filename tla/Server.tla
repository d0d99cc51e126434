------------------------------- MODULE Server -------------------------------
(***************************************************************************)
(* The process: main and run of cmd/crossplane-service-broker/main.go.     *)
(*                                                                         *)
(* The main goroutine configures the broker, starts a goroutine that       *)
(* serves HTTP, and waits on signalChan, a channel of capacity one.  Two   *)
(* parties write to it: the Go runtime, which drops a signal when the      *)
(* channel is full, and the serving goroutine, whose send blocks.  The     *)
(* HTTP server (ListenAndServe, Shutdown) is net/http's.                   *)
(***************************************************************************)
EXTENDS Config, Naturals

CONSTANTS
  Environments, \* the environments the process is started in
  Requests      \* HTTP requests

ASSUME ServerAssumption == Environments \subseteq Environment

VARIABLES
  env,          \* the environment
  main,         \* where the main goroutine is
  serving,      \* where the goroutine of srv.ListenAndServe is
  inShutdown,   \* Shutdown was called on the server
  signalChan,   \* the contents of the channel
  grace,        \* the timer of graceCtx
  active,       \* requests that are being handled
  exit,         \* the exit code, once the process has ended
  signalled     \* history: a signal has reached the channel

vars == <<env, main, serving, inShutdown, signalChan, grace, active, exit, signalled>>

Signals == {"SIGINT", "SIGTERM"}

TypeOK ==
  /\ env \in Environments
  /\ main \in {"config", "kubeconfig", "client", "rules", "wait", "shutdown", "drain", "exited"}
  /\ serving \in {"none", "starting", "accepting", "error", "returned"}
  /\ inShutdown \in BOOLEAN
  /\ signalChan \in {<< >>} \cup {<<s>> : s \in Signals \cup {"SIGABRT"}}
  /\ grace \in {"unset", "running", "expired"}
  /\ active \subseteq Requests
  /\ exit \in {"none", "0", "exitCodeErr"}
  /\ signalled \in BOOLEAN

Init ==
  /\ env \in Environments
  /\ main = "config"
  /\ serving = "none"
  /\ inShutdown = FALSE
  /\ signalChan = << >>
  /\ grace = "unset"
  /\ active = {}
  /\ exit = "none"
  /\ signalled = FALSE
-----------------------------------------------------------------------------
\* run returns, and main ends the process with everything in it.
Return(code) ==
  /\ main' = "exited"
  /\ exit' = code
  /\ UNCHANGED <<env, serving, inShutdown, signalChan, grace, active, signalled>>

\* run goes on at pc.
Proceed(pc) == main' = pc /\ UNCHANGED <<env, signalChan, active, exit, signalled>>

\* ReadConfig, which may fetch keys over the network.
ReadConfigStep(jwk, pem) ==
  /\ main = "config"
  /\ \/ ~ReadConfig(env, jwk, pem) /\ Return("exitCodeErr")
     \/ /\ ReadConfig(env, jwk, pem)
        /\ Proceed("kubeconfig")
        /\ UNCHANGED <<serving, inShutdown, grace>>

\* While ReadConfig fetches keys from a key server, nothing bounds the time.
FetchesKeys == main = "config" /\ AsksKeyServer(env)

\* BuildConfigFromFlags reads the kubeconfig, if there is a good one.
BuildConfigFromFlags ==
  /\ main = "kubeconfig"
  /\ \/ Return("exitCodeErr")
     \/ Proceed("client") /\ UNCHANGED <<serving, inShutdown, grace>>

\* crossplane.New registers the types and asks the API server for its own.
New ==
  /\ main = "client"
  /\ \/ Return("exitCodeErr")
     \/ Proceed("rules") /\ UNCHANGED <<serving, inShutdown, grace>>

\* The update rules are parsed, and the serving goroutine is started.
Start ==
  /\ main = "rules"
  /\ \/ ~ParsePlanUpdateRules(Configured(env)) /\ Return("exitCodeErr")
     \/ /\ ParsePlanUpdateRules(Configured(env))
        /\ serving' = "starting"
        /\ Proceed("wait")
        /\ UNCHANGED <<inShutdown, grace>>

\* Faulty variant: whatever is received is a signal.
ReceiveAnything ==
  /\ main = "wait"
  /\ signalChan # << >>
  /\ signalChan' = << >>
  /\ main' = "shutdown"
  /\ UNCHANGED <<env, serving, inShutdown, grace, active, exit, signalled>>

\* The main goroutine receives from the channel.
Receive ==
  /\ main = "wait"
  /\ signalChan # << >>
  /\ signalChan' = << >>
  /\ IF Head(signalChan) = "SIGABRT"
       THEN main' = "exited" /\ exit' = "exitCodeErr"
       ELSE main' = "shutdown" /\ exit' = exit
  /\ UNCHANGED <<env, serving, inShutdown, grace, active, signalled>>

\* Faulty variant: Shutdown without a deadline.
ShutdownForever ==
  /\ main = "shutdown"
  /\ inShutdown' = TRUE
  /\ Proceed("drain")
  /\ UNCHANGED <<serving, grace>>

\* srv.Shutdown with graceCtx closes the listener ...
Shutdown ==
  /\ main = "shutdown"
  /\ grace' = "running"
  /\ inShutdown' = TRUE
  /\ Proceed("drain")
  /\ UNCHANGED serving

\* ... and returns when the listener it knows of, if there is one yet, is
\* closed and no connection is active, or with the error of the context.
Drain ==
  /\ main = "drain"
  /\ \/ serving # "accepting" /\ active = {} /\ Return("0")
     \/ grace = "expired" /\ Return("exitCodeErr")

GraceExpires ==
  /\ grace = "running"
  /\ main # "exited"
  /\ grace' = "expired"
  /\ UNCHANGED <<env, main, serving, inShutdown, signalChan, active, exit, signalled>>
-----------------------------------------------------------------------------
\* The serving goroutine goes on at pc.
Goroutine(pc) ==
  /\ main # "exited"
  /\ serving' = pc
  /\ UNCHANGED <<env, main, inShutdown, grace, exit>>

\* ListenAndServe opens its listener, fails to, or is too late.
Listen ==
  /\ serving = "starting"
  /\ \/ inShutdown /\ Goroutine("returned")
     \/ ~inShutdown /\ \E pc \in {"accepting", "error"} : Goroutine(pc)
  /\ UNCHANGED <<signalChan, active, signalled>>

\* Accept fails: with ErrServerClosed if the server was shut down.
AcceptFails ==
  /\ serving = "accepting"
  /\ Goroutine(IF inShutdown THEN "returned" ELSE "error")
  /\ UNCHANGED <<signalChan, active, signalled>>

\* Faulty variant: the main goroutine is not told.
LogOnly ==
  /\ serving = "error"
  /\ Goroutine("returned")
  /\ UNCHANGED <<signalChan, active, signalled>>

\* The error is passed on to the main goroutine, once there is room.
SendAbort ==
  /\ serving = "error"
  /\ signalChan = << >>
  /\ signalChan' = <<"SIGABRT">>
  /\ Goroutine("returned")
  /\ UNCHANGED <<active, signalled>>

\* A connection is accepted and its request handled; the handler is done.
Accept(r) ==
  /\ serving = "accepting" /\ r \notin active
  /\ Goroutine("accepting")
  /\ active' = active \cup {r}
  /\ UNCHANGED <<signalChan, signalled>>

Done(r) ==
  /\ main # "exited" /\ r \in active
  /\ active' = active \ {r}
  /\ UNCHANGED <<env, main, serving, inShutdown, signalChan, grace, exit, signalled>>

\* Faulty variant: signals queue up.
NotifyQueued(s) ==
  /\ main # "exited"
  /\ signalChan' = Append(signalChan, s)
  /\ signalled' = TRUE
  /\ UNCHANGED <<env, main, serving, inShutdown, grace, active, exit>>

\* The runtime relays a signal, or drops it when the channel is full.
Notify(s) ==
  /\ main # "exited"
  /\ signalChan' = IF signalChan = << >> THEN <<s>> ELSE signalChan
  /\ signalled' = (signalled \/ signalChan = << >>)
  /\ UNCHANGED <<env, main, serving, inShutdown, grace, active, exit>>

MainStep ==
  \/ \E jwk, pem \in Contents : ReadConfigStep(jwk, pem)
  \/ BuildConfigFromFlags \/ New \/ Start \/ Receive \/ Shutdown \/ Drain
ServingStep == Listen \/ SendAbort \/ (inShutdown /\ AcceptFails)

Next ==
  \/ MainStep
  \/ GraceExpires
  \/ Listen \/ AcceptFails \/ SendAbort
  \/ \E r \in Requests : Accept(r) \/ Done(r)
  \/ \E s \in Signals : Notify(s)

Spec == Init /\ [][Next]_vars

\* Goroutines are scheduled, the timer fires and a closed listener makes Accept
\* return.  A key server is not assumed to answer, nor a handler to finish:
\* the code bounds neither.  The Kubernetes client bounds its own requests.
FairSpec ==
  /\ Spec
  /\ WF_vars(~FetchesKeys /\ MainStep)
  /\ WF_vars(ServingStep)
  /\ WF_vars(GraceExpires)
-----------------------------------------------------------------------------
(***************************************************************************)
(* Properties.                                                             *)
(***************************************************************************)

\* The exit code tells how the process ended, wherever a signal and a failure of
\* the listener meet on the channel.  Code 0: a signal told it to, and it had
\* answered every request it accepted; a failure of the listener alone is never
\* taken for a signal.  The error code: it never served, or its listener failed
\* before any Shutdown, or a signal told it to and the grace period is over.
ExitTellsWhy ==
  /\ exit = "0" => signalled /\ active = {}
  /\ exit = "exitCodeErr" =>
       \/ serving = "none" /\ active = {}
       \/ serving = "returned" /\ ~inShutdown
       \/ signalled /\ grace = "expired"

\* Requests are served only with credentials, a namespace and services
\* configured, with timeouts, a header limit, a metrics setting and rules that
\* parse, with keys only from a file or over https, and with metrics only if
\* there is a domain for them.
ServesConfiguredOnly ==
  serving = "accepting" =>
    LET cfg == Configured(env)
    IN /\ "" \notin {cfg.Username, cfg.Password, cfg.Namespace} /\ cfg.ServiceIDs # << >>
       /\ cfg.PlanUpdateSLARule \in {"text", "default"} /\ cfg.PlanUpdateSizeRule # "malformed"
       /\ "malformed" \notin {cfg.ReadTimeout, cfg.WriteTimeout, cfg.MaxHeaderBytes, env.EnableMetrics}
       /\ {env.JWTKeyJWKURL, env.JWTKeyPEMURL} \subseteq {"", "https", "file"}
       /\ cfg.EnableMetrics => cfg.MetricsDomain # ""

\* A signal ends the process however long a handler takes, also one that came
\* while ReadConfig was fetching keys, once that is over: it is not lost before
\* the main goroutine waits for it, and the grace period bounds what follows.
\* Until then it does not: signals are redirected and nobody receives them.
SignalStops == (signalled /\ ~FetchesKeys) ~> exit # "none"

\* A server that cannot listen or accept ends the process: its goroutine is
\* never stuck on the full channel for good.
FailureStops == (serving = "error") ~> exit # "none"
=============================================================================
