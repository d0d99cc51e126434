---------------------------- MODULE ServerProofs ----------------------------
(***************************************************************************)
(* Proofs about module Server, for any environments and requests.          *)
(*                                                                         *)
(* Inv follows the process through its start: each stage knows which       *)
(* checks of the configuration lie behind it, and the serving goroutine    *)
(* knows all of them.  And it follows what the main goroutine is told:     *)
(* what is in the channel says what has happened, until Shutdown is called *)
(* no goroutine knows of it, and only a signal leads there.                *)
(***************************************************************************)
EXTENDS Server, TLAPS

\* ReadConfig has succeeded.
ConfigRead == \E jwk, pem \in Contents : ReadConfig(env, jwk, pem)
RulesParsed == ParsePlanUpdateRules(Configured(env))

Inv ==
  /\ TypeOK
  /\ main = "exited" <=> exit # "none"
  /\ main \in {"config", "kubeconfig", "client", "rules"} => serving = "none"
  /\ serving = "none" => active = {}
  /\ main \in {"config", "kubeconfig", "client", "rules", "wait", "shutdown"} => ~inShutdown
  /\ signalChan = <<"SIGABRT">> => serving = "returned"
  /\ \A s \in Signals : signalChan = <<s>> => signalled
  /\ main \in {"shutdown", "drain"} => signalled
  /\ ExitTellsWhy
  /\ main \notin {"config", "exited"} => ConfigRead
  /\ main \in {"wait", "shutdown", "drain"} => RulesParsed
  /\ serving # "none" => ConfigRead /\ RulesParsed
-----------------------------------------------------------------------------
LEMMA OneElement == \A a, b : << >> # <<a>> /\ (<<a>> = <<b>> => a = b)
  OBVIOUS

LEMMA InitInv == Init => Inv
  BY OneElement DEF Init, Inv, TypeOK, ExitTellsWhy, Signals

\* The channel holds at most one signal.
LEMMA HeadOfChannel ==
  ASSUME TypeOK, signalChan # << >>
  PROVE  Head(signalChan) \in Signals \cup {"SIGABRT"}
  BY DEF TypeOK

\* A step of the main goroutine.
LEMMA MainInv ==
  ASSUME Inv, MainStep
  PROVE  Inv'
  <1> USE DEF ConfigRead, RulesParsed
  <1>1. ASSUME NEW code \in {"0", "exitCodeErr"}, Return(code),
               code = "0" => signalled /\ active = {},
               code = "exitCodeErr" => (serving = "none" /\ active = {}) \/ (signalled /\ grace = "expired")
        PROVE  Inv'
    BY <1>1 DEF Return, Inv, TypeOK, ExitTellsWhy
  <1>2. ASSUME NEW jwk \in Contents, NEW pem \in Contents, ReadConfigStep(jwk, pem)
        PROVE  Inv'
    <2>1. CASE Return("exitCodeErr")
      BY <1>1, <1>2, <2>1 DEF ReadConfigStep, Inv
    <2>2. CASE /\ ReadConfig(env, jwk, pem) /\ Proceed("kubeconfig")
               /\ UNCHANGED <<serving, inShutdown, grace>> /\ main = "config"
      BY <2>2 DEF Proceed, Inv, TypeOK, ExitTellsWhy
    <2> QED
      BY <1>2, <2>1, <2>2 DEF ReadConfigStep
  <1>3. CASE BuildConfigFromFlags
    BY <1>1, <1>3 DEF BuildConfigFromFlags, Proceed, Inv, TypeOK, ExitTellsWhy
  <1>4. CASE New
    BY <1>1, <1>4 DEF New, Proceed, Inv, TypeOK, ExitTellsWhy
  <1>5. CASE Start
    BY <1>1, <1>5 DEF Start, Proceed, Inv, TypeOK, ExitTellsWhy
  <1>6. CASE Receive
    BY <1>6 DEF Receive, Inv, TypeOK, ExitTellsWhy, Signals
  <1>7. CASE Shutdown
    BY <1>7 DEF Shutdown, Proceed, Inv, TypeOK, ExitTellsWhy
  <1>8. CASE Drain
    BY <1>1, <1>8 DEF Drain, Inv
  <1> QED
    BY <1>2, <1>3, <1>4, <1>5, <1>6, <1>7, <1>8 DEF MainStep

\* A step of another goroutine, of the timer or of the runtime: none of them
\* does anything once the process has ended, ...
LEMMA OthersInv ==
  ASSUME Inv,
         \/ GraceExpires \/ Listen \/ AcceptFails \/ SendAbort
         \/ \E r \in Requests : Accept(r) \/ Done(r)
         \/ \E s \in Signals : Notify(s)
  PROVE  Inv'
  <1> USE DEF ConfigRead, RulesParsed
  <1>1. CASE GraceExpires
    BY <1>1 DEF GraceExpires, Inv, TypeOK, ExitTellsWhy
  <1>2. CASE Listen
    BY <1>2 DEF Listen, Goroutine, Inv, TypeOK, ExitTellsWhy
  <1>3. CASE AcceptFails
    BY <1>3 DEF AcceptFails, Goroutine, Inv, TypeOK, ExitTellsWhy
  <1>4. CASE SendAbort
    <2>1. \A s \in Signals : signalChan' # <<s>>
      BY <1>4, OneElement DEF SendAbort, Signals
    <2> QED
      BY <1>4, <2>1 DEF SendAbort, Goroutine, Inv, TypeOK, ExitTellsWhy
  <1>5. ASSUME NEW r \in Requests, Accept(r) \/ Done(r) PROVE Inv'
    BY <1>5 DEF Accept, Done, Goroutine, Inv, TypeOK, ExitTellsWhy
  <1>6. ASSUME NEW s \in Signals, Notify(s) PROVE Inv'
    BY <1>6 DEF Notify, Inv, TypeOK, ExitTellsWhy, Signals
  <1> QED
    BY <1>1, <1>2, <1>3, <1>4, <1>5, <1>6

LEMMA NextInv == Inv /\ [Next]_vars => Inv'
  <1>1. ASSUME Inv, UNCHANGED vars PROVE Inv'
    BY <1>1 DEF vars, Inv, TypeOK, ExitTellsWhy, ConfigRead, RulesParsed
  <1> QED
    BY <1>1, MainInv, OthersInv DEF Next

\* ... so the process ends as it was left.
THEOREM InvHolds == Spec => []Inv
  BY InitInv, NextInv, PTL DEF Spec

\* Every goroutine is at one of its stages, and the channel never holds more
\* than its capacity.
THEOREM TypeCorrect == Spec => []TypeOK
  <1>1. Inv => TypeOK
    BY DEF Inv
  <1> QED
    BY <1>1, InvHolds, PTL

\* Code 0 is for a signal and leaves no accepted request unanswered, and the
\* error code is for a failure or an expired grace period.
THEOREM ExitsTellWhy == Spec => []ExitTellsWhy
  <1>1. Inv => ExitTellsWhy
    BY DEF Inv
  <1> QED
    BY <1>1, InvHolds, PTL

\* What the checks of ReadConfig and of the rules say of the configuration
\* that is served.
LEMMA CheckedConfig ==
  ASSUME env \in Environment, ConfigRead, RulesParsed
  PROVE  LET cfg == Configured(env)
         IN /\ "" \notin {cfg.Username, cfg.Password, cfg.Namespace} /\ cfg.ServiceIDs # << >>
            /\ cfg.PlanUpdateSLARule \in {"text", "default"} /\ cfg.PlanUpdateSizeRule # "malformed"
            /\ "malformed" \notin {cfg.ReadTimeout, cfg.WriteTimeout, cfg.MaxHeaderBytes, env.EnableMetrics}
            /\ {env.JWTKeyJWKURL, env.JWTKeyPEMURL} \subseteq {"", "https", "file"}
            /\ cfg.EnableMetrics => cfg.MetricsDomain # ""
  <1>1. getServiceIDs(env) # << >>
    BY DEF ConfigRead, ReadConfig, BeforeKeys
  <1>2. env.Username # "" /\ env.Password # "" /\ env.Namespace # ""
    BY DEF ConfigRead, ReadConfig, ensureRequiredSettings
  <1>3. getEnableMetrics(env) => env.MetricsDomain # ""
    BY DEF ConfigRead, ReadConfig, getMetricsDomain
  <1>4. OrDefault(env.PlanUpdateSLA) # "malformed" /\ env.PlanUpdateSize # "malformed"
    BY DEF RulesParsed, ParsePlanUpdateRules, Configured
  <1>5. env.PlanUpdateSLA \in Parsed
    BY DEF Environment
  <1>6. /\ "malformed" \notin {getTimeout(env.HTTPReadTimeout), getTimeout(env.HTTPWriteTimeout)}
        /\ getHTTPMaxHeaderBytes(env) # "malformed" /\ env.EnableMetrics # "malformed"
    BY DEF ConfigRead, ReadConfig, BeforeKeys
  <1>7. {env.JWTKeyJWKURL, env.JWTKeyPEMURL} \subseteq {"", "https", "file"}
    BY DEF ConfigRead, ReadConfig, loadKeysFromPath, Fetches
  <1> QED
    BY <1>1, <1>2, <1>3, <1>4, <1>5, <1>6, <1>7 DEF Configured, OrDefault, Parsed

\* Requests are only ever served with a configuration that has what is required
\* and no text that does not parse.
THEOREM OnlyConfiguredServes == Spec => []ServesConfiguredOnly
  <1>1. Inv => ServesConfiguredOnly
    BY CheckedConfig, ServerAssumption DEF Inv, TypeOK, ServesConfiguredOnly
  <1> QED
    BY <1>1, InvHolds, PTL
=============================================================================
