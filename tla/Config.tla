------------------------------- MODULE Config -------------------------------
(***************************************************************************)
(* The configuration: ReadConfig of pkg/config/config.go as a function of  *)
(* the environment.  A variable's text is abstracted to what its parser    *)
(* tells apart: "" is an unset variable, "malformed" a text the parser     *)
(* refuses.                                                                *)
(***************************************************************************)
EXTENDS Sequences

Text   == {"", "text"}
Parsed == {"", "text", "malformed"}
URLs   == {"", "malformed", "https", "file", "http", "other"}

Environment ==
  [ Username : Text, Password : Text, UsernameClaim : Text, Namespace : Text,
    HTTPListenAddr : Text, MetricsDomain : Text,
    \* OSB_SERVICE_IDS, split at its commas
    ServiceIDs : Seq({"", "blank", "id", "padded id"}),
    HTTPReadTimeout : Parsed, HTTPWriteTimeout : Parsed, HTTPMaxHeaderBytes : Parsed,
    JWTKeyJWKURL : URLs, JWTKeyPEMURL : URLs,
    PlanUpdateSLA : Parsed, PlanUpdateSize : Parsed,
    EnableMetrics : {"", "true", "false", "malformed"} ]

\* Every item is trimmed and empty ones are dropped.
TrimSpace(s) == CASE s = "blank" -> "" [] s = "padded id" -> "id" [] OTHER -> s
getServiceIDs(env) ==
  SelectSeq([i \in DOMAIN env.ServiceIDs |-> TrimSpace(env.ServiceIDs[i])], LAMBDA s : s # "")

\* The text of a variable, or its default.
OrDefault(text) == IF text = "" THEN "default" ELSE text

getTimeout(text) == OrDefault(text)
getHTTPMaxHeaderBytes(env) == OrDefault(env.HTTPMaxHeaderBytes)

\* loadContentFromPath: only these schemes are fetched.  What is fetched is
\* not a function of the environment: "keys", "no keys" (a body or file that
\* does not parse, whatever the HTTP status) or "unreachable".
Contents == {"keys", "no keys", "unreachable"}
Fetches(url) == url \in {"https", "file"}
loadKeysFromPath(url, content) == url = "" \/ (Fetches(url) /\ content = "keys")

\* What ReadConfig looks at before it loads the keys.
BeforeKeys(env) ==
  /\ getServiceIDs(env) # << >>
  /\ getTimeout(env.HTTPReadTimeout) # "malformed"
  /\ getTimeout(env.HTTPWriteTimeout) # "malformed"
  /\ getHTTPMaxHeaderBytes(env) # "malformed"

\* loadJWTSigningKeys asks a key server; the JWK keys are loaded first.
AsksKeyServer(env) ==
  /\ BeforeKeys(env)
  /\ \/ env.JWTKeyJWKURL = "https"
     \/ env.JWTKeyPEMURL = "https" /\ env.JWTKeyJWKURL \in {"", "file"}

\* The metrics setting is not parsed yet when this is called, so its test of
\* the metrics domain never applies.
ensureRequiredSettings(env) == env.Username # "" /\ env.Password # "" /\ env.Namespace # ""

getEnableMetrics(env) == env.EnableMetrics = "true"

\* Faulty variant: the domain is not insisted on.
MetricsDomainAsIs(env) == TRUE
getMetricsDomain(env) == getEnableMetrics(env) => env.MetricsDomain # ""

\* ReadConfig succeeds: every check of the function holds.
ReadConfig(env, jwk, pem) ==
  /\ BeforeKeys(env)
  /\ loadKeysFromPath(env.JWTKeyJWKURL, jwk)
  /\ loadKeysFromPath(env.JWTKeyPEMURL, pem)
  /\ ensureRequiredSettings(env)
  /\ env.EnableMetrics # "malformed"
  /\ getMetricsDomain(env)

\* The Config it then returns, as far as it is used afterwards.
Configured(env) ==
  [ ServiceIDs |-> getServiceIDs(env),
    Username |-> env.Username, Password |-> env.Password, Namespace |-> env.Namespace,
    UsernameClaim |-> OrDefault(env.UsernameClaim),
    ListenAddr |-> OrDefault(env.HTTPListenAddr),
    ReadTimeout |-> getTimeout(env.HTTPReadTimeout), WriteTimeout |-> getTimeout(env.HTTPWriteTimeout),
    MaxHeaderBytes |-> getHTTPMaxHeaderBytes(env),
    PlanUpdateSLARule |-> OrDefault(env.PlanUpdateSLA),
    PlanUpdateSizeRule |-> env.PlanUpdateSize,
    EnableMetrics |-> getEnableMetrics(env),
    MetricsDomain |-> IF getEnableMetrics(env) THEN env.MetricsDomain ELSE "" ]

\* ParsePlanUpdateRules of the two rule strings; an empty one has no rules.
ParsePlanUpdateRules(cfg) ==
  cfg.PlanUpdateSizeRule # "malformed" /\ cfg.PlanUpdateSLARule # "malformed"
=============================================================================
