------------------------------ MODULE MCServer ------------------------------
(* Environments: a complete one and those that differ from it in up to two *)
(* variables.                                                              *)
EXTENDS Server

Complete ==
  [ Username |-> "text", Password |-> "text", UsernameClaim |-> "", Namespace |-> "text",
    HTTPListenAddr |-> "", MetricsDomain |-> "", ServiceIDs |-> <<"id", "padded id", "">>,
    HTTPReadTimeout |-> "", HTTPWriteTimeout |-> "text", HTTPMaxHeaderBytes |-> "text",
    JWTKeyJWKURL |-> "https", JWTKeyPEMURL |-> "", PlanUpdateSLA |-> "", PlanUpdateSize |-> "text",
    EnableMetrics |-> "" ]

Variants ==
  LET E == Complete
  IN {E, [E EXCEPT !.Username = ""], [E EXCEPT !.Password = ""], [E EXCEPT !.Namespace = ""],
      [E EXCEPT !.ServiceIDs = <<"", "blank">>], [E EXCEPT !.HTTPReadTimeout = "malformed"],
      [E EXCEPT !.HTTPWriteTimeout = "malformed"], [E EXCEPT !.HTTPMaxHeaderBytes = "malformed"],
      [E EXCEPT !.JWTKeyJWKURL = "http"], [E EXCEPT !.JWTKeyJWKURL = "malformed"],
      [E EXCEPT !.JWTKeyPEMURL = "file"],
      [E EXCEPT !.PlanUpdateSLA = "malformed"], [E EXCEPT !.PlanUpdateSize = "malformed"],
      [E EXCEPT !.EnableMetrics = "malformed"], [E EXCEPT !.EnableMetrics = "true"],
      [E EXCEPT !.EnableMetrics = "true", !.MetricsDomain = "text"],
      [E EXCEPT !.EnableMetrics = "false", !.MetricsDomain = "text"]}
=============================================================================
