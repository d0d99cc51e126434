--------------------------- MODULE MCInstancePlans ---------------------------
(***************************************************************************)
(* Instances with one Redis service of four plans (two sizes, two SLAs)    *)
(* and one instance ID: concurrent updates, searches and deletions.        *)
(***************************************************************************)
EXTENDS InstancesRegistry, TLC

CONSTANTS i1, alice, w1, w2

PL == INSTANCE PlanLabels

RedisPlan(size, sla) ==
  [ ServiceID |-> "redis", ServiceName |-> RedisService, Kind |-> "CompositeRedisInstance",
    PlanName |-> <<size, "-", sla>>, PlanSize |-> <<size>>, SLA |-> <<sla>> ]

\* The labels of one more Composition, outside the configured services, name a
\* service the broker does not know.
MCLabels ==
  [ smallStd  |-> RedisPlan("small", "standard"),
    smallPrem |-> RedisPlan("small", "premium"),
    largeStd  |-> RedisPlan("large", "standard"),
    largePrem |-> RedisPlan("large", "premium"),
    broken    |-> [RedisPlan("tiny", "standard") EXCEPT
                     !.ServiceID = "other", !.ServiceName = "other-k8s"] ]

\* The labels are what parseLabels makes of the Compositions' labels.
ASSUME LabelsAreParsed == \A p \in DOMAIN MCLabels : MCLabels[p] = PL!parseLabels(MCLabels[p])

MCPlans    == DOMAIN MCLabels
MCPlanList == <<"largePrem", "largeStd", "smallPrem", "smallStd">>
MCNameRank == [largePrem |-> 1, largeStd |-> 2, smallPrem |-> 3, smallStd |-> 4, broken |-> 5]

MCSizeRules == {<< <<"small">>, <<"large">> >>}
MCSLARules  == {<< <<"standard">>, <<"premium">> >>, << <<"premium">>, <<"standard">> >>}

\* The catalogue is one the theorems about plans speak of, and not one in which
\* updates go forward only: the run find_misses is about that.
ASSUME CatalogFits == UniquePlanNames /\ OneNamePerService /\ ~UpdatesGoForward

\* They are what parsePlanUpdateRules makes of "small>large" and of the
\* default SLA rules.
ASSUME RulesAreParsed ==
  /\ MCSizeRules = PL!parsePlanUpdateRules(<<"small", ">", "large">>)
  /\ MCSLARules = PL!parsePlanUpdateRules(
                    <<"standard", ">", "premium", "|", "premium", ">", "standard">>)
  /\ PL!parsePlanUpdateRules(<<"small", ">", "large", "|">>) = "malformed"

\* A rule string parses if and only if it is made of rules, "old>new" joined
\* by "|", and then it parses to these: for all strings of up to four lexemes.
Strings(lexemes, n) == UNION {[1..k -> lexemes] : k \in 0..n}
Sides == Strings({"x", "y"}, 1) \cup Strings({"x"}, 3)
Rules == Sides \X Sides
Written(r) == r[1] \o <<">">> \o r[2]
RuleStrings ==
  {[text |-> Written(r), rules |-> {r}] : r \in Rules}
    \cup {[text |-> Written(q) \o <<"|">> \o Written(r), rules |-> {q, r}] : q, r \in Rules}
ASSUME RulesRoundTrip == \A t \in RuleStrings : PL!parsePlanUpdateRules(t.text) = t.rules
ASSUME NothingElseParses ==
  \A s \in Strings({"x", ">", "|"}, 4) \ ({t.text : t \in RuleStrings} \cup {<< >>}) :
    PL!parsePlanUpdateRules(s) = "malformed"

\* The size of a plan "{size}-{sla}" is what stands before "-{sla}", unless
\* that is found earlier in the name.
ASSUME PlanSizeIsPrefix ==
  \A size \in Strings({"x", "-", "s"}, 4), sla \in Strings({"x", "s"}, 2) :
    LET name == size \o <<"-">> \o sla
    IN (\A i \in DOMAIN size : SubSeq(name, i, i + Len(sla)) # <<"-">> \o sla)
         => PL!getPlanSize(name, sla) = size

Req(op) ==
  [ op |-> op, id |-> i1, plan |-> "smallStd", newPlan |-> NoPlan, service |-> "redis",
    raw |-> "nil", params |-> NoParams, async |-> TRUE, principal |-> alice ]

Provisions == {Req("Provision"), [Req("Provision") EXCEPT !.async = FALSE]}

Update(a, b) == [Req("Update") EXCEPT !.plan = a, !.newPlan = b]
Updates ==
  { Update("smallStd", "smallPrem"), Update("smallStd", "largeStd"), Update("smallStd", "largePrem"),
    Update(NoPlan, "smallStd") }

Oddities ==
  { [Req("Provision") EXCEPT !.plan = "broken"],
    [Req("Provision") EXCEPT !.principal = NoPrincipal],
    [Req("Provision") EXCEPT !.raw = "map", !.params.tls = "tls [..]"],
    [Req("Update") EXCEPT !.newPlan = "broken"],
    [Req("Update") EXCEPT !.service = "other", !.newPlan = "smallPrem"] }

MCRequests ==
  Provisions \cup Updates \cup Oddities
  \cup {Req("Deprovision"), [Req("GetInstance") EXCEPT !.plan = NoPlan], Req("LastOperation")}

\* The same without the odd requests.
MCPlainRequests ==
  {Req("Provision"), [Req("GetInstance") EXCEPT !.plan = NoPlan],
   [Req("Update") EXCEPT !.plan = NoPlan, !.newPlan = "largeStd"], Req("Deprovision")}

MCReasons == {"Available"}

\* Workers are interchangeable (no liveness property is checked with it).
MCSymmetry == Permutations(Workers)
=============================================================================
