----------------------------- MODULE PlanLabels -----------------------------
(***************************************************************************)
(* parseLabels and getPlanSize (pkg/crossplane/metadata.go), and the rule  *)
(* strings of pkg/crossplane/plan.go.  A string is a sequence of lexemes,  *)
(* so that "small-premium" is <<"small", "-", "premium">>.                 *)
(***************************************************************************)
EXTENDS Naturals, Sequences
LOCAL INSTANCE SequencesExt

\* strings.Split
Split(s, sep) ==
  LET cuts == SetToSortSeq({0, Len(s) + 1} \cup {i \in DOMAIN s : s[i] = sep}, <)
  IN [k \in 1..(Len(cuts) - 1) |-> SubSeq(s, cuts[k] + 1, cuts[k + 1] - 1)]

\* parsePlanUpdateRules: the pairs a rule string allows, or "malformed".
parsePlanUpdateRules(s) ==
  LET rules == [i \in DOMAIN Split(s, "|") |-> Split(Split(s, "|")[i], ">")]
  IN IF s = << >> THEN {}
     ELSE IF \E i \in DOMAIN rules : Len(rules[i]) # 2 THEN "malformed"
     ELSE {rules[i] : i \in DOMAIN rules}

\* getPlanSize: the plan name without the first "-{sla}" in it.
getPlanSize(name, sla) == ReplaceFirstSubSeq(<<>>, <<"-">> \o sla, name)

\* parseLabels, for the labels the broker reads of a Composition, joined with
\* the kind of the composites it makes.  An invalid service name is kept: the
\* callers treat it as the error parseLabels returns (Catalog!IsValid).
parseLabels(l) ==
  [ ServiceID   |-> l.ServiceID,
    ServiceName |-> l.ServiceName,
    PlanName    |-> l.PlanName,
    PlanSize    |-> getPlanSize(l.PlanName, l.SLA),
    SLA         |-> l.SLA,
    Kind        |-> l.Kind ]
=============================================================================
