----------------------------- MODULE AuthProofs -----------------------------
(***************************************************************************)
(* Proofs about module Auth, for any number of workers, users and          *)
(* configured credentials.                                                 *)
(*                                                                         *)
(* Two things carry the invariant.  TaskOK says what the context of a      *)
(* request may hold at each stage, so that the principal read from it at   *)
(* the end is who authenticated at the beginning.  And every request that  *)
(* was counted and may still fail, the failing ones included, has a place  *)
(* of its own in the total.  As the total never shrinks, a scrape that     *)
(* reads the failures first finds them in the total it reads later.        *)
(***************************************************************************)
EXTENDS Auth, FiniteSetTheorems, TLAPS

\* The header of t authenticates its user.
Authentic(h) ==
  \/ /\ h.scheme = "Basic" /\ h.decodes
     /\ [user |-> h.user, password |-> h.password] \in Credentials
  \/ h.scheme = "Bearer" /\ h.verified

TaskOK(t) ==
  /\ t.pc = "idle" => t = Idle
  /\ t.pc \in {"route", "auth"} => t.method = "none" /\ t.user = NoUser /\ ~t.token
  /\ t.pc = "auth" => t.path = "/v2"
  /\ t.pc = "check" => t.method \in {"Basic", "Bearer"} /\ t.method = t.header.scheme
  /\ t.pc = "broker" =>
       /\ Authentic(t.header)
       /\ t.method = t.header.scheme
       /\ t.method = "Basic" => t.user = t.header.user
       /\ t.method = "Bearer" => t.token /\ t.claim = t.header.user

\* Requests that are in the total and not yet among the failures.
IsUncounted(t) == t.pc = "auth" \/ (t.pc = "route" /\ t.path = "/v2")
IsCounted(t) == t.pc \in {"check", "broker", "fail"}
Counted == {w \in Workers : IsCounted(task[w])}

Inv ==
  /\ task \in [Workers -> Task]
  /\ \A w \in Workers : TaskOK(task[w])
  /\ total \in Nat /\ failed \in Nat
  /\ total + Cardinality(Uncounted) <= MaxRequests
  /\ failed + Cardinality(Counted) <= total
  /\ resp \in [code : {"none", "200", "400", "401", "served", "created", "no principal"},
               header : Header, user : Users \cup {NoUser}]
  /\ ServedForAuthenticated
-----------------------------------------------------------------------------
\* A set of workers loses or gains one.
LEMMA OneMore ==
  ASSUME NEW S \in SUBSET Workers, NEW w \in Workers
  PROVE  /\ Cardinality(S) \in Nat
         /\ Cardinality(S \cup {w}) = IF w \in S THEN Cardinality(S) ELSE Cardinality(S) + 1
         /\ Cardinality(S \ {w}) = IF w \in S THEN Cardinality(S) - 1 ELSE Cardinality(S)
         /\ Cardinality(S \ {w}) \in Nat
  <1>1. IsFiniteSet(S) /\ IsFiniteSet(S \ {w})
    BY FS_Subset, AuthAssumption
  <1> QED
    BY <1>1, FS_CardinalityType, FS_AddElement, FS_RemoveElement

\* How the step of a worker moves it between the two sets.
LEMMA Counting ==
  ASSUME task \in [Workers -> Task], NEW w \in Workers, NEW t, task' = [task EXCEPT ![w] = t]
  PROVE  /\ Cardinality(Uncounted) \in Nat /\ Cardinality(Counted) \in Nat
         /\ Cardinality(Uncounted') \in Nat
         /\ (IsUncounted(t) <=> IsUncounted(task[w])) => Cardinality(Uncounted') = Cardinality(Uncounted)
         /\ (IsUncounted(t) /\ ~IsUncounted(task[w])) => Cardinality(Uncounted') = Cardinality(Uncounted) + 1
         /\ (~IsUncounted(t) /\ IsUncounted(task[w])) => Cardinality(Uncounted') = Cardinality(Uncounted) - 1
         /\ Cardinality(Counted') \in Nat
         /\ (IsCounted(t) <=> IsCounted(task[w])) => Cardinality(Counted') = Cardinality(Counted)
         /\ (IsCounted(t) /\ ~IsCounted(task[w])) => Cardinality(Counted') = Cardinality(Counted) + 1
         /\ (~IsCounted(t) /\ IsCounted(task[w])) => Cardinality(Counted') = Cardinality(Counted) - 1
  <1>1. \A v \in Workers : task'[v] = IF v = w THEN t ELSE task[v]
    OBVIOUS
  <1>2. /\ Uncounted' = IF IsUncounted(t) THEN Uncounted \cup {w} ELSE Uncounted \ {w}
        /\ w \in Uncounted <=> IsUncounted(task[w])
    BY <1>1 DEF Uncounted, IsUncounted
  <1>3. /\ Counted' = IF IsCounted(t) THEN Counted \cup {w} ELSE Counted \ {w}
        /\ w \in Counted <=> IsCounted(task[w])
    BY <1>1 DEF Counted, IsCounted
  <1>4. Uncounted \in SUBSET Workers /\ Counted \in SUBSET Workers
    BY DEF Uncounted, Counted
  <1>5. /\ Cardinality(Uncounted) \in Nat
        /\ Cardinality(Uncounted \cup {w}) =
             IF w \in Uncounted THEN Cardinality(Uncounted) ELSE Cardinality(Uncounted) + 1
        /\ Cardinality(Uncounted \ {w}) =
             IF w \in Uncounted THEN Cardinality(Uncounted) - 1 ELSE Cardinality(Uncounted)
        /\ Cardinality(Uncounted \ {w}) \in Nat
    BY <1>4, OneMore
  <1>6. /\ Cardinality(Counted) \in Nat
        /\ Cardinality(Counted \cup {w}) =
             IF w \in Counted THEN Cardinality(Counted) ELSE Cardinality(Counted) + 1
        /\ Cardinality(Counted \ {w}) =
             IF w \in Counted THEN Cardinality(Counted) - 1 ELSE Cardinality(Counted)
        /\ Cardinality(Counted \ {w}) \in Nat
    BY <1>4, OneMore
  <1>7. /\ Cardinality(Uncounted') \in Nat
        /\ (IsUncounted(t) <=> IsUncounted(task[w])) => Cardinality(Uncounted') = Cardinality(Uncounted)
        /\ (IsUncounted(t) /\ ~IsUncounted(task[w])) => Cardinality(Uncounted') = Cardinality(Uncounted) + 1
        /\ (~IsUncounted(t) /\ IsUncounted(task[w])) => Cardinality(Uncounted') = Cardinality(Uncounted) - 1
    BY <1>2, <1>5
  <1>8. /\ Cardinality(Counted') \in Nat
        /\ (IsCounted(t) <=> IsCounted(task[w])) => Cardinality(Counted') = Cardinality(Counted)
        /\ (IsCounted(t) /\ ~IsCounted(task[w])) => Cardinality(Counted') = Cardinality(Counted) + 1
        /\ (~IsCounted(t) /\ IsCounted(task[w])) => Cardinality(Counted') = Cardinality(Counted) - 1
    BY <1>3, <1>6
  <1> QED
    BY <1>5, <1>6, <1>7, <1>8

\* The bounds of the counters, as a request moves between the two sets.
LEMMA CountersInv ==
  ASSUME total \in Nat, failed \in Nat, MaxRequests \in Nat,
         Cardinality(Uncounted) \in Nat, Cardinality(Counted) \in Nat,
         total + Cardinality(Uncounted) <= MaxRequests,
         failed + Cardinality(Counted) <= total,
         \/ /\ total' = total /\ failed' = failed
            /\ Cardinality(Counted') \in {Cardinality(Counted), Cardinality(Counted) - 1}
            /\ \/ Cardinality(Uncounted') \in {Cardinality(Uncounted), Cardinality(Uncounted) - 1}
               \/ /\ Cardinality(Uncounted') = Cardinality(Uncounted) + 1
                  /\ total + Cardinality(Uncounted) < MaxRequests
         \/ /\ total' = total + 1 /\ failed' = failed
            /\ Cardinality(Counted') \in {Cardinality(Counted), Cardinality(Counted) + 1}
            /\ Cardinality(Uncounted') = Cardinality(Uncounted) - 1
         \/ /\ total' = total /\ failed' = failed + 1
            /\ Cardinality(Counted') = Cardinality(Counted) - 1
            /\ Cardinality(Uncounted') = Cardinality(Uncounted)
  PROVE  /\ total' \in Nat /\ failed' \in Nat
         /\ total' + Cardinality(Uncounted') <= MaxRequests
         /\ failed' + Cardinality(Counted') <= total'
  OBVIOUS

\* A worker's step, and what has to be seen of it.
LEMMA StepInv ==
  ASSUME Inv, NEW w \in Workers, NEW t \in Task, TaskOK(t), task' = [task EXCEPT ![w] = t],
         \/ /\ UNCHANGED <<total, failed>>
            /\ IsCounted(t) => IsCounted(task[w])
            /\ IsUncounted(t) => IsUncounted(task[w]) \/ total + Cardinality(Uncounted) < MaxRequests
         \/ /\ IsUncounted(task[w]) /\ ~IsUncounted(t)
            /\ total' = total + 1 /\ failed' = failed
         \/ /\ task[w].pc = "fail" /\ t = Idle
            /\ total' = total /\ failed' = failed + 1,
         resp' \in [code : {"none", "200", "400", "401", "served", "created", "no principal"},
                    header : Header, user : Users \cup {NoUser}],
         ServedForAuthenticated'
  PROVE  Inv'
  <1>1. /\ task' \in [Workers -> Task]
        /\ \A v \in Workers : TaskOK(task[v])'
    BY DEF Inv, TaskOK
  <1>2. MaxRequests \in Nat
    BY AuthAssumption
  <1>3. ~(IsCounted(t) /\ IsUncounted(t)) /\ ~(IsCounted(task[w]) /\ IsUncounted(task[w]))
        /\ ~IsCounted(Idle) /\ ~IsUncounted(Idle) /\ (task[w].pc = "fail" => IsCounted(task[w]))
    BY DEF IsCounted, IsUncounted, Idle
  <1>4. /\ total' \in Nat /\ failed' \in Nat
        /\ total' + Cardinality(Uncounted') <= MaxRequests
        /\ failed' + Cardinality(Counted') <= total'
    <2>1. /\ total \in Nat /\ failed \in Nat
          /\ Cardinality(Uncounted) \in Nat /\ Cardinality(Counted) \in Nat
          /\ total + Cardinality(Uncounted) <= MaxRequests
          /\ failed + Cardinality(Counted) <= total
      BY Counting DEF Inv
    <2>2. /\ Cardinality(Uncounted') \in Nat
          /\ (IsUncounted(t) <=> IsUncounted(task[w])) => Cardinality(Uncounted') = Cardinality(Uncounted)
          /\ (IsUncounted(t) /\ ~IsUncounted(task[w])) => Cardinality(Uncounted') = Cardinality(Uncounted) + 1
          /\ (~IsUncounted(t) /\ IsUncounted(task[w])) => Cardinality(Uncounted') = Cardinality(Uncounted) - 1
          /\ Cardinality(Counted') \in Nat
          /\ (IsCounted(t) <=> IsCounted(task[w])) => Cardinality(Counted') = Cardinality(Counted)
          /\ (IsCounted(t) /\ ~IsCounted(task[w])) => Cardinality(Counted') = Cardinality(Counted) + 1
          /\ (~IsCounted(t) /\ IsCounted(task[w])) => Cardinality(Counted') = Cardinality(Counted) - 1
      BY Counting DEF Inv
    <2>3. CASE /\ UNCHANGED <<total, failed>>
               /\ IsCounted(t) => IsCounted(task[w])
               /\ IsUncounted(t) => IsUncounted(task[w]) \/ total + Cardinality(Uncounted) < MaxRequests
      <3>1. Cardinality(Counted') \in {Cardinality(Counted), Cardinality(Counted) - 1}
        BY <2>2, <2>3
      <3>2. \/ Cardinality(Uncounted') \in {Cardinality(Uncounted), Cardinality(Uncounted) - 1}
            \/ /\ Cardinality(Uncounted') = Cardinality(Uncounted) + 1
               /\ total + Cardinality(Uncounted) < MaxRequests
        BY <2>2, <2>3
      <3> QED
        BY <1>2, <2>1, <2>3, <3>1, <3>2, CountersInv, Zenon
    <2>4. CASE /\ IsUncounted(task[w]) /\ ~IsUncounted(t)
               /\ total' = total + 1 /\ failed' = failed
      <3>1. /\ Cardinality(Uncounted') = Cardinality(Uncounted) - 1
            /\ Cardinality(Counted') \in {Cardinality(Counted), Cardinality(Counted) + 1}
        BY <1>3, <2>2, <2>4
      <3> QED
        BY <1>2, <2>1, <2>4, <3>1, CountersInv, Zenon
    <2>5. CASE /\ task[w].pc = "fail" /\ t = Idle
               /\ total' = total /\ failed' = failed + 1
      <3>1. /\ Cardinality(Uncounted') = Cardinality(Uncounted)
            /\ Cardinality(Counted') = Cardinality(Counted) - 1
        BY <1>3, <2>2, <2>5 DEF IsUncounted
      <3> QED
        BY <1>2, <2>1, <2>5, <3>1, CountersInv, Zenon
    <2> QED
      BY <2>3, <2>4, <2>5
  <1> QED
    BY <1>1, <1>4 DEF Inv
-----------------------------------------------------------------------------
\* What the request of a busy worker looks like.
LEMMA BusyOK ==
  ASSUME Inv, NEW w \in Workers
  PROVE  /\ task[w] \in Task /\ TaskOK(task[w])
         /\ task[w].header \in Header
         /\ task[w].user \in Users \cup {NoUser} /\ task[w].claim \in Users \cup {NoUser}
         /\ task[w].method \in {"none", "Basic", "Bearer"}
  BY DEF Inv, Task

LEMMA IdleOK == Idle \in Task /\ TaskOK(Idle) /\ ~IsCounted(Idle) /\ ~IsUncounted(Idle)
  BY AuthAssumption DEF Idle, Task, TaskOK, IsCounted, IsUncounted, Paths, Header, NoHeader

\* The header that authenticates somebody names a user, or leaves out the
\* claim.
LEMMA HeaderUser ==
  ASSUME NEW h \in Header, h.scheme \in {"Basic", "Bearer"}
  PROVE  h.user \in Users \cup {NoUser}
  BY DEF Header

\* The counters are within the bound on the requests, and within each other.
LEMMA CountersBounded ==
  ASSUME Inv
  PROVE  total \in 0..MaxRequests /\ failed \in 0..MaxRequests /\ failed <= total
  <1>1. Uncounted \in SUBSET Workers /\ Counted \in SUBSET Workers
    BY DEF Uncounted, Counted
  <1>2. Cardinality(Uncounted) \in Nat /\ Cardinality(Counted) \in Nat
    BY <1>1, FS_Subset, FS_CardinalityType, AuthAssumption
  <1>3. /\ total \in Nat /\ failed \in Nat /\ MaxRequests \in Nat
        /\ total + Cardinality(Uncounted) <= MaxRequests
        /\ failed + Cardinality(Counted) <= total
    BY AuthAssumption DEF Inv
  <1>4. total <= MaxRequests /\ failed <= total
    BY <1>2, <1>3
  <1> QED
    BY <1>3, <1>4

\* A step in which nothing is answered.
LEMMA GotoInv ==
  ASSUME Inv, NEW w \in Workers, NEW t \in Task, TaskOK(t), task' = [task EXCEPT ![w] = t],
         resp' = NoResp,
         \/ /\ UNCHANGED <<total, failed>>
            /\ IsCounted(t) => IsCounted(task[w])
            /\ IsUncounted(t) => IsUncounted(task[w]) \/ total + Cardinality(Uncounted) < MaxRequests
         \/ /\ IsUncounted(task[w]) /\ ~IsUncounted(t)
            /\ total' = total + 1 /\ failed' = failed
  PROVE  Inv'
  <1>1. NoResp \in [code : {"none", "200", "400", "401", "served", "created", "no principal"},
                    header : Header, user : Users \cup {NoUser}]
    BY DEF NoResp, NoHeader, Header
  <1>2. ServedForAuthenticated'
    BY DEF ServedForAuthenticated, NoResp
  <1> QED
    BY <1>1, <1>2, StepInv

\* An answer that serves nobody.
LEMMA AnswerInv ==
  ASSUME Inv, NEW w \in Workers, NEW code \in {"200", "400", "401", "no principal"}, Answer(w, code),
         \/ UNCHANGED <<total, failed>>
         \/ IsUncounted(task[w]) /\ total' = total + 1 /\ failed' = failed
         \/ task[w].pc = "fail" /\ total' = total /\ failed' = failed + 1
  PROVE  Inv'
  <1>1. task' = [task EXCEPT ![w] = Idle]
        /\ resp' = [code |-> code, header |-> task[w].header, user |-> NoUser]
    BY DEF Answer, Reply
  <1>2. resp' \in [code : {"none", "200", "400", "401", "served", "created", "no principal"},
                   header : Header, user : Users \cup {NoUser}]
    BY <1>1, BusyOK
  <1>3. ServedForAuthenticated'
    BY <1>1 DEF ServedForAuthenticated
  <1> QED
    BY <1>1, <1>2, <1>3, IdleOK, StepInv

LEMMA ArriveInv ==
  ASSUME Inv, NEW w \in Workers, NEW path \in Paths, NEW header \in Header, Arrive(w, path, header)
  PROVE  Inv'
  <1> DEFINE t == [Idle EXCEPT !.pc = "route", !.path = path, !.header = header]
  <1>1. task' = [task EXCEPT ![w] = t] /\ resp' = NoResp /\ UNCHANGED <<total, failed>>
        /\ (path = "/v2" => total + Cardinality(Uncounted) < MaxRequests)
    BY DEF Arrive
  <1>2. t \in Task
    BY IdleOK DEF Task
  <1>3. t.pc = "route" /\ t.path = path /\ t.method = "none" /\ t.user = NoUser /\ ~t.token
    BY DEF Idle
  <1> HIDE DEF t
  <1>4. TaskOK(t) /\ ~IsCounted(t) /\ (IsUncounted(t) => path = "/v2")
    BY <1>3 DEF TaskOK, IsCounted, IsUncounted
  <1> QED
    BY <1>1, <1>2, <1>4, GotoInv

LEMMA RouteInv ==
  ASSUME Inv, NEW w \in Workers, Route(w)
  PROVE  Inv'
  <1>0. task[w].pc = "route" /\ UNCHANGED <<total, failed>>
    BY DEF Route
  <1>1. CASE Answer(w, "200")
    BY <1>0, <1>1, AnswerInv
  <1>2. ASSUME NEW pc \in {"scrape", "auth"}, Goto(w, pc), pc = "auth" => task[w].path = "/v2"
        PROVE  Inv'
    <2> DEFINE t == [task[w] EXCEPT !.pc = pc]
    <2>1. t \in Task /\ t.pc = pc /\ t.path = task[w].path /\ t.method = task[w].method
          /\ t.user = task[w].user /\ t.token = task[w].token
      BY BusyOK DEF Task
    <2>2. task' = [task EXCEPT ![w] = t] /\ resp' = NoResp
      BY <1>2 DEF Goto, Inv
    <2> HIDE DEF t
    <2>3. ~IsCounted(t) /\ (IsUncounted(t) => IsUncounted(task[w]))
      BY <1>0, <1>2, <2>1 DEF IsUncounted, IsCounted
    <2>4. TaskOK(t)
      BY <1>0, <1>2, <2>1, BusyOK DEF TaskOK
    <2> QED
      BY <1>0, <2>1, <2>2, <2>3, <2>4, GotoInv
  <1> QED
    BY <1>1, <1>2 DEF Route

\* A step of a scrape leaves the counters alone.
LEMMA ReadInv ==
  ASSUME Inv, NEW w \in Workers, ReadTotal(w) \/ ReadFailed(w)
  PROVE  Inv'
  <1>0. /\ task[w] \in Task /\ task \in [Workers -> Task] /\ total \in 0..MaxRequests
        /\ failed \in 0..MaxRequests
    BY CountersBounded, BusyOK DEF Inv
  <1> DEFINE t == task'[w]
  <1>1. /\ t \in Task /\ t.pc \in {"read", "write"} /\ task' = [task EXCEPT ![w] = t]
        /\ resp' = NoResp /\ UNCHANGED <<total, failed>>
    BY <1>0 DEF ReadTotal, ReadFailed, Task
  <1> HIDE DEF t
  <1>2. TaskOK(t) /\ ~IsCounted(t) /\ ~IsUncounted(t)
    BY <1>1 DEF TaskOK, IsCounted, IsUncounted
  <1> QED
    BY <1>1, <1>2, GotoInv

LEMMA WriteMetricsInv ==
  ASSUME Inv, NEW w \in Workers, WriteMetrics(w)
  PROVE  Inv'
  BY AnswerInv DEF WriteMetrics

\* The request is counted, and the method is that of the header from here on.
LEMMA HandlerInv ==
  ASSUME Inv, NEW w \in Workers, Handler(w)
  PROVE  Inv'
  <1>0. task[w].pc = "auth" /\ IsUncounted(task[w]) /\ total' = total + 1
    BY DEF Handler, IsUncounted
  <1>1. CASE Goto(w, "fail") /\ UNCHANGED failed
    <2> DEFINE t == [task[w] EXCEPT !.pc = "fail"]
    <2>1. t \in Task /\ t.pc = "fail"
      BY BusyOK DEF Task
    <2>2. task' = [task EXCEPT ![w] = t] /\ resp' = NoResp
      BY <1>1 DEF Goto, Inv
    <2> HIDE DEF t
    <2>3. TaskOK(t) /\ ~IsUncounted(t)
      BY <2>1 DEF TaskOK, IsUncounted
    <2> QED
      BY <1>0, <1>1, <2>1, <2>2, <2>3, GotoInv
  <1>2. CASE BadRequest(w)
    BY <1>0, <1>2, AnswerInv DEF BadRequest
  <1>3. ASSUME task[w].header.scheme \in {"Basic", "Bearer"},
               task' = [task EXCEPT ![w].pc = "check", ![w].method = task[w].header.scheme],
               resp' = NoResp, UNCHANGED failed
        PROVE  Inv'
    <2> DEFINE t == [task[w] EXCEPT !.pc = "check", !.method = task[w].header.scheme]
    <2>1. t \in Task /\ t.pc = "check" /\ t.method = task[w].header.scheme
          /\ t.header = task[w].header
      BY <1>3, BusyOK DEF Task
    <2>2. task' = [task EXCEPT ![w] = t]
      BY <1>3 DEF Inv
    <2> HIDE DEF t
    <2>3. TaskOK(t) /\ ~IsUncounted(t)
      BY <1>3, <2>1 DEF TaskOK, IsUncounted
    <2> QED
      BY <1>0, <1>3, <2>1, <2>2, <2>3, GotoInv
  <1> QED
    BY <1>1, <1>2, <1>3 DEF Handler

\* The user that goes into the context is one of the configured credentials'.
LEMMA BasicHandlerInv ==
  ASSUME Inv, NEW w \in Workers, BasicHandler(w)
  PROVE  Inv'
  <1> DEFINE h == task[w].header
  <1>0. /\ task[w].pc = "check" /\ task[w].method = "Basic" /\ h.scheme = "Basic"
        /\ IsCounted(task[w]) /\ task[w] \in Task /\ h \in Header
        /\ resp' = NoResp /\ UNCHANGED <<total, failed>>
    BY BusyOK DEF BasicHandler, TaskOK, IsCounted
  <1>1. CASE authorized(h) /\ task' = [task EXCEPT ![w].pc = "broker", ![w].user = h.user]
    <2> DEFINE t == [task[w] EXCEPT !.pc = "broker", !.user = h.user]
    <2>1. task' = [task EXCEPT ![w] = t]
      BY <1>1 DEF Inv
    <2>2. h.user \in Users \cup {NoUser}
      BY <1>0, HeaderUser
    <2>3. t \in Task /\ t.pc = "broker" /\ t.method = "Basic" /\ t.header = h /\ t.user = h.user
      BY <1>0, <2>2 DEF Task
    <2> HIDE DEF t
    <2>4. Authentic(h)
      <3>1. PICK c \in Credentials : c.user = h.user /\ c.password = h.password
        BY <1>1 DEF authorized
      <3>2. c = [user |-> h.user, password |-> h.password]
        BY <3>1, AuthAssumption
      <3> QED
        BY <1>0, <1>1, <3>2 DEF authorized, Authentic
    <2>5. TaskOK(t) /\ IsCounted(t) /\ ~IsUncounted(t)
      BY <1>0, <2>3, <2>4 DEF TaskOK, IsCounted, IsUncounted
    <2> QED
      BY <1>0, <2>1, <2>3, <2>5, GotoInv
  <1>2. CASE task' = [task EXCEPT ![w].pc = "fail"]
    <2> DEFINE t == [task[w] EXCEPT !.pc = "fail"]
    <2>1. task' = [task EXCEPT ![w] = t]
      BY <1>2 DEF Inv
    <2>2. t \in Task /\ t.pc = "fail"
      BY <1>0 DEF Task
    <2> HIDE DEF t
    <2>3. TaskOK(t) /\ ~IsUncounted(t)
      BY <2>2 DEF TaskOK, IsUncounted
    <2> QED
      BY <1>0, <2>1, <2>2, <2>3, GotoInv
  <1> QED
    BY <1>1, <1>2 DEF BasicHandler

\* The claims that go into the context are those of a verified token.
LEMMA BearerHandlerInv ==
  ASSUME Inv, NEW w \in Workers, BearerHandler(w)
  PROVE  Inv'
  <1> DEFINE h == task[w].header
  <1>0. /\ task[w].pc = "check" /\ task[w].method = "Bearer" /\ h.scheme = "Bearer"
        /\ IsCounted(task[w]) /\ task[w] \in Task /\ h \in Header
        /\ UNCHANGED <<total, failed>>
    BY BusyOK DEF BearerHandler, TaskOK, IsCounted
  <1>1. CASE h.verified /\ resp' = NoResp
             /\ task' = [task EXCEPT ![w].pc = "broker", ![w].token = TRUE, ![w].claim = h.user]
    <2> DEFINE t == [task[w] EXCEPT !.pc = "broker", !.token = TRUE, !.claim = h.user]
    <2>1. task' = [task EXCEPT ![w] = t]
      BY <1>1 DEF Inv
    <2>2. h.user \in Users \cup {NoUser}
      BY <1>0, HeaderUser
    <2>3. t \in Task /\ t.pc = "broker" /\ t.method = "Bearer" /\ t.header = h
          /\ t.token /\ t.claim = h.user
      BY <1>0, <2>2 DEF Task
    <2> HIDE DEF t
    <2>4. TaskOK(t) /\ IsCounted(t) /\ ~IsUncounted(t)
      BY <1>0, <1>1, <2>3 DEF TaskOK, IsCounted, IsUncounted, Authentic
    <2> QED
      BY <1>0, <1>1, <2>1, <2>3, <2>4, GotoInv
  <1>2. CASE Answer(w, "401")
    BY <1>0, <1>2, AnswerInv
  <1> QED
    BY <1>1, <1>2 DEF BearerHandler

LEMMA UnauthorizedInv ==
  ASSUME Inv, NEW w \in Workers, Unauthorized(w)
  PROVE  Inv'
  BY AnswerInv DEF Unauthorized

\* The principal is who authenticated.
LEMMA BrokerInv ==
  ASSUME Inv, NEW w \in Workers, Broker(w)
  PROVE  Inv'
  <1> DEFINE h == task[w].header
             p == PrincipalFromContext(task[w])
  <1>1. /\ task[w].pc = "broker" /\ TaskOK(task[w]) /\ h \in Header
        /\ UNCHANGED <<total, failed>>
    BY BusyOK DEF Broker
  <1>2. Authentic(h) /\ h.scheme \in {"Basic", "Bearer"} /\ task[w].method = h.scheme
    BY <1>1 DEF TaskOK, Authentic
  <1>3. p = h.user /\ p \in Users \cup {NoUser}
    <2>1. p = h.user
      BY <1>1, <1>2 DEF TaskOK, PrincipalFromContext, getPrincipalFromBasicAuth,
                        getPrincipalFromBearerToken
    <2> QED
      BY <1>1, <1>2, <2>1, HeaderUser
  <1>4. ASSUME NEW code \in {"served", "created"}, NEW user \in Users \cup {NoUser},
               Reply(w, code, user), code = "created" => user = h.user
        PROVE  Inv'
    <2>1. task' = [task EXCEPT ![w] = Idle]
          /\ resp' = [code |-> code, header |-> h, user |-> user]
      BY <1>4 DEF Reply
    <2>2. resp' \in [code : {"none", "200", "400", "401", "served", "created", "no principal"},
                     header : Header, user : Users \cup {NoUser}]
      BY <1>1, <2>1
    <2>3. ServedForAuthenticated'
      BY <1>2, <1>4, <2>1 DEF ServedForAuthenticated, Authentic
    <2> QED
      BY <1>1, <2>1, <2>2, <2>3, IdleOK, StepInv
  <1>5. CASE Answer(w, "served")
    BY <1>4, <1>5 DEF Answer
  <1>6. CASE Answer(w, "no principal")
    BY <1>1, <1>6, AnswerInv
  <1>7. CASE Reply(w, "created", p)
    BY <1>3, <1>4, <1>7
  <1> QED
    BY <1>5, <1>6, <1>7 DEF Broker
-----------------------------------------------------------------------------
LEMMA InitInv == Init => Inv
  <1> SUFFICES ASSUME Init PROVE Inv
    OBVIOUS
  <1>1. task \in [Workers -> Task] /\ \A w \in Workers : TaskOK(task[w])
    BY IdleOK DEF Init
  <1>2. Uncounted = {} /\ Counted = {}
    BY IdleOK DEF Init, Uncounted, Counted, IsUncounted
  <1>3. NoResp \in [code : {"none", "200", "400", "401", "served", "created", "no principal"},
                    header : Header, user : Users \cup {NoUser}]
    BY DEF NoResp, NoHeader, Header
  <1>4. ServedForAuthenticated
    BY DEF Init, NoResp, ServedForAuthenticated
  <1>5. /\ total = 0 /\ failed = 0 /\ resp = NoResp
        /\ Cardinality(Uncounted) = 0 /\ Cardinality(Counted) = 0
    BY <1>2, FS_EmptySet DEF Init
  <1>6. /\ total \in Nat /\ failed \in Nat
        /\ total + Cardinality(Uncounted) <= MaxRequests
        /\ failed + Cardinality(Counted) <= total
    BY <1>5, AuthAssumption
  <1> QED
    BY <1>1, <1>3, <1>4, <1>5, <1>6 DEF Inv

LEMMA NextInv == Inv /\ [Next]_vars => Inv'
  <1>1. ASSUME Inv, UNCHANGED vars PROVE Inv'
    BY <1>1 DEF vars, Inv, TaskOK, Uncounted, Counted, ServedForAuthenticated
  <1> QED
    BY <1>1, ArriveInv, RouteInv, ReadInv, WriteMetricsInv, HandlerInv, BasicHandlerInv, BearerHandlerInv, UnauthorizedInv,
       BrokerInv DEF Next

\* The invariant, for any number of requests that are handled at a time.
THEOREM InvHolds == Spec => []Inv
  BY InitInv, NextInv, PTL DEF Spec

\* The counters stay within the number of requests, and the values of a
\* request's context have the types their readers assert.
THEOREM TypeCorrect == Spec => []TypeOK
  <1>1. Inv => TypeOK
    <2> SUFFICES ASSUME Inv PROVE TypeOK
      OBVIOUS
    <2> QED
      BY CountersBounded DEF Inv, TypeOK
  <1> QED
    BY <1>1, InvHolds, PTL

\* Nobody is served without authentication, nor in another one's name.
THEOREM OnlyAuthenticatedServed == Spec => []ServedForAuthenticated
  <1>1. Inv => ServedForAuthenticated
    BY DEF Inv
  <1> QED
    BY <1>1, InvHolds, PTL

-----------------------------------------------------------------------------
\* What a scrape has read of the failures is in the total it is about to read.
ReadFailedFits ==
  \A w \in Workers :
    (task[w].pc = "read" /\ task[w].first = "failed") => task[w].readFailed <= total

\* The total never shrinks.
LEMMA TotalGrows ==
  ASSUME Inv, [Next]_vars
  PROVE  total' \in {total, total + 1}
  BY DEF Next, Arrive, Route, ReadTotal, ReadFailed, WriteMetrics, Handler, BasicHandler, BearerHandler,
         Unauthorized, Broker, vars

\* Only a scrape's own step takes it to where it has read a counter.
LEMMA ReadsItself ==
  ASSUME Inv, [Next]_vars, NEW w \in Workers, task'[w].pc \in {"read", "write"}
  PROVE  task'[w] = task[w] \/ ReadTotal(w) \/ ReadFailed(w)
  <1>0. task \in [Workers -> Task]
    BY DEF Inv
  <1>1. ASSUME NEW v \in Workers, NEW pc \in {"auth", "fail", "scrape"}, Goto(v, pc)
        PROVE  task'[w] = task[w]
    BY <1>0, <1>1 DEF Goto, Task
  <1>2. ASSUME NEW v \in Workers, NEW code, NEW user, Reply(v, code, user)
        PROVE  task'[w] = task[w]
    BY <1>0, <1>2 DEF Reply, Idle
  <1>3. ASSUME NEW v \in Workers, ReadTotal(v) \/ ReadFailed(v)
        PROVE  task'[w] = task[w] \/ ReadTotal(w) \/ ReadFailed(w)
    <2>1. CASE v = w
      BY <1>3, <2>1
    <2>2. CASE v # w
      BY <1>0, <1>3, <2>2 DEF ReadTotal, ReadFailed
    <2> QED
      BY <2>1, <2>2
  <1>4. ASSUME NEW v \in Workers, NEW path, NEW header, Arrive(v, path, header)
        PROVE  task'[w] = task[w]
    BY <1>0, <1>4 DEF Arrive, Idle
  <1>5. ASSUME NEW v \in Workers, Route(v) \/ WriteMetrics(v) \/ Unauthorized(v) \/ Broker(v)
        PROVE  task'[w] = task[w]
    BY <1>1, <1>2, <1>5 DEF Route, WriteMetrics, Unauthorized, Broker, Answer
  <1>6. ASSUME NEW v \in Workers, Handler(v) \/ BasicHandler(v) \/ BearerHandler(v)
        PROVE  task'[w] = task[w]
    <2>1. CASE v = w
      BY <1>0, <1>1, <1>2, <1>6, <2>1 DEF Handler, BadRequest, BasicHandler, BearerHandler, Answer, Task
    <2>2. CASE v # w
      BY <1>0, <1>1, <1>2, <1>6, <2>2 DEF Handler, BadRequest, BasicHandler, BearerHandler, Answer, Task
    <2> QED
      BY <2>1, <2>2
  <1> QED
    BY <1>3, <1>4, <1>5, <1>6 DEF Next, vars

LEMMA NextReadFailedFits ==
  ASSUME Inv, ReadFailedFits, [Next]_vars
  PROVE  ReadFailedFits'
  <1> SUFFICES ASSUME NEW w \in Workers, task'[w].pc = "read", task'[w].first = "failed"
               PROVE  task'[w].readFailed <= total'
    BY DEF ReadFailedFits
  <1>1. total' \in {total, total + 1} /\ total \in Nat /\ failed \in Nat /\ failed <= total
    BY TotalGrows, CountersBounded
  <1>2. task[w] \in Task /\ task \in [Workers -> Task] /\ MaxRequests \in Nat
    BY AuthAssumption DEF Inv
  <1>3. CASE task'[w] = task[w]
    <2>1. task[w].readFailed \in Nat /\ task[w].readFailed <= total
      BY <1>2, <1>3 DEF ReadFailedFits, Task
    <2> QED
      BY <1>1, <1>3, <2>1
  <1>4. CASE ReadTotal(w) \/ ReadFailed(w)
    <2>1. task'[w].readFailed = failed
      BY <1>2, <1>4 DEF ReadTotal, ReadFailed, Task
    <2> QED
      BY <1>1, <2>1
  <1> QED
    BY <1>3, <1>4, ReadsItself

\* The failures a scrape shows exceed the total it shows at most by what was
\* counted between its two reads, and not if it read the failures first.
THEOREM ScrapesFit == Spec => ScrapeWithinTotal
  <1>1. Init => ReadFailedFits
    BY DEF Init, Idle, ReadFailedFits
  <1>2. Inv /\ ReadFailedFits /\ [Next]_vars => ReadFailedFits'
    BY NextReadFailedFits
  <1>3. ASSUME Inv, ReadFailedFits, [Next]_vars
        PROVE  [\A w \in Workers :
                  LET t == task'[w]
                  IN (task[w].pc = "read" /\ t.pc = "write") =>
                       /\ t.readFailed <= total
                       /\ t.first = "failed" => t.readFailed <= t.readTotal]_vars
    <2> SUFFICES ASSUME NEW w \in Workers, task[w].pc = "read", task'[w].pc = "write"
                 PROVE  /\ task'[w].readFailed <= total
                        /\ task'[w].first = "failed" => task'[w].readFailed <= task'[w].readTotal
      OBVIOUS
    <2>1. failed <= total /\ task \in [Workers -> Task] /\ task[w] \in Task
      BY <1>3, CountersBounded DEF Inv
    <2>2. ReadTotal(w) \/ ReadFailed(w)
      BY <1>3, ReadsItself
    <2>3. CASE ReadTotal(w)
      BY <1>3, <2>1, <2>3 DEF ReadTotal, ReadFailedFits, Task
    <2>4. CASE ReadFailed(w)
      BY <1>3, <2>1, <2>4 DEF ReadFailed, Task
    <2> QED
      BY <2>2, <2>3, <2>4
  <1> QED
    BY <1>1, <1>2, <1>3, InvHolds, PTL DEF Spec, ScrapeWithinTotal
=============================================================================
