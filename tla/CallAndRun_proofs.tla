-------------------------- MODULE CallAndRun_proofs --------------------------
(***************************************************************************)
(* The two modules every subcommand stands on.                             *)
(*                                                                         *)
(*   HttpRetry  for every retry budget and every set of methods: its       *)
(*              safety properties, and that it implements ApiCall          *)
(*   SyncRun    for every number of values and of works per value: its     *)
(*              safety properties                                          *)
(***************************************************************************)
EXTENDS HttpRetry, SyncRun, FiniteSetTheorems, SequenceTheorems, TLAPS

-----------------------------------------------------------------------------
\* HttpRetry.

\* The total is the budget that runs out first: it pays for every failure,
\* the others for their own kind only, and all start at api_retries.  So the
\* total counts the attempts.
BudgetInv ==
    /\ left["total"] = Retries + 1 - cur
    /\ \A b \in Budgets : left[b] >= left["total"]

\* Attempts to come are not on the wire, and of a write no earlier one is:
\* only a connection that was never made is tried again.
CopyInv ==
    /\ \A i \in Attempts : i > cur => copy[i] = "unsent"
    /\ phase = "connecting" => copy[cur] = "unsent"
    /\ method \in Writes => \A i \in Attempts : i < cur => copy[i] = "unsent"

AnswerInv ==
    /\ phase = "answered" <=> answer # "pending"
    /\ OkMeansLanded
    /\ ReadTriesAll

CallIInv == CallTypeOK /\ BudgetInv /\ CopyInv /\ AnswerInv

LEMMA CallInitIInv == CallInit => CallIInv
  BY RetriesAssumption DEF CallInit, Retry, CallIInv, CallTypeOK, BudgetInv, CopyInv, AnswerInv,
     OkMeansLanded, ReadTriesAll, Budgets, Attempts, CopyStates, Landed

\* What Increment does, given the invariant: the call is over exactly when
\* this was the last attempt, and otherwise the next one begins.
LEMMA IncrementStep ==
  ASSUME CallTypeOK, BudgetInv, NEW kind \in Budgets \ {"total"}, Increment(kind)
  PROVE  \/ /\ cur = Retries + 1
            /\ phase' = "answered" /\ answer' = "ApiError"
            /\ left' = left /\ cur' = cur
         \/ /\ cur < Retries + 1
            /\ phase' = "connecting" /\ answer' = answer
            /\ left' = [left EXCEPT !["total"] = @ - 1, ![kind] = @ - 1]
            /\ cur' = cur + 1
<1> DEFINE spent == [left EXCEPT !["total"] = @ - 1, ![kind] = @ - 1]
<1>1. /\ cur \in Int /\ cur <= Retries + 1 /\ Retries \in Int
      /\ left["total"] = Retries + 1 - cur
  BY RetriesAssumption DEF CallTypeOK, BudgetInv, Attempts
<1>2. /\ \A b \in Budgets : left[b] \in Int /\ spent[b] \in Int
      /\ \A b \in Budgets : spent[b] >= spent["total"]
      /\ spent["total"] = left["total"] - 1
      /\ "total" \in Budgets
  BY DEF CallTypeOK, BudgetInv, Budgets
<1>3. Exhausted(spent) <=> cur = Retries + 1
  <2> HIDE DEF spent
  <2>1. Exhausted(spent) <=> \E b \in Budgets : spent[b] < 0
    BY DEF Exhausted
  <2> QED BY <1>1, <1>2, <2>1
<1> QED
  BY <1>1, <1>3 DEF Increment, Answer

LEMMA CallNextIInv == CallIInv /\ [CallNext]_callVars => CallIInv'
<1> SUFFICES ASSUME CallIInv, [CallNext]_callVars PROVE CallIInv'
  OBVIOUS
<1> USE RetriesAssumption DEF Attempts
<1>0. CallTypeOK /\ BudgetInv /\ CopyInv /\ AnswerInv
  BY DEF CallIInv
<1>1. ASSUME Connect PROVE CallIInv'
  BY <1>0, <1>1 DEF Connect, CallIInv, CallTypeOK, BudgetInv, CopyInv, AnswerInv,
     OkMeansLanded, ReadTriesAll, Landed, CopyStates
<1>2. ASSUME NEW kind \in Budgets \ {"total"}, Increment(kind), phase # "answered",
             UNCHANGED <<method, copy>>, last' \in STATUSES \cup {"unreachable", "reset"},
             kind # "connect" => method \in RETRY_METHODS,
             kind = "connect" => phase = "connecting"
      PROVE  CallIInv'
  <2>1. CASE /\ cur = Retries + 1
             /\ phase' = "answered" /\ answer' = "ApiError"
             /\ left' = left /\ cur' = cur
    <3>1. CallTypeOK' /\ BudgetInv' /\ CopyInv'
      BY <1>0, <1>2, <2>1 DEF CallTypeOK, BudgetInv, CopyInv, Writes
    <3>2. AnswerInv'
      BY <1>0, <1>2, <2>1 DEF AnswerInv, OkMeansLanded, ReadTriesAll, CallTypeOK, Landed
    <3> QED BY <3>1, <3>2 DEF CallIInv
  <2>2. CASE /\ cur < Retries + 1
             /\ phase' = "connecting" /\ answer' = answer
             /\ left' = [left EXCEPT !["total"] = @ - 1, ![kind] = @ - 1]
             /\ cur' = cur + 1
    <3>1. CallTypeOK'
      BY <1>0, <1>2, <2>2 DEF CallTypeOK, Budgets
    <3>2. BudgetInv'
      BY <1>0, <1>2, <2>2 DEF CallTypeOK, BudgetInv, Budgets
    <3>3. CopyInv'
      BY <1>0, <1>2, <2>2 DEF CallTypeOK, CopyInv, Writes
    <3>4. AnswerInv'
      BY <1>0, <1>2, <2>2 DEF AnswerInv, OkMeansLanded, ReadTriesAll, CallTypeOK, Landed
    <3> QED BY <3>1, <3>2, <3>3, <3>4 DEF CallIInv
  <2> QED BY <1>0, <1>2, <2>1, <2>2, IncrementStep
<1>3. ASSUME phase = "waiting", Answer("ApiError"), UNCHANGED <<method, copy>>,
             last' \in STATUSES \cup {"unreachable", "reset"},
             method \in RETRY_METHODS => last' = "4xx/500"
      PROVE  CallIInv'
  BY <1>0, <1>3 DEF Answer, CallIInv, CallTypeOK, BudgetInv, CopyInv, AnswerInv,
     OkMeansLanded, ReadTriesAll, Landed
<1>4. ASSUME NoConnection PROVE CallIInv'
  BY <1>0, <1>2, <1>4 DEF NoConnection, Budgets
<1>5. ASSUME NoAnswer PROVE CallIInv'
  <2>1. phase = "waiting" /\ last' = "reset" /\ UNCHANGED <<method, copy>>
    BY <1>5 DEF NoAnswer
  <2>2. CASE method \in RETRY_METHODS
    BY <1>2, <1>5, <2>1, <2>2 DEF NoAnswer, Budgets
  <2>3. CASE method \notin RETRY_METHODS
    BY <1>3, <1>5, <2>1, <2>3 DEF NoAnswer
  <2> QED BY <2>2, <2>3
<1>6. ASSUME NEW status \in STATUSES, Answered(status) PROVE CallIInv'
  <2>1. /\ phase = "waiting" /\ last' = status /\ UNCHANGED <<method, copy>>
        /\ copy[cur] \in CopyMayBe(status)
    BY <1>6 DEF Answered
  <2>2. CASE IsRetry(status)
    BY <1>2, <1>6, <2>1, <2>2 DEF Answered, IsRetry, Budgets
  <2>3. CASE ~IsRetry(status) /\ status # "2xx"
    BY <1>3, <1>6, <2>1, <2>3 DEF Answered, IsRetry, STATUSES, RETRY_STATUSES
  <2>4. CASE status = "2xx"
    <3>1. Answer("ok") /\ copy[cur] = "landed"
      BY <1>6, <2>1, <2>4 DEF Answered, IsRetry, RETRY_STATUSES, CopyMayBe
    <3> QED
      BY <1>0, <2>1, <2>4, <3>1 DEF Answer, CallIInv, CallTypeOK, BudgetInv, CopyInv,
         AnswerInv, OkMeansLanded, ReadTriesAll, Landed
  <2> QED BY <2>2, <2>3, <2>4
<1>7. ASSUME NEW i \in Attempts, Land(i) \/ Refuse(i) PROVE CallIInv'
  BY <1>0, <1>7 DEF Land, Refuse, CallIInv, CallTypeOK, BudgetInv, CopyInv, AnswerInv,
     OkMeansLanded, ReadTriesAll, Landed, CopyStates
<1>8. CASE UNCHANGED callVars
  BY <1>0, <1>8 DEF callVars, CallIInv, CallTypeOK, BudgetInv, CopyInv, AnswerInv,
     OkMeansLanded, ReadTriesAll, Landed
<1> QED
  BY <1>1, <1>4, <1>5, <1>6, <1>7, <1>8
  DEF CallNext, ConnectTimeout, ConnectRefused, ReadTimeout, ConnectionReset

\* Reached are only states of the inductive invariant.
THEOREM CallInvariance == CallSpec => []CallIInv
  BY CallInitIInv, CallNextIInv, PTL DEF CallSpec

\* Every variable of the session keeps its type; in particular a call never
\* makes more than api_retries + 1 attempts.
THEOREM CallTypeCorrect == CallSpec => []CallTypeOK
  BY CallInvariance, PTL DEF CallIInv

\* A POST, PATCH or DELETE reaches the wire at most once, for every retry
\* budget (RETRY_METHODS, netbox.py:37-42).
THEOREM WritesAreSentOnce == CallSpec => []WriteSentOnce
<1>1. CallIInv => WriteSentOnce
  BY RetriesAssumption
  DEF CallIInv, CallTypeOK, CopyInv, WriteSentOnce, Sent, Attempts
<1> QED BY <1>1, CallInvariance, PTL

\* A call that is reported as done was executed by NetBox.
THEOREM OkIsLanded == CallSpec => []OkMeansLanded
  BY CallInvariance, PTL DEF CallIInv, AnswerInv

\* A read uses every attempt it is allowed before it fails for a reason that
\* another attempt might have cured.
THEOREM ReadsTryAll == CallSpec => []ReadTriesAll
  BY CallInvariance, PTL DEF CallIInv, AnswerInv

-----------------------------------------------------------------------------
\* Refinement of ApiCall.

\* At most the current copy of a write has landed, so the effect counted is
\* that copy's.
LEMMA AppliedOnce ==
  ASSUME CallIInv, method \in Writes
  PROVE  /\ Landed = IF copy[cur] = "landed" THEN {cur} ELSE {}
         /\ applied = IF copy[cur] = "landed" THEN 1 ELSE 0
<1>1. Landed = IF copy[cur] = "landed" THEN {cur} ELSE {}
  BY RetriesAssumption DEF CallIInv, CallTypeOK, CopyInv, Landed, Attempts
<1> QED
  BY <1>1, FS_EmptySet, FS_Singleton DEF applied

LEMMA RefineInit == CallInit => Call!Init
<1> SUFFICES ASSUME CallInit PROVE Call!Init
  OBVIOUS
<1>1. Landed = {}
  BY DEF CallInit, Landed
<1>2. applied = 0
  BY <1>1, FS_EmptySet DEF applied
<1> QED
  BY <1>2, MethodsAssumption DEF CallInit, Call!Init, Writes

\* A step of the session is a step of the call or leaves it as it is: an
\* answer succeeds or fails it, the landing of a write's copy applies it.
LEMMA RefineNext ==
  ASSUME CallIInv, CallIInv', [CallNext]_callVars
  PROVE  [Call!Next]_(Call!vars)
<1> USE DEF Call!Next, Call!vars
<1>0. /\ phase \in {"connecting", "waiting"} => answer = "pending"
      /\ method' = method
      /\ method \notin Writes => applied = 0 /\ applied' = 0
      /\ cur \in Attempts
      /\ copy \in [Attempts -> CopyStates]
  BY DEF CallIInv, AnswerInv, CallTypeOK, applied, CallNext, callVars, Connect, ConnectTimeout,
     ConnectRefused, NoConnection, ReadTimeout, ConnectionReset, NoAnswer,
     Answered, Land, Refuse
<1>1. ASSUME phase \in {"connecting", "waiting"}, copy' = copy,
             answer' \in {"pending", "ApiError"}
      PROVE  [Call!Next]_(Call!vars)
  <2>1. applied' = applied
    BY <1>0, <1>1 DEF applied, Landed, Writes
  <2> QED
    BY <1>0, <1>1, <2>1 DEF Call!Fail
<1>2. ASSUME NEW kind, Increment(kind), phase \in {"connecting", "waiting"}
      PROVE  answer' \in {"pending", "ApiError"}
  BY <1>0, <1>2 DEF Increment, Answer
<1>3. CASE Connect
  <2>1. copy' = [copy EXCEPT ![cur] = "flying"] /\ copy[cur] = "unsent"
    BY <1>3 DEF Connect, CallIInv, CopyInv
  <2>2. Landed' = Landed
    BY <1>0, <2>1 DEF Landed
  <2>3. applied' = applied
    BY <1>0, <2>2 DEF applied, Writes
  <2> QED BY <1>0, <1>3, <2>3 DEF Connect
<1>4. CASE NoConnection
  BY <1>1, <1>2, <1>4 DEF NoConnection
<1>5. CASE NoAnswer
  BY <1>1, <1>2, <1>5 DEF NoAnswer, Answer
<1>6. ASSUME NEW status \in STATUSES, Answered(status)
      PROVE  [Call!Next]_(Call!vars)
  <2>1. phase = "waiting" /\ copy' = copy /\ copy[cur] \in CopyMayBe(status)
    BY <1>6 DEF Answered
  <2>2. CASE IsRetry(status) \/ status # "2xx"
    BY <1>1, <1>2, <1>6, <2>1, <2>2 DEF Answered, Answer
  <2>3. CASE status = "2xx"
    <3>1. answer' = "ok" /\ copy[cur] = "landed"
      BY <1>6, <2>1, <2>3
      DEF Answered, IsRetry, RETRY_STATUSES, CopyMayBe, Answer
    <3>2. applied' = applied
      BY <1>0, <2>1 DEF applied, Landed, Writes
    <3>3. method \in Writes => applied = 1
      BY <3>1, AppliedOnce
    <3> QED
      BY <1>0, <2>1, <3>1, <3>2, <3>3 DEF Call!Succeed
  <2> QED BY <2>2, <2>3
<1>7. ASSUME NEW i \in Attempts, Land(i)
      PROVE  [Call!Next]_(Call!vars)
  <2>1. CASE method \notin Writes
    BY <1>0, <1>7, <2>1 DEF Land
  <2>2. CASE method \in Writes
    <3>1. i = cur
      BY <1>0, <1>7, <2>2, RetriesAssumption DEF Land, CallIInv, CopyInv, Attempts
    <3>2. copy[cur] = "flying" /\ copy'[cur'] = "landed"
      BY <1>0, <1>7, <3>1 DEF Land
    <3>3. applied = 0 /\ applied' = 1
      <4>1. applied = 0
        BY <2>2, <3>2, AppliedOnce
      <4>2. Landed' = {cur}
        BY <1>0, <1>7, <2>2, <3>1, RetriesAssumption
        DEF Land, Landed, Attempts, CallIInv, CopyInv
      <4> QED BY <1>0, <2>2, <4>1, <4>2, FS_Singleton DEF applied, Writes
    <3>4. answer # "ok" /\ answer' = answer
      BY <1>7, <3>2 DEF Land, CallIInv, AnswerInv, OkMeansLanded, Landed
    <3> QED BY <1>0, <2>2, <3>3, <3>4 DEF Call!Apply
  <2> QED BY <2>1, <2>2
<1>8. ASSUME NEW i \in Attempts, Refuse(i)
      PROVE  [Call!Next]_(Call!vars)
  <2>1. Landed' = Landed
    BY <1>0, <1>8 DEF Refuse, Landed
  <2>2. applied' = applied
    BY <1>0, <2>1 DEF applied, Writes
  <2> QED BY <1>0, <1>8, <2>2 DEF Refuse
<1>9. CASE UNCHANGED callVars
  BY <1>9 DEF callVars, applied, Landed, Writes
<1> QED
  BY <1>3, <1>4, <1>5, <1>6, <1>7, <1>8, <1>9
  DEF CallNext, ConnectTimeout, ConnectRefused, ReadTimeout, ConnectionReset

\* Whatever is lost, retried or late, the rest of nbtools sees an ApiCall.
THEOREM Refinement == CallSpec => ImplementsApiCall
  BY RefineInit, RefineNext, CallInvariance, PTL DEF CallSpec, ImplementsApiCall, Call!Spec

-----------------------------------------------------------------------------
\* SyncRun.

\* While the run is alive nothing is in doubt: what was sent has been done.
SettledInv ==
    /\ pc # "ended" => flying = {} /\ \A j \in 1 .. (pos - 1) : plan[j] \in landed
    /\ \A j \in 1 .. (pos - 2) : plan[j] \in landed
    /\ \A w \in landed \cup flying : \E j \in 1 .. (pos - 1) : w = plan[j]

\* Works stand in the plan in the order of their items, and are all distinct.
PlanInv ==
    /\ \A j \in 1 .. Len(plan) : plan[j].item <= item
    /\ pc = "next" \/ ~args.stdin => \A j \in 1 .. Len(plan) : plan[j].item < item
    /\ \A j, k \in 1 .. Len(plan) : plan[j] = plan[k] => j = k

\* Where the two paths through run() are.
PathInv ==
    /\ pc \in {"prepare", "plan"} => pos = 1
    /\ pc = "confirm" => pos = 1
    /\ pc = "next" => args.stdin /\ pos = Len(plan) + 1
    /\ pc = "plan" => ~args.stdin
    /\ args.stdin /\ pc \in {"confirm", "prepare"} => plan = << >>
    /\ ~args.stdin =>
          /\ pc \in {"confirm", "do"} => item > Count
          /\ item <= Count => pos = 1
          /\ \A i \in Items : planAt[i] <= 0
    /\ args.mode = "INTERACTIVE" /\ pc # "ended" =>
          IF args.stdin THEN pc = "confirm" ELSE pc = "do" => agreed = plan
    /\ args.mode = "INTERACTIVE" /\ pos > 1 => agreed = plan

\* What has been made of the items before the current one.
ItemInv ==
    /\ \A i \in Items : i < item => planAt[i] # Unplanned \/ fate[i] = "failed"
    /\ \A i \in Items : fate[i] = "failed" => i < item /\ failed > 0
    /\ \A i \in Items : fate[i] = "failed" =>
          \A j \in 1 .. Len(plan) : plan[j].item # i
    /\ pc = "do" /\ args.stdin => item <= Count /\ planAt[item] # Unplanned
    /\ ~args.stdin => \A i \in Items : fate[i] = "todo"
    /\ pc # "ended" <=> exit = Running

IInv == TypeOK /\ SettledInv /\ PlanInv /\ PathInv /\ ItemInv /\ ExitZeroMeansDone

LEMMA InitIInv == Init => IInv
  BY BoundsAssumption DEF Init, IInv, TypeOK, SettledInv, PlanInv, PathInv, ItemInv,
     ExitZeroMeansDone, ArgSet, Items, ExitCodes, Running, Unplanned, Count

\* q is p followed by the n works that item "it" was planned into.
Grown(p, it, n, q) ==
    /\ q \in Seq(WorkSet) /\ Len(q) = Len(p) + n /\ n \in Nat
    /\ \A j \in 1 .. Len(p) : q[j] = p[j]
    /\ \A j \in 1 .. Len(q) :
          \/ j \in 1 .. Len(p) /\ q[j].item < it
          \/ j > Len(p) /\ q[j].item = it
    /\ \A j, k \in 1 .. Len(q) : q[j] = q[k] => j = k
    /\ \A j \in 1 .. Len(q) : q[j].item \in Int

Ordered(p, it) ==
    /\ \A j \in 1 .. Len(p) : p[j].item < it
    /\ \A j, k \in 1 .. Len(p) : p[j] = p[k] => j = k

\* Planning the current item appends its works: none before them is disturbed,
\* and all are still distinct.
LEMMA PlanGrows ==
  ASSUME NEW p \in Seq(WorkSet), NEW it \in Items, NEW n \in 0 .. MaxWorks,
         NEW q, q = p \o Works(it, n), Ordered(p, it)
  PROVE  Grown(p, it, n, q)
<1>0. n \in Nat /\ Len(p) \in Nat /\ it \in Int
  BY BoundsAssumption DEF Items
<1>1. Works(it, n) \in Seq(WorkSet) /\ Len(Works(it, n)) = n
  <2>1. Works(it, n) \in [1 .. n -> WorkSet]
    BY BoundsAssumption DEF Works, WorkSet
  <2> QED BY <1>0, <2>1 DEF Works
<1>2. /\ q \in Seq(WorkSet)
      /\ Len(q) = Len(p) + n
      /\ \A j \in 1 .. Len(p) + n :
            q[j] = IF j <= Len(p) THEN p[j] ELSE Works(it, n)[j - Len(p)]
  <2> DEFINE w == Works(it, n)
  <2>1. w \in Seq(WorkSet) /\ Len(w) = n
    BY <1>1
  <2> HIDE DEF w
  <2>2. /\ p \o w \in Seq(WorkSet)
        /\ Len(p \o w) = Len(p) + Len(w)
        /\ \A i \in 1 .. Len(p) + Len(w) :
              (p \o w)[i] = IF i <= Len(p) THEN p[i] ELSE w[i - Len(p)]
    BY <2>1, ConcatProperties
  <2>3. q = p \o w
    BY DEF w
  <2> QED BY <2>1, <2>2, <2>3 DEF w
<1>3. \A j \in 1 .. Len(q) : j > Len(p) => q[j] = [item |-> it, step |-> j - Len(p)]
  <2> SUFFICES ASSUME NEW j \in 1 .. Len(q), j > Len(p)
               PROVE  q[j] = [item |-> it, step |-> j - Len(p)]
    OBVIOUS
  <2>1. q[j] = Works(it, n)[j - Len(p)] /\ j - Len(p) \in 1 .. n
    BY <1>0, <1>2
  <2> QED BY <2>1 DEF Works
<1>4. \A j \in 1 .. Len(p) : q[j] = p[j]
  BY <1>0, <1>2
<1>5. \A j \in 1 .. Len(q) :
         \/ j \in 1 .. Len(p) /\ q[j].item < it
         \/ j > Len(p) /\ q[j].item = it
  <2> SUFFICES ASSUME NEW j \in 1 .. Len(q)
               PROVE  \/ j \in 1 .. Len(p) /\ q[j].item < it
                      \/ j > Len(p) /\ q[j].item = it
    OBVIOUS
  <2>1. CASE j \in 1 .. Len(p)
    BY <1>4, <2>1 DEF Ordered
  <2>2. CASE j > Len(p)
    <3>1. q[j] = [item |-> it, step |-> j - Len(p)]
      BY <1>3, <2>2
    <3> QED BY <2>2, <3>1
  <2> QED BY <1>0, <1>2, <2>1, <2>2
<1>6. ASSUME NEW j \in 1 .. Len(q), NEW k \in 1 .. Len(q), q[j] = q[k]
      PROVE  j = k
  <2>0. j \in Int /\ k \in Int /\ q[j].item = q[k].item
    BY <1>0, <1>2, <1>6
  <2>1. CASE j \in 1 .. Len(p) /\ k \in 1 .. Len(p)
    BY <1>4, <1>6, <2>1 DEF Ordered
  <2>2. CASE j > Len(p) /\ k > Len(p)
    <3>1. [item |-> it, step |-> j - Len(p)] = [item |-> it, step |-> k - Len(p)]
      BY <1>3, <1>6, <2>2
    <3>2. j - Len(p) = k - Len(p)
      BY <3>1
    <3> QED BY <1>0, <2>0, <3>2
  <2>3. ~(j \in 1 .. Len(p) /\ k > Len(p)) /\ ~(k \in 1 .. Len(p) /\ j > Len(p))
    <3>1. ASSUME NEW a \in 1 .. Len(q), NEW b \in 1 .. Len(q),
                 a \in 1 .. Len(p), b > Len(p), q[a].item = q[b].item
          PROVE  FALSE
      <4>1. q[a].item < it /\ q[b].item = it
        BY <1>0, <1>5, <3>1
      <4> QED BY <1>0, <3>1, <4>1
    <3> QED BY <2>0, <3>1
  <2> QED BY <1>5, <2>1, <2>2, <2>3
<1>7. \A j \in 1 .. Len(q) : q[j].item \in Int
  <2> SUFFICES ASSUME NEW j \in 1 .. Len(q) PROVE q[j].item \in Int
    OBVIOUS
  <2>1. q[j] \in WorkSet
    BY <1>2
  <2> QED BY <2>1, BoundsAssumption DEF WorkSet, Items
<1> QED
  BY <1>0, <1>2, <1>4, <1>5, <1>6, <1>7 DEF Grown

\* Steps that read or write nothing and plan nothing: the run moves on, or
\* ends with a code other than 0.
LEMMA QuietStep ==
  ASSUME IInv,
         UNCHANGED <<args, item, plan, pos, planAt, fate, failed, landed, flying>>,
         pc # "ended", pc' = "ended", exit' \in ExitCodes \ {Running, 0},
         agreed' = agreed
  PROVE  IInv'
  BY DEF IInv, TypeOK, SettledInv, PlanInv, PathInv, ItemInv, ExitZeroMeansDone, Count

LEMMA EscapeStep ==
  ASSUME NEW raised, Escape(raised)
  PROVE  pc' = "ended" /\ exit' \in ExitCodes \ {Running, 0}
  BY DEF Escape, End, ExitCode, ExitCodes, Running, Interrupted

LEMMA NextIInv == IInv /\ [Next]_vars => IInv'
<1> SUFFICES ASSUME IInv, [Next]_vars PROVE IInv'
  OBVIOUS
<1>0. /\ TypeOK /\ SettledInv /\ PlanInv /\ PathInv /\ ItemInv /\ ExitZeroMeansDone
      /\ Count \in Nat /\ Count <= MaxTyped + MaxLines
      /\ 0 \in ExitCodes \ {Running} /\ Running \in ExitCodes
      /\ \A c \in {1, 2, 3, Interrupted} : c \in ExitCodes \ {Running, 0}
      /\ Unplanned = -1 /\ \A i \in Nat : i # Unplanned
      /\ item \in Nat
  BY BoundsAssumption
  DEF IInv, Count, TypeOK, ArgSet, ExitCodes, Running, Interrupted, Unplanned
<1>a. ASSUME item <= Count PROVE item \in Items
  BY <1>0, <1>a, BoundsAssumption DEF Items, TypeOK
<1>b. \A j \in 1 .. Len(plan) : plan[j].item \in Int
  <2> SUFFICES ASSUME NEW j \in 1 .. Len(plan) PROVE plan[j].item \in Int
    OBVIOUS
  <2>1. plan[j] \in WorkSet
    BY <1>0 DEF TypeOK
  <2> QED BY <2>1, BoundsAssumption DEF WorkSet, Items
<1>1. CASE Prepare
  <2>1. TypeOK' BY <1>0, <1>1 DEF Prepare, TypeOK
  <2>2. SettledInv' /\ PlanInv'
    BY <1>0, <1>1 DEF Prepare, TypeOK, SettledInv, PlanInv, PathInv
  <2>3. PathInv' /\ ItemInv' /\ ExitZeroMeansDone'
    BY <1>0, <1>1
    DEF Prepare, TypeOK, PathInv, ItemInv, ExitZeroMeansDone, Count
  <2> QED BY <2>1, <2>2, <2>3 DEF IInv
<1>2. ASSUME NEW raised \in Raised,
             PrepareFails(raised) \/ PlanFails(raised) \/ WorkFails(raised)
      PROVE  IInv'
  BY <1>2, EscapeStep, QuietStep DEF PrepareFails, PlanFails, WorkFails
<1>3. ASSUME NEW n \in 0 .. MaxWorks, PlanOne(n) PROVE IInv'
  <2>1. /\ pc = "plan" /\ item <= Count /\ item \in Items
        /\ plan' = plan \o Works(item, n)
        /\ planAt' = [planAt EXCEPT ![item] = pos - 1] /\ item' = item + 1
        /\ UNCHANGED <<args, pc, pos, agreed, fate, failed, landed, flying, exit>>
        /\ pos = 1 /\ ~args.stdin
    BY <1>0, <1>3, <1>a DEF PlanOne, PathInv
  <2>2. Grown(plan, item, n, plan')
    <3>1. plan \in Seq(WorkSet) /\ Ordered(plan, item)
      BY <1>0, <2>1 DEF TypeOK, PlanInv, Ordered
    <3>2. \A q : q = plan \o Works(item, n) => Grown(plan, item, n, q)
      BY <2>1, <3>1, PlanGrows, Zenon
    <3> QED BY <2>1, <3>2, Zenon
  <2>3. TypeOK'
    <3>1. plan' \in Seq(WorkSet) /\ Len(plan') = Len(plan) + n /\ n \in Nat
      BY <2>2 DEF Grown
    <3> QED BY <1>0, <2>1, <3>1, BoundsAssumption DEF TypeOK
  <2>4. SettledInv'
    BY <1>0, <2>1 DEF SettledInv
  <2>5. PlanInv'
    <3>1. /\ \A j \in 1 .. Len(plan') : plan'[j].item <= item /\ plan'[j].item \in Int
          /\ \A j, k \in 1 .. Len(plan') : plan'[j] = plan'[k] => j = k
      BY <1>0, <2>2 DEF Grown
    <3>2. \A j \in 1 .. Len(plan') : plan'[j].item < item + 1 /\ plan'[j].item <= item + 1
      BY <1>0, <3>1
    <3> QED BY <2>1, <3>1, <3>2 DEF PlanInv
  <2>6. PathInv'
    BY <1>0, <2>1 DEF PathInv, TypeOK, Count
  <2>7. ItemInv'
    <3>1. \A i \in Items : i < item + 1 => planAt'[i] # Unplanned \/ fate[i] = "failed"
      <4>1. \A i \in Items : planAt'[i] = IF i = item THEN 0 ELSE planAt[i]
        BY <1>0, <2>1 DEF TypeOK
      <4>2. \A i \in Items : i < item + 1 => i < item \/ i = item
        BY <1>0 DEF Items
      <4> QED BY <1>0, <4>1, <4>2 DEF ItemInv
    <3>2. \A i \in Items : fate[i] = "failed" =>
             \A j \in 1 .. Len(plan') : plan'[j].item # i
      BY <1>0, <2>1, <2>2 DEF ItemInv, TypeOK, Items, Grown
    <3> QED BY <1>0, <2>1, <3>1, <3>2 DEF ItemInv, TypeOK, Items
  <2>8. ExitZeroMeansDone'
    BY <1>0, <2>1 DEF ExitZeroMeansDone, ItemInv, Running
  <2> QED BY <2>3, <2>4, <2>5, <2>6, <2>7, <2>8 DEF IInv
<1>4. ASSUME NEW n \in 0 .. MaxWorks, NextItem(n) PROVE IInv'
  <2>1. /\ pc = "next" /\ item <= Count /\ item \in Items /\ args.stdin
        /\ plan' = plan \o Works(item, n) /\ pc' = "do"
        /\ planAt' = [planAt EXCEPT ![item] = pos - 1]
        /\ fate' = [fate EXCEPT ![item] = "doing"]
        /\ UNCHANGED <<args, item, pos, agreed, failed, landed, flying, exit>>
        /\ pos = Len(plan) + 1 /\ args.mode # "INTERACTIVE"
    BY <1>0, <1>4, <1>a DEF NextItem, PathInv
  <2>2. Grown(plan, item, n, plan')
    <3>1. plan \in Seq(WorkSet) /\ Ordered(plan, item)
      BY <1>0, <2>1 DEF TypeOK, PlanInv, Ordered
    <3>2. \A q : q = plan \o Works(item, n) => Grown(plan, item, n, q)
      BY <2>1, <3>1, PlanGrows, Zenon
    <3> QED BY <2>1, <3>2, Zenon
  <2>3. TypeOK'
    <3>1. plan' \in Seq(WorkSet) /\ Len(plan') = Len(plan) + n /\ n \in Nat
      BY <2>2 DEF Grown
    <3> QED BY <1>0, <2>1, <3>1, BoundsAssumption DEF TypeOK
  <2>4. SettledInv'
    BY <1>0, <2>1, <2>2 DEF SettledInv, TypeOK
  <2>5. PlanInv'
    <3>1. /\ \A j \in 1 .. Len(plan') : plan'[j].item <= item /\ plan'[j].item \in Int
          /\ \A j, k \in 1 .. Len(plan') : plan'[j] = plan'[k] => j = k
      BY <1>0, <2>2 DEF Grown
    <3>2. \A j \in 1 .. Len(plan') : plan'[j].item < item + 1 /\ plan'[j].item <= item + 1
      BY <1>0, <3>1
    <3> QED BY <2>1, <3>1, <3>2 DEF PlanInv
  <2>6. PathInv'
    BY <1>0, <2>1 DEF PathInv, TypeOK
  <2>7. ItemInv'
    <3>1. \A i \in Items : i # item => planAt'[i] = planAt[i] /\ fate'[i] = fate[i]
      BY <1>0, <2>1 DEF TypeOK
    <3>2. planAt'[item] # Unplanned /\ fate'[item] = "doing"
      BY <1>0, <2>1 DEF TypeOK
    <3>3. \A i \in Items : fate'[i] = "failed" =>
             \A j \in 1 .. Len(plan') : plan'[j].item # i
      BY <1>0, <2>1, <2>2, <3>1, <3>2 DEF ItemInv, TypeOK, Items, Grown
    <3> QED BY <1>0, <2>1, <3>1, <3>2, <3>3 DEF ItemInv, TypeOK, Items, Count
  <2>8. ExitZeroMeansDone'
    BY <1>0, <2>1 DEF ExitZeroMeansDone, ItemInv, Running
  <2> QED BY <2>3, <2>4, <2>5, <2>6, <2>7, <2>8 DEF IInv
<1>5. CASE Planned
  <2>1. ExitZeroMeansDone'
    <3> SUFFICES ASSUME exit' = 0
                 PROVE  /\ \A i \in 1 .. Count : planAt[i] # Unplanned
                        /\ \A j \in 1 .. Len(plan) : plan[j] \in landed
      BY <1>5 DEF Planned, ExitZeroMeansDone, Count
    <3>1. pc = "plan" /\ item > Count /\ ~args.stdin /\ exit = Running
      BY <1>0, <1>5 DEF Planned, PathInv, ItemInv
    <3>2. plan = << >>
      BY <1>5, <3>1 DEF Planned, Running
    <3>3. Count \in Nat /\ 1 .. Count \subseteq Items /\ item \in Nat
      BY <1>0, BoundsAssumption DEF Count, Items, TypeOK, ArgSet
    <3>4. \A i \in 1 .. Count : i < item /\ fate[i] # "failed"
      BY <1>0, <3>1, <3>3 DEF ItemInv
    <3> QED BY <1>0, <3>2, <3>3, <3>4 DEF ItemInv
  <2>2. TypeOK' /\ SettledInv' /\ PlanInv' /\ ItemInv'
    BY <1>0, <1>5 DEF Planned, End, TypeOK, SettledInv, PlanInv, PathInv, ItemInv
  <2>3. PathInv'
    BY <1>0, <1>5 DEF Planned, End, TypeOK, PathInv, Count
  <2> QED BY <2>1, <2>2, <2>3 DEF IInv
<1>6. ASSUME NEW reply \in Answers, Ask(reply) PROVE IInv'
  <2>1. CASE reply = "yes"
    <3>1. pc' = "do" /\ exit' = exit /\ agreed' = plan
      BY <1>6, <2>1 DEF Ask, Proceed
    <3> QED
      BY <1>0, <1>6, <2>1, <3>1
      DEF Ask, IInv, TypeOK, SettledInv, PlanInv, PathInv, ItemInv, ExitZeroMeansDone, Count
  <2>2. CASE reply = "something else"
    BY <1>0, <1>6, <2>2
    DEF Ask, IInv, TypeOK, SettledInv, PlanInv, PathInv, ItemInv, ExitZeroMeansDone, Count
  <2>3. CASE reply \in {"interrupt", "end of file"}
    BY <1>0, <1>6, <2>3, QuietStep DEF Ask, End
  <2> QED BY <1>6, <2>1, <2>2, <2>3 DEF Answers
<1>7. CASE DoNotAsk
  <2>1. CASE Proceed /\ args.mode = "YES"
    BY <1>0, <1>7, <2>1
    DEF DoNotAsk, Proceed, IInv, TypeOK, SettledInv, PlanInv, PathInv, ItemInv,
        ExitZeroMeansDone, Count
  <2>2. CASE End(2) \/ End(3)
    BY <1>0, <1>7, <2>2, QuietStep DEF DoNotAsk, End
  <2> QED BY <1>7, <2>1, <2>2 DEF DoNotAsk
<1>8. ASSUME NEW outcome \in Outcomes, Write(outcome) PROVE IInv'
  <2>1. /\ pc = "do" /\ pos \in 1 .. Len(plan) /\ pos' = pos + 1 /\ flying = {}
        /\ \A j \in 1 .. (pos - 1) : plan[j] \in landed
        /\ plan[pos] \in WorkSet /\ exit = Running
        /\ UNCHANGED <<args, item, plan, agreed, planAt, fate, failed>>
    BY <1>0, <1>8 DEF Write, TypeOK, SettledInv, ItemInv
  <2>2. \/ /\ outcome = "done" /\ pc' = pc /\ exit' = exit
           /\ landed' = landed \cup {plan[pos]} /\ flying' = {}
        \/ /\ outcome # "done" /\ pc' = "ended" /\ exit' \in ExitCodes \ {Running, 0}
           /\ landed' = landed /\ flying' \subseteq {plan[pos]}
    BY <1>0, <1>8, <2>1, EscapeStep DEF Write, Current, End, Outcomes
  <2>3. TypeOK'
    BY <1>0, <2>1, <2>2 DEF TypeOK
  <2>4. SettledInv'
    BY <1>0, <2>1, <2>2 DEF SettledInv, TypeOK
  <2>5. PlanInv' /\ ItemInv'
    BY <1>0, <2>1, <2>2 DEF PlanInv, ItemInv, Count
  <2>6. PathInv'
    BY <1>0, <2>1, <2>2 DEF PathInv, TypeOK, Count
  <2>7. ExitZeroMeansDone'
    BY <1>0, <2>1, <2>2 DEF ExitZeroMeansDone, Running
  <2> QED BY <2>3, <2>4, <2>5, <2>6, <2>7 DEF IInv
<1>9. CASE AllDone
  <2>1. ExitZeroMeansDone'
    <3>1. /\ pc = "do" /\ ~args.stdin /\ pos = Len(plan) + 1 /\ item > Count
          /\ UNCHANGED <<args, item, plan, pos, planAt, fate, failed, landed>>
      BY <1>0, <1>9 DEF AllDone, TypeOK, PathInv
    <3>2. \A j \in 1 .. Len(plan) : plan[j] \in landed
      BY <1>0, <3>1 DEF SettledInv, TypeOK
    <3>3. \A i \in 1 .. Count : planAt[i] # Unplanned
      <4> SUFFICES ASSUME NEW i \in 1 .. Count PROVE planAt[i] # Unplanned
        OBVIOUS
      <4>1. i \in Items /\ i < item
        BY <1>0, <3>1, BoundsAssumption DEF Items, TypeOK
      <4>2. fate[i] # "failed"
        BY <1>0, <3>1, <4>1 DEF ItemInv
      <4> QED BY <1>0, <4>1, <4>2 DEF ItemInv
    <3> QED BY <3>1, <3>2, <3>3 DEF ExitZeroMeansDone, Count
  <2>2. TypeOK' /\ SettledInv' /\ PlanInv' /\ ItemInv' /\ PathInv'
    BY <1>0, <1>9
    DEF AllDone, End, TypeOK, SettledInv, PlanInv, PathInv, ItemInv, Count, Running
  <2> QED BY <2>1, <2>2 DEF IInv
<1>10. ASSUME NEW raised \in Raised, ItemFails(raised) PROVE IInv'
  <2>0. /\ pc = "next" /\ item <= Count /\ item \in Items /\ args.stdin
        /\ UNCHANGED <<args, plan, pos, agreed, planAt, landed, flying>>
        /\ \A j \in 1 .. Len(plan) : plan[j].item < item
        /\ exit = Running
    BY <1>0, <1>10, <1>a DEF ItemFails, PathInv, PlanInv, ItemInv
  <2>1. CASE raised = "StateError" /\ args.keepGoing
    <3>1. /\ fate' = [fate EXCEPT ![item] = "failed"] /\ failed' = failed + 1
          /\ item' = item + 1 /\ UNCHANGED <<pc, exit>>
      BY <1>10, <2>1 DEF ItemFails
    <3>2. TypeOK'
      BY <1>0, <2>0, <3>1, BoundsAssumption DEF TypeOK
    <3>3. SettledInv' /\ PathInv'
      BY <1>0, <2>0, <3>1 DEF SettledInv, PathInv
    <3>4. PlanInv'
      BY <1>0, <1>b, <2>0, <3>1 DEF PlanInv, TypeOK
    <3>5. ItemInv'
      <4>1. \A i \in Items : fate'[i] = IF i = item THEN "failed" ELSE fate[i]
        BY <1>0, <3>1 DEF TypeOK
      <4>2. \A j \in 1 .. Len(plan) : plan[j].item # item
        BY <1>0, <1>b, <2>0 DEF TypeOK
      <4> QED BY <1>0, <2>0, <3>1, <4>1, <4>2 DEF ItemInv, TypeOK, Items
    <3>6. ExitZeroMeansDone'
      BY <2>0, <3>1 DEF ExitZeroMeansDone, Running
    <3> QED BY <3>2, <3>3, <3>4, <3>5, <3>6 DEF IInv
  <2>2. CASE ~(raised = "StateError" /\ args.keepGoing)
    BY <1>10, <2>0, <2>2, EscapeStep, QuietStep DEF ItemFails
  <2> QED BY <2>1, <2>2
<1>11. CASE ItemDone
  <2>0. /\ pc = "do" /\ args.stdin /\ pos = Len(plan) + 1 /\ item \in Items
        /\ item <= Count /\ planAt[item] # Unplanned
        /\ fate' = [fate EXCEPT ![item] = "done"] /\ item' = item + 1 /\ pc' = "next"
        /\ UNCHANGED <<args, plan, pos, agreed, planAt, failed, landed, flying, exit>>
    <3>1. /\ pc = "do" /\ args.stdin /\ pos > Len(plan)
          /\ fate' = [fate EXCEPT ![item] = "done"] /\ item' = item + 1 /\ pc' = "next"
          /\ UNCHANGED <<args, plan, pos, agreed, planAt, failed, landed, flying, exit>>
      BY <1>11 DEF ItemDone
    <3>2. item <= Count /\ planAt[item] # Unplanned
      BY <1>0, <3>1 DEF ItemInv
    <3>3. pos = Len(plan) + 1
      BY <1>0, <3>1 DEF TypeOK
    <3> QED BY <1>a, <3>1, <3>2, <3>3
  <2>1. TypeOK'
    BY <1>0, <2>0, BoundsAssumption DEF TypeOK
  <2>2. SettledInv' /\ PathInv'
    BY <1>0, <2>0 DEF SettledInv, PathInv
  <2>3. PlanInv'
    <3>1. item \in Int /\ item' = item + 1 /\ plan' = plan
      BY <1>0, <2>0
    <3>2. \A j \in 1 .. Len(plan) : plan[j].item <= item /\ plan[j].item < item'
      BY <1>0, <1>b, <3>1 DEF PlanInv
    <3>3. \A j \in 1 .. Len(plan') : plan'[j].item <= item' /\ plan'[j].item < item'
      BY <1>b, <3>1, <3>2
    <3>4. \A j, k \in 1 .. Len(plan') : plan'[j] = plan'[k] => j = k
      BY <1>0, <3>1 DEF PlanInv
    <3> QED BY <3>3, <3>4 DEF PlanInv
  <2>4. ItemInv'
    <3>1. \A i \in Items : fate'[i] = IF i = item THEN "done" ELSE fate[i]
      BY <1>0, <2>0 DEF TypeOK
    <3> QED BY <1>0, <2>0, <3>1 DEF ItemInv, TypeOK, Items
  <2>5. ExitZeroMeansDone'
    BY <1>0, <2>0 DEF ExitZeroMeansDone, ItemInv, Running
  <2> QED BY <2>1, <2>2, <2>3, <2>4, <2>5 DEF IInv
<1>12. CASE EndOfStream
  <2>1. CASE failed > 0
    BY <1>0, <1>12, <2>1, QuietStep DEF EndOfStream, End
  <2>2. CASE failed = 0
    <3>0. /\ pc = "next" /\ item > Count /\ pos = Len(plan) + 1
          /\ pc' = "ended" /\ exit' = 0
          /\ UNCHANGED <<args, item, plan, pos, agreed, planAt, fate, failed,
                         landed, flying>>
      BY <1>0, <1>12, <2>2 DEF EndOfStream, End, PathInv
    <3>1. ExitZeroMeansDone'
      <4>1. \A j \in 1 .. Len(plan) : plan[j] \in landed
        BY <1>0, <3>0 DEF SettledInv, TypeOK
      <4>2. ASSUME NEW i \in 1 .. Count PROVE planAt[i] # Unplanned
        <5>1. i \in Items /\ i < item
          BY <1>0, <3>0, BoundsAssumption DEF Items, TypeOK
        <5>2. fate[i] # "failed"
          BY <1>0, <2>2, <5>1 DEF ItemInv
        <5> QED BY <1>0, <5>1, <5>2 DEF ItemInv
      <4> QED BY <3>0, <4>1, <4>2 DEF ExitZeroMeansDone, Count
    <3>2. TypeOK' /\ SettledInv' /\ PlanInv' /\ PathInv' /\ ItemInv'
      BY <1>0, <3>0
      DEF TypeOK, SettledInv, PlanInv, PathInv, ItemInv, Count, Running
    <3> QED BY <3>1, <3>2 DEF IInv
  <2> QED BY <1>0, <2>1, <2>2 DEF TypeOK
<1>13. CASE Interrupt
  BY <1>0, <1>13, QuietStep DEF Interrupt, End
<1>14. ASSUME NEW w \in flying, LandLate(w) \/ Vanish(w) PROVE IInv'
  <2>1. /\ flying' = flying \ {w}
        /\ landed' = landed \cup {w} \/ landed' = landed
        /\ UNCHANGED <<args, pc, item, plan, pos, agreed, planAt, fate, failed, exit>>
    BY <1>14 DEF LandLate, Vanish
  <2>2. SettledInv'
    BY <1>0, <1>14, <2>1 DEF SettledInv
  <2>3. TypeOK'
    BY <1>0, <1>14, <2>1 DEF TypeOK
  <2>4. PlanInv' /\ PathInv' /\ ItemInv' /\ ExitZeroMeansDone'
    BY <1>0, <1>14, <2>1 DEF PlanInv, PathInv, ItemInv, ExitZeroMeansDone, Count
  <2> QED BY <2>2, <2>3, <2>4 DEF IInv
<1>15. CASE UNCHANGED vars
  BY <1>0, <1>15
  DEF vars, IInv, TypeOK, SettledInv, PlanInv, PathInv, ItemInv, ExitZeroMeansDone, Count
<1> QED
  BY <1>1, <1>2, <1>3, <1>4, <1>5, <1>6, <1>7, <1>8, <1>9, <1>10, <1>11, <1>12,
     <1>13, <1>14, <1>15
  DEF Next, Program

\* Reached are only states of the inductive invariant.
THEOREM Invariance == Spec => []IInv
  BY InitIInv, NextIInv, PTL DEF Spec

\* Every variable of a run keeps its type.
THEOREM TypeCorrect == Spec => []TypeOK
  BY Invariance, PTL DEF IInv

\* Interactively nothing is written but the listing the user said yes to.
THEOREM Consent == Spec => []ConsentCovers
  BY Invariance, PTL DEF IInv, PathInv, ConsentCovers

\* Without stdin, every read of plan() precedes every write, and a run that
\* fails while planning has changed nothing.
THEOREM PlanningIsFree == Spec => []BatchPlansFirst
<1>1. IInv => BatchPlansFirst
  <2> SUFFICES ASSUME IInv, ~args.stdin, item <= Count
               PROVE  landed = {} /\ flying = {}
    BY DEF IInv, PathInv, BatchPlansFirst
  <2>1. pos = 1
    BY DEF IInv, PathInv
  <2> QED BY <2>1 DEF IInv, SettledInv
<1> QED BY <1>1, Invariance, PTL

\* All that was sent before the last write has been performed, and nothing
\* that was not sent.
THEOREM OneWriteInDoubt == Spec => []OnlyLastInDoubt
<1>1. IInv => OnlyLastInDoubt
  <2> SUFFICES ASSUME IInv, NEW j \in pos .. Len(plan)
               PROVE  plan[j] \notin landed \cup flying
    BY DEF IInv, SettledInv, OnlyLastInDoubt
  <2>1. \A k \in 1 .. (pos - 1) : plan[k] # plan[j]
    BY DEF IInv, PlanInv, TypeOK
  <2> QED BY <2>1 DEF IInv, SettledInv
<1> QED BY <1>1, Invariance, PTL

\* plan_one() reads NetBox only when no write of the run is in doubt.
THEOREM PlansOnSettledState == Spec => NoPlanOverDoubt
<1>1. ASSUME IInv, [Next]_vars, planAt' # planAt
      PROVE  flying = {} /\ \A j \in 1 .. (pos - 1) : plan[j] \in landed
  <2>1. pc # "ended"
    BY <1>1 DEF Next, Program, vars, Prepare, PrepareFails, PlanOne, PlanFails, Planned,
       Ask, DoNotAsk, Write, WorkFails, AllDone, NextItem, ItemFails, ItemDone,
       EndOfStream, Interrupt, LandLate, Vanish
  <2> QED BY <1>1, <2>1 DEF IInv, SettledInv
<1> QED BY <1>1, Invariance, PTL DEF Spec, NoPlanOverDoubt

\* What --keep-going reports as failed has written nothing.
THEOREM FailedItemsAreClean == Spec => []FailedItemsWroteNothing
  BY Invariance, PTL DEF IInv, ItemInv, FailedItemsWroteNothing

\* Exit code 0: every value was planned and every work was performed.
THEOREM ExitZero == Spec => []ExitZeroMeansDone
  BY Invariance, PTL DEF IInv
=============================================================================
