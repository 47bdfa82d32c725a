----------------------------- MODULE HttpRetry -----------------------------
(***************************************************************************)
(* The life of one NetBox API call, from the pynetbox method down to the   *)
(* wire: the urllib3 Retry and the timeout that netbox._retrying_adapter() *)
(* mounts on the session, and netbox.translated_errors() above it.         *)
(*                                                                         *)
(* urllib3's part (Retry.increment and Retry.is_retry) is external: it is  *)
(* modelled for exactly the arguments _retrying_adapter() passes.  Backoff *)
(* sleeps, Retry-After and logging change no state and are left out, and a *)
(* call that pynetbox pages over several requests is one call per page.    *)
(*                                                                         *)
(* Every attempt that reaches the wire is a copy of the request with a     *)
(* life of its own: the proxy may answer for it, or the client may give up *)
(* on it, while NetBox is still working on it.                             *)
(***************************************************************************)
EXTENDS Integers, FiniteSets

CONSTANTS
    Methods,        \* every HTTP method pynetbox uses
    RETRY_METHODS,  \* RETRY_METHODS of netbox.py: the ones that only read
    Retries,        \* api_retries; DEFAULT_RETRIES when the INI has none
    Timeout,        \* api_timeout, for both the connect and the read half
    NoTimeout       \* Python's None: wait forever

ASSUME RetriesAssumption == Retries \in Nat         \* config._parse_retries
ASSUME MethodsAssumption == RETRY_METHODS \subseteq Methods

\* Statuses as the code tells them apart: a 2xx; the 408/502/503/504 of the
\* proxy, which says nothing about what NetBox did or will do; the 429 of the
\* rate limiter, before NetBox saw anything; NetBox's own 4xx or 500.
STATUSES == {"2xx", "proxy", "429", "4xx/500"}
RETRY_STATUSES == {"proxy", "429"}

VARIABLES
    method,     \* method of the call
    phase,      \* "connecting", "waiting" or "answered"
    left,       \* the Retry object: what is left of each budget
    cur,        \* number of the current attempt
    copy,       \* copy[i]: what became of attempt i at NetBox
    last,       \* the last thing the client learned about an attempt
    answer      \* "pending", "ok" or "ApiError"

callVars == <<method, phase, left, cur, copy, last, answer>>

Budgets == {"total", "connect", "read", "status"}
CopyStates == {"unsent", "flying", "landed", "refused"}
Attempts == 1 .. (Retries + 1)

CallTypeOK ==
    /\ method \in Methods
    /\ phase \in {"connecting", "waiting", "answered"}
    /\ left \in [Budgets -> Int]
    /\ cur \in Attempts
    /\ copy \in [Attempts -> CopyStates]
    /\ last \in STATUSES \cup {"none", "unreachable", "reset"}
    /\ answer \in {"pending", "ok", "ApiError"}

\* Mutant: one retry too few when no connection is made.
RetryShort == [b \in Budgets |-> IF b = "connect" THEN Retries - 1 ELSE Retries]

\* The Retry object of _retrying_adapter(): what each kind of failure may cost.
Retry == [b \in Budgets |-> Retries]

CallInit ==
    /\ method \in Methods
    /\ phase = "connecting"
    /\ left = Retry
    /\ cur = 1
    /\ copy = [i \in Attempts |-> "unsent"]
    /\ last = "none"
    /\ answer = "pending"

-----------------------------------------------------------------------------
\* Mutant: a timeout that was not asked for is not filled in.
SendTimeoutAsAsked(asked) == asked

\* TimeoutAdapter.send: pynetbox passes no timeout, the adapter fills it in.
SendTimeout(asked) == IF asked = NoTimeout THEN Timeout ELSE asked
GivesUp == SendTimeout(NoTimeout) # NoTimeout

\* The call is over; translated_errors() turns any failure into an ApiError.
Answer(a) ==
    /\ phase' = "answered"
    /\ answer' = a
    /\ UNCHANGED <<left, cur>>

Exhausted(budget) == \E b \in Budgets : budget[b] < 0

\* Retry.increment: the total and the budget of this kind of failure go down
\* by one, and the call is over once one of them is used up.
Increment(kind) ==
    LET spent == [left EXCEPT !["total"] = @ - 1, ![kind] = @ - 1]
    IN  IF Exhausted(spent)
        THEN Answer("ApiError")
        ELSE /\ left' = spent
             /\ cur' = cur + 1
             /\ phase' = "connecting"
             /\ UNCHANGED answer

-----------------------------------------------------------------------------
\* The client.

Connect ==
    /\ phase = "connecting"
    /\ phase' = "waiting"
    /\ copy' = [copy EXCEPT ![cur] = "flying"]
    /\ UNCHANGED <<method, left, cur, last, answer>>

\* No connection: refused, or the connect timeout fired.  urllib3 does not
\* look at the method here, the request never having been sent.
NoConnection ==
    /\ phase = "connecting"
    /\ last' = "unreachable"
    /\ Increment("connect")
    /\ UNCHANGED <<method, copy>>

ConnectTimeout == GivesUp /\ NoConnection
ConnectRefused == NoConnection

\* Mutant: every method is tried again after a broken connection.
NoAnswerAnyMethod ==
    /\ phase = "waiting"
    /\ last' = "reset"
    /\ Increment("read")
    /\ UNCHANGED <<method, copy>>

\* The connection broke, or the read timeout fired, before an answer came.
NoAnswer ==
    /\ phase = "waiting"
    /\ last' = "reset"
    /\ IF method \in RETRY_METHODS THEN Increment("read") ELSE Answer("ApiError")
    /\ UNCHANGED <<method, copy>>

ReadTimeout == GivesUp /\ NoAnswer
ConnectionReset == NoAnswer

\* Mutant: allowed_methods is left at "any".
IsRetryAnyMethod(status) == status \in RETRY_STATUSES

\* Retry.is_retry
IsRetry(status) == method \in RETRY_METHODS /\ status \in RETRY_STATUSES

\* What NetBox may have done with a copy that was answered with this status.
CopyMayBe(status) ==
    CASE status = "2xx"     -> {"landed"}
      [] status = "4xx/500" -> {"refused"}
      [] status = "429"     -> {"refused"}
      [] OTHER              -> {"flying", "landed", "refused"}

\* raise_on_status=False: out of tries, the last response is handed back, and
\* pynetbox raises its RequestError for it like for any other failure.
Answered(status) ==
    /\ phase = "waiting"
    /\ copy[cur] \in CopyMayBe(status)
    /\ last' = status
    /\ IF IsRetry(status)
       THEN Increment("status")
       ELSE Answer(IF status = "2xx" THEN "ok" ELSE "ApiError")
    /\ UNCHANGED <<method, copy>>

-----------------------------------------------------------------------------
\* NetBox and the network before it.

\* A copy is executed -- also when the client has long given up on it.
Land(i) ==
    /\ copy[i] = "flying"
    /\ copy' = [copy EXCEPT ![i] = "landed"]
    /\ UNCHANGED <<method, phase, left, cur, last, answer>>

\* A copy is refused, or lost on the way.
Refuse(i) ==
    /\ copy[i] = "flying"
    /\ copy' = [copy EXCEPT ![i] = "refused"]
    /\ UNCHANGED <<method, phase, left, cur, last, answer>>

CallNext ==
    \/ Connect
    \/ ConnectTimeout
    \/ ConnectRefused
    \/ ReadTimeout
    \/ ConnectionReset
    \/ \E status \in STATUSES : Answered(status)
    \/ \E i \in Attempts : Land(i) \/ Refuse(i)

CallSpec == CallInit /\ [][CallNext]_callVars

\* The only thing that is certain to happen is that the timers run out.
CallFairSpec == CallSpec /\ WF_callVars(ConnectTimeout) /\ WF_callVars(ReadTimeout)

-----------------------------------------------------------------------------
\* Properties.

Writes == Methods \ RETRY_METHODS
Sent == {i \in Attempts : copy[i] # "unsent"}
Landed == {i \in Attempts : copy[i] = "landed"}

\* A write reaches the wire at most once, however the attempts before and
\* after it fail: what RETRY_METHODS is spelled out for (netbox.py:37-42).
WriteSentOnce ==
    method \in Writes => \A i, j \in Sent : i = j

\* A call that is reported as done was executed by NetBox, and it is the
\* attempt the answer belongs to that was; an error says nothing either way.
OkMeansLanded ==
    answer = "ok" => cur \in Landed

\* A read is given up on only when every try that api_retries allows is used,
\* or when the last answer was one that trying again cannot change.
ReadTriesAll ==
    answer = "ApiError" /\ method \in RETRY_METHODS =>
        cur = Retries + 1 \/ last = "4xx/500"

\* No call hangs: there is always an answer in the end, NetBox answering or
\* not.  This is what TimeoutAdapter exists for (netbox.py:27-33).
CallEnds == <>(answer # "pending")

\* The rest of nbtools sees the call as ApiCall has it: a copy that NetBox
\* executes is the moment the call takes effect.
applied == IF method \in Writes THEN Cardinality(Landed) ELSE 0
Call == INSTANCE ApiCall
            WITH READ_METHODS <- RETRY_METHODS, WRITE_METHODS <- Writes

\* A session call implements ApiCall: at most one effect, never none behind
\* an "ok", whatever the retries, the proxy and the timers do.
ImplementsApiCall == Call!Spec
=============================================================================
