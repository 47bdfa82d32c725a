------------------------------ MODULE SyncRun ------------------------------
(***************************************************************************)
(* One invocation of nbsync: command.SyncCommand.run() with its two paths, *)
(* and the exit codes of sync.main().                                      *)
(*                                                                         *)
(*   batch      plan every item, list the work, confirm, do the work       *)
(*   streaming  confirm, then plan and do one item of stdin after another  *)
(*                                                                         *)
(* The subcommand is abstract: planning an item reads NetBox and yields    *)
(* some number of FutureWork items, or raises.  Each of those is one API   *)
(* write, and what a write may come to is what ApiCall allows: it is done; *)
(* it is refused; or its answer is lost and it lands later, or never.      *)
(* Works that only exist for the listing (DummyWork) are not counted.      *)
(***************************************************************************)
EXTENDS Integers, Sequences

CONSTANTS
    MaxTyped,   \* bound: values typed on the command line
    MaxLines,   \* bound: lines on stdin
    MaxWorks    \* bound: FutureWork items one value is planned into

ASSUME BoundsAssumption ==
    MaxTyped \in Nat /\ MaxLines \in Nat /\ MaxWorks \in Nat

\* What may be raised: a StateError; what pynetbox or requests raise, which
\* only sync.main() turns into a StateError; or any other exception, such as
\* the AttributeError of a lookup that returned None.
Raised == {"StateError", "RequestError", "other"}

Running == -1       \* no exit code yet
Interrupted == 130  \* the shell's code for a process ended by SIGINT
ExitCodes == {Running, 0, 1, 2, 3, Interrupted}

Items == 1 .. (MaxTyped + MaxLines)
WorkSet == [item : Items, step : 1 .. MaxWorks]
Unplanned == -1

VARIABLES
    args,       \* the command line
    pc,         \* where run() is
    item,       \* the next value to plan (or, streaming, the one being done)
    plan,       \* every work planned so far, in the order it is to be done
    pos,        \* index in plan of the next work to do
    agreed,     \* the listing the user said yes to
    planAt,     \* planAt[i]: how many writes preceded the reads of item i
    fate,       \* what became of each item of a stream
    failed,     \* how many items of the stream failed
    landed,     \* the works NetBox has performed
    flying,     \* works given up on that NetBox may still perform
    exit        \* exit code of nbsync

vars == <<args, pc, item, plan, pos, agreed, planAt, fate, failed,
          landed, flying, exit>>

ArgSet ==
    [mode : {"INTERACTIVE", "YES", "NO"}, stdin : BOOLEAN, keepGoing : BOOLEAN,
     typed : 0 .. MaxTyped, lines : 0 .. MaxLines]

Count == args.typed + args.lines

TypeOK ==
    /\ args \in ArgSet
    /\ pc \in {"prepare", "plan", "confirm", "do", "next", "ended"}
    /\ item \in 1 .. (MaxTyped + MaxLines + 1)
    /\ plan \in Seq(WorkSet)
    /\ pos \in 1 .. (Len(plan) + 1)
    /\ agreed \in Seq(WorkSet)
    /\ planAt \in [Items -> Nat \cup {Unplanned}]
    /\ fate \in [Items -> {"todo", "doing", "done", "failed"}]
    /\ failed \in Nat
    /\ landed \subseteq WorkSet
    /\ flying \subseteq WorkSet
    /\ exit \in ExitCodes

\* set_input(), set_input_rows(), set_input_values(): without a '-' the input
\* is what was typed; with one, the values typed beside it go first.
Init ==
    /\ args \in ArgSet
    /\ ~args.stdin => args.typed > 0 /\ args.lines = 0
    /\ pc = IF args.stdin THEN "confirm" ELSE "prepare"
    /\ item = 1
    /\ plan = << >>
    /\ pos = 1
    /\ agreed = << >>
    /\ planAt = [i \in Items |-> Unplanned]
    /\ fate = [i \in Items |-> "todo"]
    /\ failed = 0
    /\ landed = {}
    /\ flying = {}
    /\ exit = Running

-----------------------------------------------------------------------------
\* sync.main(): how the process ends.

End(code) == pc' = "ended" /\ exit' = code

\* An exception that leaves run(): translated_errors() makes an ApiError, a
\* StateError, of what pynetbox and requests raise; the rest is a traceback.
ExitCode(raised) == IF raised = "other" THEN 1 ELSE 3
Escape(raised) == End(ExitCode(raised))

-----------------------------------------------------------------------------
\* Reading: prepare(), plan(), plan_one().

Works(i, n) == [k \in 1 .. n |-> [item |-> i, step |-> k]]

Prepare ==
    /\ pc = "prepare"
    /\ pc' = IF args.stdin THEN "next" ELSE "plan"
    /\ UNCHANGED <<args, item, plan, pos, agreed, planAt, fate, failed,
                   landed, flying, exit>>

PrepareFails(raised) ==
    /\ pc = "prepare"
    /\ Escape(raised)
    /\ UNCHANGED <<args, item, plan, pos, agreed, planAt, fate, failed,
                   landed, flying>>

\* Mutant: the batch path does what it has planned before it plans on.
PlanOneAndDo(n) ==
    /\ pc = "plan"
    /\ item <= Count
    /\ plan' = plan \o Works(item, n)
    /\ planAt' = [planAt EXCEPT ![item] = pos - 1]
    /\ item' = item + 1
    /\ pc' = IF args.mode = "YES" THEN "do" ELSE "plan"
    /\ UNCHANGED <<args, pos, agreed, fate, failed, landed, flying, exit>>

\* plan(): every value is planned before anything is done.
PlanOne(n) ==
    /\ pc = "plan"
    /\ item <= Count
    /\ plan' = plan \o Works(item, n)
    /\ planAt' = [planAt EXCEPT ![item] = pos - 1]
    /\ item' = item + 1
    /\ UNCHANGED <<args, pc, pos, agreed, fate, failed, landed, flying, exit>>

PlanFails(raised) ==
    /\ pc = "plan"
    /\ item <= Count
    /\ Escape(raised)
    /\ UNCHANGED <<args, item, plan, pos, agreed, planAt, fate, failed,
                   landed, flying>>

\* "Nothing to do", or the listing.
Planned ==
    /\ pc = "plan"
    /\ item > Count
    /\ IF plan = << >> THEN End(0) ELSE pc' = "confirm" /\ UNCHANGED exit
    /\ UNCHANGED <<args, item, plan, pos, agreed, planAt, fate, failed,
                   landed, flying>>

-----------------------------------------------------------------------------
\* confirm_or_die().

Proceed == pc' = (IF args.stdin THEN "prepare" ELSE "do") /\ UNCHANGED exit

Answers == {"yes", "something else", "interrupt", "end of file"}

\* Mutant: anything that is typed is taken for a yes.
AskOnce(answer) ==
    /\ pc = "confirm"
    /\ args.mode = "INTERACTIVE"
    /\ ~args.stdin
    /\ IF answer \in {"yes", "something else"} THEN Proceed ELSE End(1)
    /\ agreed' = IF answer = "yes" THEN plan ELSE agreed
    /\ UNCHANGED <<args, item, plan, pos, planAt, fate, failed, landed, flying>>

\* The prompt comes back until the answer is yes; ^C is caught, ^D is not.
Ask(answer) ==
    /\ pc = "confirm"
    /\ args.mode = "INTERACTIVE"
    /\ ~args.stdin
    /\ CASE answer = "yes"            -> Proceed
         [] answer = "something else" -> UNCHANGED <<pc, exit>>
         [] OTHER                     -> End(1)
    /\ agreed' = IF answer = "yes" THEN plan ELSE agreed
    /\ UNCHANGED <<args, item, plan, pos, planAt, fate, failed, landed, flying>>

DoNotAsk ==
    /\ pc = "confirm"
    /\ \/ args.mode = "INTERACTIVE" /\ args.stdin /\ End(2)
       \/ args.mode = "NO" /\ End(3)
       \/ args.mode = "YES" /\ Proceed
    /\ UNCHANGED <<args, item, plan, pos, agreed, planAt, fate, failed,
                   landed, flying>>

-----------------------------------------------------------------------------
\* Writing: FutureWork.do(), from run() and from _do_item().

Current == plan[pos]
Outcomes == {"done", "refused", "lost", "interrupted"}

\* Mutant: --keep-going carries on with the next work after a failed one.
WriteKeepGoing(outcome) ==
    /\ pc = "do"
    /\ pos <= Len(plan)
    /\ pos' = pos + 1
    /\ landed' = IF outcome = "done" THEN landed \cup {Current} ELSE landed
    /\ flying' = IF outcome \in {"lost", "interrupted"}
                 THEN flying \cup {Current} ELSE flying
    /\ CASE outcome = "done"        -> UNCHANGED <<pc, exit>>
         [] outcome = "interrupted" -> End(Interrupted)
         [] OTHER                   -> IF args.keepGoing THEN UNCHANGED <<pc, exit>>
                                       ELSE Escape("RequestError")
    /\ UNCHANGED <<args, item, plan, agreed, planAt, fate, failed>>

\* Mutant: the try of _do_item() is around the writes as well.
WriteFailsItem(outcome) ==
    /\ pc = "do"
    /\ pos <= Len(plan)
    /\ landed' = IF outcome = "done" THEN landed \cup {Current} ELSE landed
    /\ flying' = IF outcome \in {"lost", "interrupted"}
                 THEN flying \cup {Current} ELSE flying
    /\ IF outcome \in {"refused", "lost"} /\ args.stdin /\ args.keepGoing
       THEN /\ fate' = [fate EXCEPT ![item] = "failed"]
            /\ failed' = failed + 1
            /\ item' = item + 1
            /\ pos' = Len(plan) + 1
            /\ pc' = "next"
            /\ UNCHANGED exit
       ELSE /\ pos' = pos + 1
            /\ CASE outcome = "done"        -> UNCHANGED <<pc, exit>>
                 [] outcome = "interrupted" -> End(Interrupted)
                 [] OTHER                   -> Escape("RequestError")
            /\ UNCHANGED <<fate, failed, item>>
    /\ UNCHANGED <<args, plan, agreed, planAt>>

\* One write.  A lost one is reported as a failure but may still land.
Write(outcome) ==
    /\ pc = "do"
    /\ pos <= Len(plan)
    /\ pos' = pos + 1
    /\ landed' = IF outcome = "done" THEN landed \cup {Current} ELSE landed
    /\ flying' = IF outcome \in {"lost", "interrupted"}
                 THEN flying \cup {Current} ELSE flying
    /\ CASE outcome = "done"        -> UNCHANGED <<pc, exit>>
         [] outcome = "interrupted" -> End(Interrupted)
         [] OTHER                   -> Escape("RequestError")
    /\ UNCHANGED <<args, item, plan, agreed, planAt, fate, failed>>

\* _resolve() cannot resolve a value, or an assert of _do() fails: nothing is
\* sent.  This is never a StateError.
WorkFails(raised) ==
    /\ pc = "do"
    /\ pos <= Len(plan)
    /\ raised # "StateError"
    /\ Escape(raised)
    /\ UNCHANGED <<args, item, plan, pos, agreed, planAt, fate, failed,
                   landed, flying>>

AllDone ==
    /\ pc = "do"
    /\ ~args.stdin
    /\ pos > Len(plan)
    /\ End(0)
    /\ UNCHANGED <<args, item, plan, pos, agreed, planAt, fate, failed,
                   landed, flying>>

-----------------------------------------------------------------------------
\* _run_streaming() and _do_item().

\* The line parses and plan_one() returns its works.
NextItem(n) ==
    /\ pc = "next"
    /\ item <= Count
    /\ plan' = plan \o Works(item, n)
    /\ planAt' = [planAt EXCEPT ![item] = pos - 1]
    /\ fate' = [fate EXCEPT ![item] = "doing"]
    /\ pc' = "do"
    /\ UNCHANGED <<args, item, pos, agreed, failed, landed, flying, exit>>

\* Mutant: the line that failed is not consumed, and everything is read again.
ItemFailsAgain(raised) ==
    /\ pc = "next"
    /\ item <= Count
    /\ IF raised = "StateError" /\ args.keepGoing
       THEN pc' = "prepare" /\ UNCHANGED exit
       ELSE Escape(raised)
    /\ UNCHANGED <<args, item, plan, pos, agreed, planAt, fate, failed, landed, flying>>

\* The line does not parse, or plan_one() raises.  --keep-going carries on
\* past a StateError, and past nothing else.
ItemFails(raised) ==
    /\ pc = "next"
    /\ item <= Count
    /\ IF raised = "StateError" /\ args.keepGoing
       THEN /\ fate' = [fate EXCEPT ![item] = "failed"]
            /\ failed' = failed + 1
            /\ item' = item + 1
            /\ UNCHANGED <<pc, exit>>
       ELSE /\ Escape(raised)
            /\ UNCHANGED <<fate, failed, item>>
    /\ UNCHANGED <<args, plan, pos, agreed, planAt, landed, flying>>

ItemDone ==
    /\ pc = "do"
    /\ args.stdin
    /\ pos > Len(plan)
    /\ fate' = [fate EXCEPT ![item] = "done"]
    /\ item' = item + 1
    /\ pc' = "next"
    /\ UNCHANGED <<args, plan, pos, agreed, planAt, failed, landed, flying, exit>>

\* Mutant: main() does not look at what run() returns.
EndOfStreamClean ==
    /\ pc = "next"
    /\ item > Count
    /\ End(0)
    /\ UNCHANGED <<args, item, plan, pos, agreed, planAt, fate, failed,
                   landed, flying>>

EndOfStream ==
    /\ pc = "next"
    /\ item > Count
    /\ End(IF failed > 0 THEN 3 ELSE 0)
    /\ UNCHANGED <<args, item, plan, pos, agreed, planAt, fate, failed,
                   landed, flying>>

-----------------------------------------------------------------------------
\* The world around the process.

\* SIGINT anywhere but at the prompt, between two API calls.
Interrupt ==
    /\ pc # "ended"
    /\ ~(pc = "confirm" /\ args.mode = "INTERACTIVE" /\ ~args.stdin)
    /\ End(Interrupted)
    /\ UNCHANGED <<args, item, plan, pos, agreed, planAt, fate, failed,
                   landed, flying>>

\* A write whose answer was lost lands after all, or is gone for good.
LandLate(w) ==
    /\ w \in flying
    /\ flying' = flying \ {w}
    /\ landed' = landed \cup {w}
    /\ UNCHANGED <<args, pc, item, plan, pos, agreed, planAt, fate, failed, exit>>

Vanish(w) ==
    /\ w \in flying
    /\ flying' = flying \ {w}
    /\ UNCHANGED <<args, pc, item, plan, pos, agreed, planAt, fate, failed,
                   landed, exit>>

\* What the process does by itself, given that every API call ends.
Program ==
    \/ Prepare
    \/ Planned
    \/ DoNotAsk
    \/ AllDone
    \/ ItemDone
    \/ EndOfStream
    \/ \E n \in 0 .. MaxWorks : PlanOne(n) \/ NextItem(n)
    \/ \E raised \in Raised :
          PrepareFails(raised) \/ PlanFails(raised) \/ WorkFails(raised) \/ ItemFails(raised)
    \/ \E outcome \in Outcomes : Write(outcome)

Next ==
    \/ Program
    \/ \E answer \in Answers : Ask(answer)
    \/ Interrupt
    \/ \E w \in flying : LandLate(w) \/ Vanish(w)

Spec == Init /\ [][Next]_vars
FairSpec == Spec /\ WF_vars(Program)

-----------------------------------------------------------------------------
\* Properties.

\* Interactively, not one write is sent before the user has said yes to a
\* listing, and that listing is what is being done (run, command.py:288-312).
ConsentCovers ==
    args.mode = "INTERACTIVE" /\ pos > 1 => agreed = plan

\* "The batch path plans everything before it writes, so a failure there still
\* costs nothing" (set_keep_going): no read of plan() follows a write, and a
\* run that stops while planning has changed nothing.
BatchPlansFirst ==
    ~args.stdin =>
        /\ \A i \in Items : planAt[i] <= 0
        /\ item <= Count => pos = 1 /\ landed = {} /\ flying = {}

\* Only the last write a run sent can be in doubt: the first failure stops the
\* run, so all the ones before it have been performed, in the order listed.
OnlyLastInDoubt ==
    /\ \A j \in 1 .. (pos - 2) : plan[j] \in landed
    /\ \A j \in pos .. Len(plan) : plan[j] \notin landed \cup flying

\* plan_one() never reads NetBox while a write of this run is in doubt: what
\* it decides cannot be overtaken by a change of its own making.
NoPlanOverDoubt ==
    [][planAt' # planAt =>
          /\ flying = {}
          /\ \A j \in 1 .. (pos - 1) : plan[j] \in landed]_vars

\* An item that --keep-going reports as failed has changed nothing: there is
\* no half-done item to clean up behind it.
FailedItemsWroteNothing ==
    \A i \in Items : fate[i] = "failed" =>
        \A j \in 1 .. Len(plan) : plan[j].item # i

\* Exit code 0 is a promise: every value was planned, every work that came of
\* it was performed, and no item was skipped.
ExitZeroMeansDone ==
    exit = 0 =>
        /\ \A i \in 1 .. Count : planAt[i] # Unplanned
        /\ \A j \in 1 .. Len(plan) : plan[j] \in landed

\* A run that does not ask ends, whatever NetBox answers: every line is
\* consumed, failed or not.
RunEnds == args.mode # "INTERACTIVE" ~> pc = "ended"
=============================================================================
