------------------------- MODULE SwapCables_proofs -------------------------
(***************************************************************************)
(* Proofs about SwapCables, for any cables and interfaces and any number   *)
(* of runs.  Progress says what each number of executed PATCHes leaves of  *)
(* the two interfaces; it is weaker when others plug things in meanwhile.  *)
(***************************************************************************)
EXTENDS SwapCables, TLAPS

\* There is a PATCH that may still be executed, by this run or behind it.
Busy == pc = "do" \/ flying # {}

\* Different interfaces are on different ends: an end with several
\* terminations is not planned for.
PlanIsSound ==
    /\ src \in Interfaces
    /\ tgt \in Interfaces
    /\ plan \in Ends \X Ends
    /\ src = tgt <=> plan[1] = plan[2]

\* Where at least one of two different interfaces is, before the k-th PATCH.
Holds(k) ==
    /\ k = 1 => at[src] = plan[1] /\ at[tgt] = plan[2]
    /\ k = 2 => at[tgt] = plan[2]
    /\ k \in {3, 4} => at[src] = plan[2]

Progress == Busy => PlanIsSound /\ (src # tgt => Holds(pos))

\* Only the last PATCH of a run that has stopped can be in doubt.
OneInDoubt ==
    /\ flying \subseteq {pos}
    /\ flying # {} => pc = "stopped" /\ pos # 4
    /\ pc = "plan" => pos = 1

IInv == TypeOK /\ OneInDoubt /\ Progress /\ AtMostOneLoose

LEMMA InitInv == Init => IInv
BY PortsAssumption DEF Init, IInv, TypeOK, OneInDoubt, Progress, AtMostOneLoose, Busy,
    Cabling, Endpoints

LEMMA ExecuteType ==
    ASSUME TypeOK, PlanIsSound, NEW k \in 1 .. 3, Execute(k)
    PROVE  at' \in Cabling
<1>1. Patched(k) \in Ends
  BY DEF PlanIsSound, Patched
<1>2. ASSUME NEW i \in Endpoints
      PROVE  (CASE i \in NewTerminations(k)                         -> Patched(k)
                [] i \notin NewTerminations(k) /\ at[i] = Patched(k) -> None
                [] OTHER                                            -> at[i]) \in Ends \cup {None}
  BY <1>1 DEF TypeOK, Cabling
<1> QED
  BY <1>2, Zenon DEF Execute, Cabling

\* What a PATCH does to the two interfaces.
LEMMA ExecuteHolds ==
    ASSUME TypeOK, PlanIsSound, src # tgt, NEW k \in 1 .. 3, Holds(k), Execute(k)
    PROVE  /\ k = 1 => at'[tgt] = plan[2]
           /\ k = 2 => at'[src] = plan[2]
           /\ k = 3 => at'[src] = plan[2] /\ at'[tgt] = plan[1]
<1>1. src \in Endpoints /\ tgt \in Endpoints
  BY DEF PlanIsSound, Endpoints
<1>2. plan[1] # plan[2]
  BY DEF PlanIsSound
<1>3. ASSUME NEW i \in Endpoints
      PROVE  at'[i] = (CASE i \in NewTerminations(k)                         -> Patched(k)
                         [] i \notin NewTerminations(k) /\ at[i] = Patched(k) -> None
                         [] OTHER                                            -> at[i])
  BY DEF Execute
<1>4. CASE k = 1
  <2>1. NewTerminations(k) = {} /\ Patched(k) = plan[1]
    BY <1>4 DEF NewTerminations, Patched
  <2>2. at[tgt] = plan[2]
    BY <1>4 DEF Holds
  <2> QED
    BY <1>1, <1>2, <1>3, <1>4, <2>1, <2>2
<1>5. CASE k = 2
  <2>1. NewTerminations(k) = {src} /\ Patched(k) = plan[2]
    BY <1>5 DEF NewTerminations, Patched
  <2> QED
    BY <1>1, <1>3, <1>5, <2>1
<1>6. CASE k = 3
  <2>1. NewTerminations(k) = {tgt} /\ Patched(k) = plan[1]
    BY <1>6 DEF NewTerminations, Patched
  <2>2. at[src] = plan[2]
    BY <1>6 DEF Holds
  <2> QED
    BY <1>1, <1>2, <1>3, <1>6, <2>1, <2>2
<1> QED
  BY <1>4, <1>5, <1>6

\* Executing a PATCH, now or late, does not leave both of them loose.
LEMMA ExecuteLoose ==
    ASSUME TypeOK, PlanIsSound, NEW k \in 1 .. 3, src # tgt => Holds(k), Execute(k),
           UNCHANGED <<src, tgt, first>>
    PROVE  AtMostOneLoose'
<1>1. plan[1] # None /\ plan[2] # None
  BY PortsAssumption DEF PlanIsSound, Ends, Sides
<1>2. CASE src = tgt
  BY <1>2 DEF AtMostOneLoose
<1>3. CASE src # tgt
  <2>1. at'[src] # None \/ at'[tgt] # None
    BY <1>1, <1>3, ExecuteHolds
  <2> QED
    BY <2>1 DEF AtMostOneLoose
<1> QED
  BY <1>2, <1>3

\* A plan is made for two interfaces alone on their ends.
LEMMA PlanRunSound ==
    ASSUME TypeOK, PlanRun, pc' = "do"
    PROVE  /\ PlanIsSound' /\ at[src] = plan'[1] /\ at[tgt] = plan'[2]
           /\ \A i \in Endpoints \ {src, tgt} : at[i] \notin {plan'[1], plan'[2]}
<1>1. Verdict = "fine" /\ plan' = <<at[src], at[tgt]>> /\ UNCHANGED <<src, tgt, at>>
  <2>1. Verdict # "do"
    BY DEF Verdict, Insist
  <2> QED
    BY <2>1 DEF PlanRun, PlannedEnds
<1>2. Insist(src) = "fine" /\ Insist(tgt) = "fine"
  BY <1>1 DEF Verdict, Insist
<1>3. src \in Interfaces /\ tgt \in Interfaces
  BY <1>2 DEF Insist, TypeOK
<1>4. /\ at[src] # None /\ ~Several(Terminations(at[src]))
      /\ at[tgt] # None /\ ~Several(Terminations(at[tgt]))
  BY <1>2 DEF Insist
<1>5. at[src] \in Ends /\ at[tgt] \in Ends
  BY <1>3, <1>4 DEF TypeOK, Cabling, Endpoints
<1>6. \A i \in Endpoints : (at[i] = at[src] => i = src) /\ (at[i] = at[tgt] => i = tgt)
  BY <1>3, <1>4 DEF Several, Terminations, Endpoints
<1>7. src \in Endpoints /\ tgt \in Endpoints
  BY <1>3 DEF Endpoints
<1> QED
  BY <1>1, <1>3, <1>5, <1>6, <1>7 DEF PlanIsSound

LEMMA StepInv == IInv /\ [Next]_vars => IInv'
<1> SUFFICES ASSUME IInv, [Next]_vars PROVE IInv'
  OBVIOUS
<1> USE DEF IInv
<1>1. CASE PlanRun
  <2>1. TypeOK'
    <3>1. CASE pc' = "do"
      <4>1. plan' \in Ends \X Ends
        BY <1>1, <3>1, PlanRunSound DEF PlanIsSound
      <4> QED
        BY <1>1, <3>1, <4>1 DEF PlanRun, TypeOK
    <3>2. CASE pc' # "do"
      <4>1. pc' \in {"StateError", "crashed"} /\ UNCHANGED plan
        BY <1>1, <3>2 DEF PlanRun, Verdict, Insist
      <4> QED
        BY <1>1, <4>1 DEF PlanRun, TypeOK
    <3> QED
      BY <3>1, <3>2
  <2>2. flying = {} /\ flying' = {}
    BY <1>1 DEF PlanRun, OneInDoubt
  <2>3. Progress'
    <3>1. CASE pc' = "do"
      <4>1. PlanIsSound' /\ at[src] = plan'[1] /\ at[tgt] = plan'[2]
        BY <1>1, <3>1, PlanRunSound
      <4>2. pos' = 1 /\ UNCHANGED <<at, src, tgt>>
        BY <1>1 DEF PlanRun, OneInDoubt
      <4> QED
        BY <4>1, <4>2 DEF Progress, Holds
    <3>2. CASE pc' # "do"
      BY <2>2, <3>2 DEF Progress, Busy
    <3> QED
      BY <3>1, <3>2
  <2>4. OneInDoubt' /\ AtMostOneLoose'
    BY <1>1, <2>2 DEF PlanRun, OneInDoubt, AtMostOneLoose
  <2> QED
    BY <2>1, <2>3, <2>4
<1>2. CASE ModifyCable
  <2> USE <1>2
  <2>1. flying = {} /\ flying' = {} /\ pc = "do" /\ pc' = "do" /\ pos \in 1 .. 3
    BY DEF ModifyCable, OneInDoubt, TypeOK
  <2>2. PlanIsSound /\ PlanIsSound' /\ (src # tgt => Holds(pos))
    BY <2>1 DEF ModifyCable, Progress, Busy, PlanIsSound
  <2>3. at' \in Cabling
    BY <2>1, <2>2, ExecuteType DEF ModifyCable
  <2>4. TypeOK'
    BY <2>1, <2>3 DEF ModifyCable, TypeOK
  <2>5. AtMostOneLoose'
    BY <2>1, <2>2, ExecuteLoose DEF ModifyCable
  <2>6. src # tgt => Holds(pos)'
    <3> SUFFICES ASSUME src # tgt PROVE Holds(pos)'
      OBVIOUS
    <3>1. /\ pos = 1 => at'[tgt] = plan[2]
          /\ pos = 2 => at'[src] = plan[2]
          /\ pos = 3 => at'[src] = plan[2] /\ at'[tgt] = plan[1]
      BY <2>1, <2>2, ExecuteHolds DEF ModifyCable
    <3>2. pos' = pos + 1 /\ UNCHANGED <<src, tgt, plan>>
      BY DEF ModifyCable
    <3> QED
      BY <2>1, <3>1, <3>2 DEF Holds
  <2>7. OneInDoubt' /\ Progress'
    BY <2>1, <2>2, <2>6 DEF ModifyCable, OneInDoubt, Progress
  <2> QED
    BY <2>4, <2>5, <2>7
<1>3. CASE Refused \/ Stop \/ Finish
  <2>1. TypeOK'
    BY <1>3 DEF Refused, Stop, Finish, TypeOK
  <2>2. flying = {} /\ flying' = {} /\ pc' \notin {"plan", "do"}
    BY <1>3 DEF Refused, Stop, Finish, OneInDoubt
  <2>3. AtMostOneLoose'
    BY <1>3 DEF Refused, Stop, Finish, AtMostOneLoose
  <2> QED
    BY <2>1, <2>2, <2>3 DEF OneInDoubt, Progress, Busy
<1>4. CASE Lost
  <2>1. TypeOK'
    BY <1>4 DEF Lost, TypeOK
  <2>2. OneInDoubt'
    BY <1>4 DEF Lost, OneInDoubt, TypeOK
  <2>3. Progress'
    BY <1>4 DEF Lost, Progress, Busy, PlanIsSound, Holds
  <2>4. AtMostOneLoose'
    BY <1>4 DEF Lost, AtMostOneLoose
  <2> QED
    BY <2>1, <2>2, <2>3, <2>4
<1>5. ASSUME NEW k \in 1 .. 3, LandLate(k)
      PROVE  IInv'
  <2> USE <1>5
  <2>1. k = pos /\ flying' = {} /\ pc = "stopped" /\ pc' = "stopped"
    BY DEF LandLate, OneInDoubt
  <2>2. PlanIsSound /\ (src # tgt => Holds(k))
    BY <2>1 DEF LandLate, Progress, Busy
  <2>3. at' \in Cabling
    BY <2>2, ExecuteType DEF LandLate, TypeOK
  <2>4. TypeOK'
    BY <2>3 DEF LandLate, TypeOK
  <2>5. AtMostOneLoose'
    <3>1. CASE AcceptsPatch(k)
      BY <2>2, <3>1, ExecuteLoose DEF LandLate
    <3>2. CASE ~AcceptsPatch(k)
      BY <3>2 DEF LandLate, AtMostOneLoose
    <3> QED
      BY <3>1, <3>2
  <2>6. OneInDoubt' /\ Progress'
    BY <2>1 DEF OneInDoubt, Progress, Busy
  <2> QED
    BY <2>4, <2>5, <2>6
<1>6. ASSUME NEW k \in 1 .. 3, Vanish(k)
      PROVE  IInv'
  <2>1. flying' = {} /\ pc' = "stopped"
    BY <1>6 DEF Vanish, OneInDoubt
  <2>2. TypeOK' /\ AtMostOneLoose'
    BY <1>6 DEF Vanish, TypeOK, AtMostOneLoose
  <2> QED
    BY <2>1, <2>2 DEF OneInDoubt, Progress, Busy
<1>7. CASE RunAgain
  <2>1. TypeOK' /\ AtMostOneLoose'
    BY <1>7 DEF RunAgain, TypeOK, AtMostOneLoose
  <2>2. flying' = {} /\ pc' = "plan" /\ pos' = 1
    BY <1>7 DEF RunAgain
  <2> QED
    BY <2>1, <2>2 DEF OneInDoubt, Progress, Busy
<1>8. ASSUME NEW i \in Endpoints, NEW e \in Ends, SomeonePlugs(i, e)
      PROVE  IInv'
  <2> USE <1>8
  <2>1. /\ at[i] = None /\ at' = [at EXCEPT ![i] = e] /\ e # None
        /\ UNCHANGED <<src, tgt, pc, pos, plan, flying, first, start, alone>>
    BY PortsAssumption DEF SomeonePlugs, Ends, Sides
  <2>2. TypeOK'
    BY <2>1 DEF TypeOK, Cabling
  <2>3. \A j \in Endpoints : at[j] # None => at'[j] = at[j]
    BY <2>1 DEF TypeOK, Cabling
  <2>4. AtMostOneLoose'
    BY <2>1, <2>3 DEF AtMostOneLoose, TypeOK, Endpoints
  <2>5. Progress'
    <3> SUFFICES ASSUME Busy PROVE PlanIsSound' /\ (src # tgt => Holds(pos)')
      BY <2>1 DEF Progress, Busy
    <3>1. PlanIsSound /\ PlanIsSound' /\ (src # tgt => Holds(pos))
      BY <2>1 DEF Progress, PlanIsSound
    <3>2. plan[1] # None /\ plan[2] # None /\ src \in Endpoints /\ tgt \in Endpoints
      BY <3>1, PortsAssumption DEF PlanIsSound, Ends, Sides, Endpoints
    <3> QED
      BY <2>1, <2>3, <3>1, <3>2 DEF Holds
  <2> QED
    BY <2>1, <2>2, <2>4, <2>5 DEF OneInDoubt
<1>9. CASE UNCHANGED vars
  BY <1>9 DEF vars, TypeOK, OneInDoubt, Progress, Busy, PlanIsSound, Holds, AtMostOneLoose
<1> QED
  BY <1>1, <1>2, <1>3, <1>4, <1>5, <1>6, <1>7, <1>8, <1>9 DEF Next

LEMMA Invariance == Spec => []IInv
<1>1. Init => IInv
  BY InitInv
<1>2. IInv /\ [Next]_vars => IInv'
  BY StepInv
<1> QED
  BY <1>1, <1>2, PTL DEF Spec

\* Every state the command and NetBox can reach is well typed.
THEOREM TypeCorrect == Spec => []TypeOK
<1>1. IInv => TypeOK
  BY DEF IInv
<1> QED
  BY <1>1, Invariance, PTL

\* At most one of the two interfaces is ever left without a cable, however the
\* runs end and whatever others plug in meanwhile.
THEOREM OneLoose == Spec => []AtMostOneLoose
<1>1. IInv => AtMostOneLoose
  BY DEF IInv
<1> QED
  BY <1>1, Invariance, PTL
-----------------------------------------------------------------------------
\* While nobody else plugs anything in, what the PATCHes executed so far have
\* made of the cabling is known exactly.

Exact(k) ==
    /\ k = 1 => at[src] = plan[1] /\ at[tgt] = plan[2]
    /\ k = 2 => at[src] = None /\ at[tgt] = IF src = tgt THEN None ELSE plan[2]
    /\ k = 3 => at[src] = plan[2] /\ at[tgt] = IF src = tgt THEN plan[2] ELSE None
    /\ k = 4 => at[src] = plan[2] /\ at[tgt] = plan[1]

OthersApart == \A i \in Endpoints \ {src, tgt} : at[i] \notin {plan[1], plan[2]}
OthersAsRead == \A i \in Endpoints \ {src, tgt} : at[i] = start[i]

Tracked ==
    Busy \/ pc = "done" =>
        /\ PlanIsSound
        /\ Exact(pos)
        /\ OthersApart
        /\ OthersAsRead
        /\ start[src] = plan[1] /\ start[tgt] = plan[2]

DoneAtFour == pc = "done" => pos = 4

AloneInv == IInv /\ (alone => Tracked /\ DoneAtFour) /\ OthersStayPut /\ NeverRefused

LEMMA AloneInit == Init => AloneInv
<1> SUFFICES ASSUME Init PROVE AloneInv
  OBVIOUS
<1>1. IInv
  BY InitInv
<1>2. ~Busy /\ pc = "plan" /\ at = first
  BY DEF Init, Busy
<1> QED
  BY <1>1, <1>2 DEF AloneInv, Tracked, DoneAtFour, OthersStayPut, NeverRefused

\* Each PATCH is accepted, and leaves what the next one expects.
LEMMA ExecuteExact ==
    ASSUME TypeOK, PlanIsSound, OthersApart, NEW k \in 1 .. 3, Exact(k)
    PROVE  /\ AcceptsPatch(k)
           /\ Execute(k) =>
                /\ k = 1 => at'[src] = None /\ at'[tgt] = IF src = tgt THEN None ELSE plan[2]
                /\ k = 2 => at'[src] = plan[2] /\ at'[tgt] = IF src = tgt THEN plan[2] ELSE None
                /\ k = 3 => at'[src] = plan[2] /\ at'[tgt] = plan[1]
                /\ \A i \in Endpoints \ {src, tgt} : at'[i] = at[i]
<1>1. src \in Endpoints /\ tgt \in Endpoints /\ (src = tgt <=> plan[1] = plan[2])
  BY DEF PlanIsSound, Endpoints
<1>2. plan[1] # None /\ plan[2] # None
  BY PortsAssumption DEF PlanIsSound, Ends, Sides
<1>3. ASSUME Execute(k), NEW i \in Endpoints
      PROVE  at'[i] = (CASE i \in NewTerminations(k)                         -> Patched(k)
                         [] i \notin NewTerminations(k) /\ at[i] = Patched(k) -> None
                         [] OTHER                                            -> at[i])
  BY <1>3 DEF Execute
<1>4. CASE k = 1
  <2>1. NewTerminations(k) = {} /\ Patched(k) = plan[1]
    BY <1>4 DEF NewTerminations, Patched
  <2>2. at[src] = plan[1] /\ at[tgt] = plan[2]
    BY <1>4 DEF Exact
  <2> QED
    BY <1>1, <1>2, <1>3, <1>4, <2>1, <2>2 DEF AcceptsPatch, OthersApart
<1>5. CASE k = 2
  <2>1. NewTerminations(k) = {src} /\ Patched(k) = plan[2]
    BY <1>5 DEF NewTerminations, Patched
  <2>2. at[src] = None /\ at[tgt] = IF src = tgt THEN None ELSE plan[2]
    BY <1>5 DEF Exact
  <2> QED
    BY <1>1, <1>2, <1>3, <1>5, <2>1, <2>2 DEF AcceptsPatch, OthersApart
<1>6. CASE k = 3
  <2>1. NewTerminations(k) = {tgt} /\ Patched(k) = plan[1]
    BY <1>6 DEF NewTerminations, Patched
  <2>2. at[src] = plan[2] /\ at[tgt] = IF src = tgt THEN plan[2] ELSE None
    BY <1>6 DEF Exact
  <2> QED
    BY <1>1, <1>2, <1>3, <1>6, <2>1, <2>2 DEF AcceptsPatch, OthersApart
<1> QED
  BY <1>4, <1>5, <1>6

LEMMA AloneStep == AloneInv /\ [Next]_vars => AloneInv'
<1> SUFFICES ASSUME AloneInv, [Next]_vars PROVE AloneInv'
  OBVIOUS
<1> USE DEF AloneInv
<1>00. IInv /\ IInv' /\ alone' = alone
  BY StepInv DEF Next, vars, PlanRun, ModifyCable, Refused, Lost, Stop, Finish, LandLate,
      Vanish, RunAgain, SomeonePlugs
<1>01. CASE ~alone
  BY <1>00, <1>01 DEF OthersStayPut, NeverRefused
<1> SUFFICES ASSUME alone PROVE AloneInv'
  BY <1>01
<1>0. IInv /\ IInv' /\ TypeOK /\ OneInDoubt /\ alone /\ alone'
  BY <1>00 DEF IInv
<1>1. CASE PlanRun
  <2>1. pos' = 1 /\ start' = at /\ flying' = {} /\ UNCHANGED <<at, src, tgt, first>>
    BY <1>0, <1>1 DEF PlanRun, OneInDoubt
  <2>2. pc' \in {"do", "crashed", "StateError"}
    BY <1>1 DEF PlanRun, Verdict, Insist
  <2>3. Tracked'
    <3>1. CASE pc' = "do"
      <4>1. PlanIsSound' /\ at[src] = plan'[1] /\ at[tgt] = plan'[2] /\ OthersApart'
        BY <1>0, <1>1, <3>1, <2>1, PlanRunSound DEF OthersApart
      <4>2. Exact(pos)' /\ OthersAsRead'
        BY <2>1, <4>1 DEF Exact, OthersAsRead
      <4> QED
        BY <2>1, <4>1, <4>2 DEF Tracked
    <3>2. CASE pc' # "do"
      BY <2>1, <2>2, <3>2 DEF Tracked, Busy
    <3> QED
      BY <3>1, <3>2
  <2> QED
    BY <1>0, <2>1, <2>2, <2>3 DEF DoneAtFour, OthersStayPut, NeverRefused
<1>2. CASE ModifyCable
  <2>1. /\ pc = "do" /\ pc' = "do" /\ pos \in 1 .. 3 /\ pos' = pos + 1 /\ Execute(pos)
        /\ UNCHANGED <<src, tgt, plan, flying, first, start>>
    BY <1>0, <1>2 DEF ModifyCable, TypeOK
  <2>2. /\ PlanIsSound /\ Exact(pos) /\ OthersApart /\ OthersAsRead
        /\ start[src] = plan[1] /\ start[tgt] = plan[2]
    BY <2>1 DEF Tracked, Busy
  <2>3. \A i \in Endpoints \ {src, tgt} : at'[i] = at[i]
    BY <1>0, <2>1, <2>2, ExecuteExact
  <2>4. Exact(pos)'
    <3>1. /\ pos = 1 => at'[src] = None /\ at'[tgt] = IF src = tgt THEN None ELSE plan[2]
          /\ pos = 2 => at'[src] = plan[2] /\ at'[tgt] = IF src = tgt THEN plan[2] ELSE None
          /\ pos = 3 => at'[src] = plan[2] /\ at'[tgt] = plan[1]
      BY <1>0, <2>1, <2>2, ExecuteExact
    <3> QED
      BY <2>1, <3>1 DEF Exact
  <2>5. OthersApart' /\ OthersAsRead' /\ OthersStayPut'
    BY <2>1, <2>2, <2>3 DEF OthersApart, OthersAsRead, OthersStayPut
  <2>6. Tracked'
    BY <2>1, <2>2, <2>4, <2>5 DEF Tracked, PlanIsSound
  <2> QED
    BY <1>0, <2>1, <2>5, <2>6 DEF DoneAtFour, NeverRefused
<1>3. CASE Refused
  <2>1. pc = "do" /\ pos \in 1 .. 3 /\ ~AcceptsPatch(pos)
    BY <1>0, <1>3 DEF Refused, TypeOK
  <2>2. PlanIsSound /\ Exact(pos) /\ OthersApart
    BY <2>1 DEF Tracked, Busy
  <2> QED
    BY <1>0, <2>1, <2>2, ExecuteExact
<1>4. CASE Lost
  <2>1. pc = "do" /\ pc' = "stopped" /\ UNCHANGED <<at, src, tgt, pos, plan, first, start>>
    BY <1>4 DEF Lost
  <2>2. Tracked'
    BY <2>1 DEF Tracked, Busy, PlanIsSound, Exact, OthersApart, OthersAsRead
  <2> QED
    BY <1>0, <2>1, <2>2 DEF DoneAtFour, OthersStayPut, NeverRefused
<1>5. CASE Stop
  <2>1. pc' = "stopped" /\ flying' = {} /\ UNCHANGED <<at, src, tgt, first>>
    BY <1>0, <1>5 DEF Stop, OneInDoubt
  <2> QED
    BY <1>0, <2>1 DEF Tracked, Busy, DoneAtFour, OthersStayPut, NeverRefused
<1>6. CASE Finish
  <2>1. /\ pc = "do" /\ pc' = "done" /\ pos = 4
        /\ UNCHANGED <<at, src, tgt, pos, plan, flying, first, start>>
    BY <1>6 DEF Finish
  <2>2. Tracked'
    BY <2>1 DEF Tracked, Busy, PlanIsSound, Exact, OthersApart, OthersAsRead
  <2> QED
    BY <1>0, <2>1, <2>2 DEF DoneAtFour, OthersStayPut, NeverRefused
<1>7. ASSUME NEW k \in 1 .. 3, LandLate(k)
      PROVE  AloneInv'
  <2>1. k = pos /\ flying # {} /\ flying' = {} /\ pc = "stopped" /\ pc' = "stopped"
    BY <1>0, <1>7 DEF LandLate, OneInDoubt
  <2>2. PlanIsSound /\ Exact(k) /\ OthersApart /\ UNCHANGED <<src, tgt, first>>
    BY <1>7, <2>1 DEF Tracked, Busy, LandLate
  <2>3. Execute(k)
    BY <1>0, <1>7, <2>2, ExecuteExact DEF LandLate
  <2>4. \A i \in Endpoints \ {src, tgt} : at'[i] = at[i]
    BY <1>0, <2>2, <2>3, ExecuteExact
  <2> QED
    BY <1>0, <2>1, <2>2, <2>4 DEF Tracked, Busy, DoneAtFour, OthersStayPut, NeverRefused
<1>8. ASSUME NEW k \in 1 .. 3, Vanish(k)
      PROVE  AloneInv'
  <2>1. flying' = {} /\ pc = "stopped" /\ pc' = "stopped" /\ UNCHANGED <<at, src, tgt, first>>
    BY <1>0, <1>8 DEF Vanish, OneInDoubt
  <2> QED
    BY <1>0, <2>1 DEF Tracked, Busy, DoneAtFour, OthersStayPut, NeverRefused
<1>9. CASE RunAgain
  <2>1. flying' = {} /\ pc' = "plan" /\ UNCHANGED <<at, src, tgt, first>>
    BY <1>9 DEF RunAgain
  <2> QED
    BY <1>0, <2>1 DEF Tracked, Busy, DoneAtFour, OthersStayPut, NeverRefused
<1>10. ASSUME NEW i \in Endpoints, NEW e \in Ends, SomeonePlugs(i, e)
       PROVE  FALSE
  BY <1>10 DEF SomeonePlugs
<1>11. CASE UNCHANGED vars
  BY <1>0, <1>11 DEF vars, Tracked, Busy, PlanIsSound, Exact, OthersApart, OthersAsRead,
      DoneAtFour, OthersStayPut, NeverRefused
<1> QED
  BY <1>1, <1>2, <1>3, <1>4, <1>5, <1>6, <1>7, <1>8, <1>9, <1>10, <1>11 DEF Next

LEMMA AloneInvariance == Spec => []AloneInv
<1>1. Init => AloneInv
  BY AloneInit
<1>2. AloneInv /\ [Next]_vars => AloneInv'
  BY AloneStep
<1> QED
  BY <1>1, <1>2, PTL DEF Spec

\* While nobody else is at the cables, nothing but the two interfaces is ever moved,
\* over any number of runs that end anywhere.
THEOREM OthersUntouched == Spec => []OthersStayPut
<1>1. AloneInv => OthersStayPut
  BY DEF AloneInv
<1> QED
  BY <1>1, AloneInvariance, PTL

\* While nobody else is at the cables, NetBox refuses none of the three PATCHes.
THEOREM OrderIsAccepted == Spec => []NeverRefused
<1>1. AloneInv => NeverRefused
  BY DEF AloneInv
<1> QED
  BY <1>1, AloneInvariance, PTL

\* A run that succeeds has exchanged the two ends, so that every link of the one
\* interface is now one of the other, and all other links are as they were.
THEOREM SwapIsDone == Spec => []DoneMeansSwapped
<1>1. AloneInv => DoneMeansSwapped
  <2> SUFFICES ASSUME AloneInv, alone, pc = "done"
               PROVE  \A i, j \in Endpoints :
                          Linked(at, i, j) <=> Linked(start, Swapped(i), Swapped(j))
    BY DEF DoneMeansSwapped
  <2>1. /\ at[src] = start[tgt] /\ at[tgt] = start[src] /\ OthersAsRead
    BY DEF AloneInv, Tracked, DoneAtFour, Exact
  <2>2. \A i \in Endpoints : at[i] = start[Swapped(i)]
    BY <2>1 DEF Swapped, OthersAsRead
  <2> QED
    BY <2>2 DEF Linked
<1> QED
  BY <1>1, AloneInvariance, PTL
=============================================================================
