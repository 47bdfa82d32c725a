----------------------------- MODULE SwapCables -----------------------------
(***************************************************************************)
(* nbsync swap-cables: of the links A1<->B1 and A2<->B2 makes A1<->B2 and  *)
(* A2<->B1.  NetBox has no call that does this, and refuses a cable end    *)
(* whose interface is still on another cable, so there are three PATCHes   *)
(* of the two cables, each of which changes one end.                       *)
(*                                                                         *)
(* The run may end after any of them.  A PATCH whose answer is lost ends   *)
(* the run too, and may be executed later.  The command may be given again *)
(* any number of times, but not while such a PATCH is still in doubt.      *)
(*                                                                         *)
(* NetBox itself is external: AcceptsPatch is what the comment on the      *)
(* three works says of it.                                                 *)
(***************************************************************************)
EXTENDS Integers, Sequences, FiniteSets

CONSTANTS
    Cables,         \* ids of the cables in NetBox
    Interfaces,     \* interfaces, the things that can be named
    OtherPorts,     \* what else a cable can be plugged into (front ports, ...)
    Nowhere,        \* the name of an interface that NetBox does not hold
    None            \* no cable

ASSUME PortsAssumption ==
    /\ Interfaces \cap OtherPorts = {}
    /\ Nowhere \notin Interfaces
    /\ None \notin Cables \X {"a", "b"}

VARIABLES
    at,         \* at[i]: the cable end <<cable, side>> that i is plugged into
    src, tgt,   \* the two interfaces on the command line
    pc,         \* "plan", "do", or how the run ended
    pos,        \* number of the PATCH that is next
    plan,       \* <<end of src, end of tgt>>, as plan() found them
    flying,     \* numbers of the PATCHes that may still land (at most one)
    first,      \* what at was before the first run
    start,      \* what at was when this run's plan() read it
    alone       \* nobody else plugs anything in meanwhile

vars == <<at, src, tgt, pc, pos, plan, flying, first, start, alone>>

Sides == {"a", "b"}
Ends == Cables \X Sides
Endpoints == Interfaces \cup OtherPorts
Other(side) == IF side = "a" THEN "b" ELSE "a"

\* A termination is on one cable end at most (NetBox).
Cabling == [Endpoints -> Ends \cup {None}]

TypeOK ==
    /\ at \in Cabling
    /\ src \in Interfaces \cup {Nowhere}
    /\ tgt \in Interfaces \cup {Nowhere}
    /\ pc \in {"plan", "do", "done", "StateError", "crashed", "stopped", "refused"}
    /\ pos \in 1 .. 4
    /\ plan \in {<< >>} \cup (Ends \X Ends)
    /\ flying \in SUBSET (1 .. 3)
    /\ first \in Cabling
    /\ start \in Cabling
    /\ alone \in BOOLEAN

Init ==
    /\ at \in Cabling
    /\ src \in Interfaces \cup {Nowhere}
    /\ tgt \in Interfaces \cup {Nowhere}
    /\ pc = "plan"
    /\ pos = 1
    /\ plan = << >>
    /\ flying = {}
    /\ first = at
    /\ start = at
    /\ alone \in BOOLEAN

-----------------------------------------------------------------------------
\* plan().

\* cable.a_terminations or cable.b_terminations
Terminations(e) == {i \in Endpoints : at[i] = e}
Several(terminations) == \E i, j \in terminations : i # j

\* _cable_termination_key() says which side of its cable i is on.
FarEnd(i) == <<at[i][1], Other(at[i][2])>>

\* _get_cabled_interface(): how it ends.  An interface without a cable has no
\* cable.a_terminations, which is an AttributeError.
Insist(i) ==
    IF i = Nowhere THEN "StateError"
    ELSE IF at[i] = None THEN "crashed"
    ELSE IF Several(Terminations(at[i])) \/ Several(Terminations(FarEnd(i))) THEN "crashed"
    ELSE IF Terminations(FarEnd(i)) = {} THEN "StateError"
    ELSE "fine"

\* link_peers_type
PeersAreInterfaces(i) == Terminations(FarEnd(i)) \subseteq Interfaces

Verdict ==
    IF Insist(src) # "fine" THEN Insist(src)
    ELSE IF Insist(tgt) # "fine" THEN Insist(tgt)
    ELSE IF PeersAreInterfaces(src) /\ PeersAreInterfaces(tgt) THEN "fine"
    ELSE "crashed"

\* Mutant: always the a side.
PlannedASides == <<<<at[src][1], "a">>, <<at[tgt][1], "a">>>>

PlannedEnds == <<at[src], at[tgt]>>

PlanRun ==
    /\ pc = "plan"
    /\ start' = at
    /\ IF Verdict = "fine"
       THEN pc' = "do" /\ plan' = PlannedEnds
       ELSE pc' = Verdict /\ UNCHANGED plan
    /\ UNCHANGED <<at, src, tgt, pos, flying, first, alone>>

-----------------------------------------------------------------------------
\* The three ModifyCable works.

Patched(k) == IF k = 2 THEN plan[2] ELSE plan[1]
\* Mutants: both are detached first; neither is; each goes back where it was.
DetachBoth(k) == IF k = 3 THEN {tgt} ELSE {}
DetachNone(k) == IF k = 2 THEN {src} ELSE {tgt}
PlugBack(k) == CASE k = 1 -> {} [] k = 2 -> {tgt} [] k = 3 -> {src}

NewTerminations(k) ==
    CASE k = 1 -> {}        \* must detach first
      [] k = 2 -> {src}     \* "Yes! Here goes source, not target."
      [] k = 3 -> {tgt}     \* "Yes! Here goes target, not source."

\* NetBox: "Duplicate termination found".
AcceptsPatch(k) == \A i \in NewTerminations(k) : at[i] \in {None, Patched(k)}

Execute(k) ==
    at' = [i \in Endpoints |->
              CASE i \in NewTerminations(k)                         -> Patched(k)
                [] i \notin NewTerminations(k) /\ at[i] = Patched(k) -> None
                [] OTHER                                            -> at[i]]

ModifyCable ==
    /\ pc = "do" /\ pos <= 3
    /\ AcceptsPatch(pos)
    /\ Execute(pos)
    /\ pos' = pos + 1
    /\ UNCHANGED <<src, tgt, pc, plan, flying, first, start, alone>>

Refused ==
    /\ pc = "do" /\ pos <= 3
    /\ ~AcceptsPatch(pos)
    /\ pc' = "refused"
    /\ UNCHANGED <<at, src, tgt, pos, plan, flying, first, start, alone>>

\* The answer is lost: an ApiError, and nobody knows whether NetBox got it.
Lost ==
    /\ pc = "do" /\ pos <= 3
    /\ flying' = flying \cup {pos}
    /\ pc' = "stopped"
    /\ UNCHANGED <<at, src, tgt, pos, plan, first, start, alone>>

\* The run ends between two works, or before the first.
Stop ==
    /\ pc = "do" /\ pos <= 3
    /\ pc' = "stopped"
    /\ UNCHANGED <<at, src, tgt, pos, plan, flying, first, start, alone>>

Finish ==
    /\ pc = "do" /\ pos = 4
    /\ pc' = "done"
    /\ UNCHANGED <<at, src, tgt, pos, plan, flying, first, start, alone>>

-----------------------------------------------------------------------------
\* Around the run.

LandLate(k) ==
    /\ k \in flying
    /\ flying' = flying \ {k}
    /\ IF AcceptsPatch(k) THEN Execute(k) ELSE UNCHANGED at
    /\ UNCHANGED <<src, tgt, pc, pos, plan, first, start, alone>>

Vanish(k) ==
    /\ k \in flying
    /\ flying' = flying \ {k}
    /\ UNCHANGED <<at, src, tgt, pc, pos, plan, first, start, alone>>

RunAgain ==
    /\ pc \notin {"plan", "do"}
    /\ flying = {}
    /\ pc' = "plan"
    /\ pos' = 1
    /\ UNCHANGED <<at, src, tgt, plan, flying, first, start, alone>>

\* Someone else plugs what is loose into a cable end that is free.
SomeonePlugs(i, e) ==
    /\ ~alone
    /\ at[i] = None
    /\ Terminations(e) = {}
    /\ at' = [at EXCEPT ![i] = e]
    /\ UNCHANGED <<src, tgt, pc, pos, plan, flying, first, start, alone>>

Next ==
    \/ PlanRun
    \/ ModifyCable
    \/ Refused
    \/ Lost
    \/ Stop
    \/ Finish
    \/ \E k \in 1 .. 3 : LandLate(k) \/ Vanish(k)
    \/ RunAgain
    \/ \E i \in Endpoints, e \in Ends : SomeonePlugs(i, e)

Spec == Init /\ [][Next]_vars

-----------------------------------------------------------------------------
\* Properties.

\* Whatever happens to a run, at most one of the two interfaces is left without
\* a cable.  (An interface "swapped" with itself is unplugged for a while.)
AtMostOneLoose ==
    src # Nowhere /\ tgt # Nowhere /\ src # tgt /\ first[src] # None /\ first[tgt] # None =>
        at[src] # None \/ at[tgt] # None

\* While nobody else is at the cables no run touches anything but the two
\* interfaces it was given: B1 and B2, and every other termination, stay on the
\* end they were on.
OthersStayPut ==
    alone => \A i \in Endpoints \ {src, tgt} : at[i] = first[i]

\* The help: "Changes A1<->B1 and A2<->B2 to A1<->B2 and A2<->B1", and no other
\* link.  An interface connected to the other one stays so.
Linked(cabling, i, j) ==
    /\ cabling[i] # None
    /\ cabling[j] = <<cabling[i][1], Other(cabling[i][2])>>
Swapped(i) == IF i = src THEN tgt ELSE IF i = tgt THEN src ELSE i
DoneMeansSwapped ==
    alone /\ pc = "done" =>
        \A i, j \in Endpoints : Linked(at, i, j) <=> Linked(start, Swapped(i), Swapped(j))

\* The works are in an order that NetBox accepts: while nobody else changes the
\* cables, it refuses none of them as a duplicate termination.
NeverRefused == alone => pc # "refused"
=============================================================================
