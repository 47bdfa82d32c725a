----------------------------- MODULE Relocation -----------------------------
(***************************************************************************)
(* What moving addresses from one interface to another promises: each of   *)
(* the addresses that were asked for goes straight from where it is to     *)
(* where it is meant to go, one address per step, and the others stay      *)
(* where they are.  An address is assigned to nothing only when it is a    *)
(* lost one: which those are the module that implements this has to say.   *)
(* A run that is cut short leaves every address that is not lost in its    *)
(* old or its new home.                                                    *)
(*                                                                         *)
(* Meanwhile someone else may assign an address that has no home to some   *)
(* place; addresses that have one are not touched by anyone else.          *)
(***************************************************************************)
CONSTANTS
    Addresses,  \* the IP address records
    Places,     \* where an address can be assigned
    Nowhere     \* the place of an address that is assigned to nothing

VARIABLES
    home,       \* home[a]: the place address a is assigned to
    goal,       \* goal[a]: the place address a, one asked for, is meant to go to
    lost        \* the addresses that are to lose the place they have or get

vars == <<home, goal, lost>>

Init ==
    /\ home \in [Addresses -> Places]
    /\ DOMAIN goal = {}
    /\ lost = {}

\* Someone decides which addresses are to go where.
Decide ==
    /\ \E asked \in SUBSET Addresses :
          goal' \in [asked -> Places] /\ lost' \in SUBSET asked
    /\ UNCHANGED home

Move(a) ==
    /\ a \in DOMAIN goal
    /\ home' = [home EXCEPT ![a] = goal[a]]
    /\ UNCHANGED <<goal, lost>>

\* All the addresses of a place that goes.
Lose(gone) ==
    /\ gone \subseteq lost
    /\ home' = [a \in Addresses |-> IF a \in gone THEN Nowhere ELSE home[a]]
    /\ lost' \in SUBSET lost
    /\ UNCHANGED goal

\* Someone else assigns an address; the place may be one that is to go.
Assign(a, place) ==
    /\ home[a] = Nowhere
    /\ home' = [home EXCEPT ![a] = place]
    /\ lost' \in {lost, lost \cup {a}}
    /\ UNCHANGED goal

Next ==
    \/ Decide
    \/ \E a \in Addresses : Move(a)
    \/ \E gone \in SUBSET Addresses : Lose(gone)
    \/ \E a \in Addresses, place \in Places : Assign(a, place)

Spec == Init /\ [][Next]_vars
=============================================================================
